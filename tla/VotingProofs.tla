----------------------------- MODULE VotingProofs -----------------------------
(***************************************************************************)
(* For any voters, consumers and numbers of votes and failures: votes are  *)
(* counted once, the author has the karma of the votes in force, and what  *)
(* voters and listings are shown follows.                                  *)
(***************************************************************************)
EXTENDS Voting, FiniteSetTheorems, SequenceTheorems, TLAPS

LOCAL INSTANCE SequencesExt

-----------------------------------------------------------------------------
(* The inductive invariants                                                *)

\* The type invariant is inductive with this: karma stays set once it is.
TypeInv ==
    /\ TypeOK
    /\ msg \in [Consumers -> Message \cup {None}]
    /\ \A c \in Consumers : pc[c] = "incrkarma" => karma # Unset

\* What the theorems about votes assume: no crash between _incr and write_vote,
\* no lock lost under its holder, voters who wait, nobody shadowbanned; and
\* comment votes, which take no lock, have one consumer.
Orderly ==
    /\ Faults \cap {"windowcrash", "expire", "pipelined", "spam"} = {}
    /\ \A s \in Setups : s.kind = "comment" => \A c, d \in s.consumers : c = d

Queued == ToSet(queue)
Working == {c \in Consumers : pc[c] # "idle"}
InFlight == Queued \cup {msg[c] : c \in Working}

\* The broker has m, or still waits for a consumer of it that is in places.
Reaches(m, places) ==
    \/ m \in Queued
    \/ \E c \in Working : conn[c] /\ msg[c] = m /\ pc[c] \in places

\* m will be processed, whoever dies.
Live(m) == Reaches(m, PCs)

\* The vote has been stored, or follows from the stored one.
Applied(m) == details[m.user] # None /\ details[m.user].direction = m.direction
Due(m) ==
    /\ StateOf(details[m.user]) \in DOMAIN Transition(m.button)
    /\ Transition(m.button)[StateOf(details[m.user])] = m.direction

Window == {"karma", "setkarma", "incrkarma", "writerel", "writedetails"}
Block == {"read", "score"} \cup Window \cup {"liked", "unlock"}
After == {"liked", "unlock", "notify", "ack"}

\* Only started consumers work, only link votes take the lock, and who is in
\* the block has it.
BlockOK(c) ==
    /\ pc[c] = "idle" => conn[c]
    /\ pc[c] # "idle" => c \in setup.consumers
    /\ pc[c] \in {"lock", "liked", "unlock"} => Kind = "link"
    /\ Kind = "link" /\ pc[c] \in Block => lock[msg[c].user] = c
BlockLocked == spam = {} /\ \A c \in Consumers : BlockOK(c)

\* All messages of a user are copies of one, which is stored or can be.
OneVote ==
    /\ \A m, n \in InFlight : m.user = n.user => m = n
    /\ \A m \in InFlight : Applied(m) \/ Due(m)

\* The vote last queued is stored, or will be; the author's first is "up".
LastVote ==
    /\ \A u \in Users :
          DirectionOf(details[u]) = last[u] \/ \E m \in InFlight : m.user = u /\ Live(m)
    /\ \A m \in InFlight : m.direction = last[m.user]
    /\ details[Author] = None =>
          last[Author] = "onoff" /\ \A m \in InFlight : m.user = Author => m.button = "up"

\* The effects fixed by Vote.__init__ are still those of the stored vote.
Current(c) ==
    LET u == msg[c].user
    IN  /\ Due(msg[c])
        /\ vote[c].known <=> details[u] # None
        /\ vote[c].score <=> AffectsScore(u, details[u])
        /\ vote[c].karma <=> AffectsKarma(u, details[u])
Committed(c) ==
    LET u == msg[c].user
    IN  /\ Applied(msg[c])
        /\ vote[c].known \/ msg[c].button \in {"up", "down"}
        /\ \/ vote[c].score \/ (u = Author /\ ~vote[c].known)
           \/ ~AffectsScore(u, details[u])
DraftOK(c) ==
    /\ pc[c] \in {"score"} \cup Window => Current(c)
    /\ pc[c] \in After => Committed(c)
DraftCurrent == \A c \in Consumers : DraftOK(c)

\* Votes without effect are the author's own.
EffectsStored ==
    \A u \in Users : details[u] # None =>
        /\ details[u].karma => details[u].score
        /\ u # Author => details[u].score /\ details[u].karma
        /\ u = Author => ~details[u].karma /\ (AllowSelfVote \/ ~details[u].score)

VotesInv == BlockLocked /\ OneVote /\ LastVote /\ DraftCurrent /\ EffectsStored

\* d is details with the votes of consumers in places p as they will be stored.
Stored(c) == [direction |-> msg[c].direction, score |-> vote[c].score, karma |-> vote[c].karma]
Foresees(d, places) ==
    /\ \A c \in Consumers : pc[c] \in places => d[msg[c].user] = Stored(c)
    /\ \A u \in Users :
          (\A c \in Consumers : pc[c] \in places => msg[c].user # u) => d[u] = details[u]

\* The counters are ahead of the stored votes by what is in the window.
Counted ==
    \E d \in [Users -> Vote \cup {None}] :
        Foresees(d, Window) /\ ups = UpTally(d) /\ downs = DownTally(d)

\* An author without karma in the subreddit has one consumer: the first karma
\* is assigned.
KarmaAlone == \A s \in Setups : s.karma = Unset => \A c, d \in s.consumers : c = d

KarmaPlaces ==
    /\ InitKarma # Unset => karma # Unset
    /\ \A c \in Consumers : pc[c] \in {"setkarma", "incrkarma"} => vote[c].karma
    /\ \A c \in Consumers : pc[c] = "setkarma" => karma = Unset
KarmaCounted ==
    \E d \in [Users -> Vote \cup {None}] :
        /\ Foresees(d, {"writerel", "writedetails"})
        /\ (IF karma = Unset THEN DefaultKarma ELSE karma)
             = (IF InitKarma = Unset THEN DefaultKarma ELSE InitKarma) + KarmaTally(d)

\* Keys of queued votes last, and no vote is lost.
Timely == Faults \cap {"slow", "lost"} = {}

RelFollows ==
    /\ \A c \in Consumers : pc[c] = "writedetails" => rel[msg[c].user] = msg[c].direction
    /\ \A u \in Users :
          (\A c \in Consumers : pc[c] = "writedetails" => msg[c].user # u)
            => rel[u] = DirectionOf(details[u])
QueuedSeen ==
    /\ \A u \in Users : pre[u] # None => pre[u] = last[u]
    /\ \A m \in InFlight : pre[m.user] # None

\* The lists follow the vote, or a copy of it is before update_user_liked.
LikedOK(u) == u \in liked <=> UpOn(details[u])
DislikedOK(u) == u \in disliked <=> DownOn(details[u])
ToList(m) == Reaches(m, {"lock", "read", "liked"})
ListOK(u) ==
    \/ LikedOK(u) /\ DislikedOK(u)
    \/ \E m \in InFlight :
          /\ m.user = u /\ Applied(m) /\ ToList(m)
          /\ m.button \in {"up", "unup"} => DislikedOK(u)
          /\ m.button \in {"down", "undown"} => LikedOK(u)
ListsFollow == Kind = "link" => \A u \in Users : ListOK(u)

\* The states with the first bit on, and those with the second.
UpBits == {"onon", "onoff", "up"}
DownBits == {"onon", "offon", "down"}

\* The state a vote leads to has the bit of its button set or cleared.
ButtonsMatch ==
    \A m \in InFlight :
        /\ m.button = "up" => m.direction \in UpBits
        /\ m.button = "unup" => m.direction \notin UpBits
        /\ m.button = "down" => m.direction \in DownBits
        /\ m.button = "undown" => m.direction \notin DownBits

\* A change that no listing was told of is on a message that will tell it.
ToNotify(m) == Reaches(m, PCs \ {"ack"})
RefreshDue ==
    unlisted => \E m \in InFlight : ToNotify(m) /\ AffectsScore(m.user, details[m.user])

-----------------------------------------------------------------------------
(* The queue                                                               *)

(***************************************************************************)
(* Publishing, redelivering and taking a message, by the messages that are *)
(* in the queue before and after.                                          *)
(***************************************************************************)
LEMMA AppendQueue ==
  ASSUME NEW S, NEW q \in Seq(S), NEW m \in S
  PROVE  /\ Append(q, m) \in Seq(S)
         /\ ToSet(Append(q, m)) = ToSet(q) \cup {m}
  <1>1. Append(q, m) \in Seq(S) /\ Len(Append(q, m)) = Len(q) + 1 /\ Len(q) \in Nat
    OBVIOUS
  <1>2. \A i \in 1..Len(q) : Append(q, m)[i] = q[i]
    OBVIOUS
  <1>3. Append(q, m)[Len(q) + 1] = m
    OBVIOUS
  <1>4. DOMAIN q = 1..Len(q) /\ DOMAIN Append(q, m) = 1..(Len(q) + 1)
    BY <1>1
  <1> DEFINE r == Append(q, m)
  <1> HIDE DEF r
  <1>5. {r[i] : i \in 1..(Len(q) + 1)} = {q[i] : i \in 1..Len(q)} \cup {m}
    <2>1. \A i \in 1..(Len(q) + 1) : i \in 1..Len(q) \/ i = Len(q) + 1
      BY <1>1
    <2>2. \A i \in 1..Len(q) : i \in 1..(Len(q) + 1)
      BY <1>1
    <2>3. Len(q) + 1 \in 1..(Len(q) + 1)
      BY <1>1
    <2>4. \A i \in 1..Len(q) : r[i] = q[i]
      BY <1>2 DEF r
    <2>5. r[Len(q) + 1] = m
      BY <1>3 DEF r
    <2>6. QED
      BY <2>1, <2>2, <2>3, <2>4, <2>5
  <1>6. QED
    BY <1>1, <1>4, <1>5 DEF r, ToSet

\* Redelivering a message adds it to the queue.
LEMMA PrependQueue ==
  ASSUME NEW S, NEW q \in Seq(S), NEW m \in S
  PROVE  /\ <<m>> \o q \in Seq(S)
         /\ ToSet(<<m>> \o q) = ToSet(q) \cup {m}
  <1> DEFINE r == <<m>> \o q
  <1>1. r \in Seq(S) /\ Len(r) = Len(q) + 1 /\ Len(q) \in Nat
    OBVIOUS
  <1>2. r[1] = m /\ \A i \in 1..Len(q) : r[i + 1] = q[i]
    OBVIOUS
  <1>3. DOMAIN q = 1..Len(q) /\ DOMAIN r = 1..(Len(q) + 1)
    BY <1>1
  <1> HIDE DEF r
  <1>4. {r[i] : i \in 1..(Len(q) + 1)} = {q[i] : i \in 1..Len(q)} \cup {m}
    <2>1. \A i \in 1..(Len(q) + 1) : i = 1 \/ (i - 1 \in 1..Len(q) /\ i = (i - 1) + 1)
      BY <1>1
    <2>2. \A i \in 1..Len(q) : i + 1 \in 1..(Len(q) + 1)
      BY <1>1
    <2>3. 1 \in 1..(Len(q) + 1)
      BY <1>1
    <2>4. \A i \in 1..(Len(q) + 1) : r[i] = m \/ \E k \in 1..Len(q) : r[i] = q[k]
      BY <1>2, <2>1
    <2>5. QED
      BY <1>2, <2>2, <2>3, <2>4
  <1>5. QED
    BY <1>1, <1>3, <1>4 DEF r, ToSet

\* Taking a message removes at most that one.
LEMMA TakeQueue ==
  ASSUME NEW S, NEW q \in Seq(S), NEW k \in DOMAIN q
  PROVE  /\ RemoveAt(q, k) \in Seq(S) /\ q[k] \in S
         /\ ToSet(RemoveAt(q, k)) \subseteq ToSet(q)
         /\ ToSet(q) \subseteq ToSet(RemoveAt(q, k)) \cup {q[k]}
  <1> DEFINE n == Len(q)
             r == RemoveAt(q, k)
  <1>1. n \in Nat /\ k \in 1..n /\ DOMAIN q = 1..n
    OBVIOUS
  <1>2. /\ SubSeq(q, 1, k - 1) \in Seq(S) /\ Len(SubSeq(q, 1, k - 1)) = k - 1
        /\ \A i \in 1..(k - 1) : SubSeq(q, 1, k - 1)[i] = q[i]
    BY <1>1
  <1>3. /\ SubSeq(q, k + 1, n) \in Seq(S) /\ Len(SubSeq(q, k + 1, n)) = n - k
        /\ \A i \in 1..(n - k) : SubSeq(q, k + 1, n)[i] = q[i + k]
    BY <1>1
  <1>4. r = SubSeq(q, 1, k - 1) \o SubSeq(q, k + 1, n)
    BY DEF RemoveAt
  <1>5. PICK a \in Seq(S), b \in Seq(S) :
          /\ r = a \o b /\ Len(a) = k - 1 /\ Len(b) = n - k
          /\ \A i \in 1..(k - 1) : a[i] = q[i]
          /\ \A i \in 1..(n - k) : b[i] = q[i + k]
    BY <1>2, <1>3, <1>4
  <1> HIDE DEF r, n
  <1>51. r \in Seq(S) /\ Len(r) = Len(a) + Len(b)
    <2>1. a \o b \in Seq(S)
      BY ConcatProperties
    <2>2. Len(a \o b) = Len(a) + Len(b)
      BY ConcatProperties
    <2>3. r = a \o b
      BY <1>5
    <2>4. QED
      BY <2>1, <2>2, <2>3
  <1>52. Len(r) = n - 1
    BY <1>1, <1>5, <1>51
  <1>6. ASSUME NEW i \in 1..(n - 1)
        PROVE  r[i] = IF i < k THEN q[i] ELSE q[i + 1]
    <2>1. CASE i < k
      <3>1. i \in 1..Len(a) /\ i \in 1..(k - 1)
        BY <1>1, <1>5, <2>1
      <3>2. r[i] = a[i]
        BY <1>5, <3>1
      <3>3. QED
        BY <1>5, <2>1, <3>1, <3>2
    <2>2. CASE ~(i < k)
      <3>1. i - Len(a) \in 1..Len(b) /\ i - (k - 1) \in 1..(n - k) /\ i - (k - 1) + k = i + 1
        BY <1>1, <1>5, <2>2
      <3>2. r[i] = b[i - Len(a)]
        <4>1. i \in 1..(Len(a) + Len(b)) /\ ~(i <= Len(a))
          BY <1>1, <1>5, <2>2
        <4>2. (a \o b)[i] = b[i - Len(a)]
          BY <4>1
        <4>3. r = a \o b
          BY <1>5
        <4>4. QED
          BY <4>2, <4>3
      <3>3. QED
        BY <1>5, <2>2, <3>1, <3>2
    <2>3. QED
      BY <2>1, <2>2
  <1>7. DOMAIN r = 1..(n - 1)
    BY <1>51, <1>52
  <1>8. {r[i] : i \in 1..(n - 1)} \subseteq {q[i] : i \in 1..n}
    <2>1. \A i \in 1..(n - 1) : i \in 1..n /\ i + 1 \in 1..n
      BY <1>1
    <2>2. QED
      BY <1>6, <2>1
  <1>9. \A i \in 1..n : q[i] = q[k] \/ \E j \in 1..(n - 1) : r[j] = q[i]
    <2> TAKE i \in 1..n
    <2>1. CASE i = k
      BY <2>1
    <2>2. CASE i < k
      <3>1. i \in 1..(n - 1) /\ r[i] = q[i]
        BY <1>1, <1>6, <2>2
      <3>2. QED
        BY <3>1
    <2>3. CASE i > k
      <3>1. i - 1 \in 1..(n - 1) /\ ~(i - 1 < k) /\ (i - 1) + 1 = i
        BY <1>1, <2>3
      <3>2. r[i - 1] = q[i]
        BY <1>6, <3>1
      <3>3. QED
        BY <3>1, <3>2
    <2>4. QED
      BY <1>1, <2>1, <2>2, <2>3
  <1>10. q[k] \in S
    OBVIOUS
  <1>11. QED
    BY <1>1, <1>51, <1>7, <1>8, <1>9, <1>10 DEF r, ToSet

-----------------------------------------------------------------------------
(* Types                                                                   *)

(***************************************************************************)
(* cast_vote's table leads to states with two bits.                        *)
(***************************************************************************)
LEMMA TransitionTyped ==
  ASSUME NEW b \in Buttons, NEW s \in DOMAIN Transition(b)
  PROVE  Transition(b)[s] \in {"onon", "onoff", "offon", "offoff"}
  <1>1. CASE b = "up"
    BY <1>1 DEF Transition
  <1>2. CASE b = "down"
    BY <1>2 DEF Transition
  <1>3. CASE b = "unup"
    BY <1>3 DEF Transition
  <1>4. CASE b = "undown"
    BY <1>4 DEF Transition
  <1>5. QED
    BY <1>1, <1>2, <1>3, <1>4 DEF Buttons

(***************************************************************************)
(* Numbers of voters are natural numbers.                                  *)
(***************************************************************************)
LEMMA TalliesTyped ==
  ASSUME NEW d
  PROVE  UpTally(d) \in Nat /\ DownTally(d) \in Nat /\ KarmaTally(d) \in Nat
  <1>1. \A S \in SUBSET Users : IsFiniteSet(S) /\ Cardinality(S) \in Nat
    BY VotingAssumption, FS_Subset, FS_CardinalityType
  <1>2. UpTally(d) \in Nat
    BY <1>1 DEF UpTally
  <1>3. DownTally(d) \in Nat
    BY <1>1 DEF DownTally
  <1>4. KarmaTally(d) \in Nat
    <2>1. Cardinality({u \in Users : UpOn(d[u]) /\ d[u].karma}) \in Nat
      BY <1>1
    <2>2. Cardinality({u \in Users : DownOn(d[u]) /\ d[u].karma}) \in Nat
      BY <1>1
    <2>3. QED
      BY <2>1, <2>2 DEF KarmaTally
  <1>5. QED
    BY <1>2, <1>3, <1>4

(***************************************************************************)
(* Things start with votes of the right type.                              *)
(***************************************************************************)
LEMMA InitTyped == Init => TypeInv
  <1> SUFFICES ASSUME Init PROVE TypeInv
    OBVIOUS
  <1> USE VotingAssumption DEF Init
  <1>0. /\ setup \in Setups /\ setup.legacy \subseteq {"up", "down", "unvote"}
        /\ setup.karma \in Int \cup {Unset}
    OBVIOUS
  <1>1. details \in [Users -> Vote \cup {None}]
    <2>1. \A u \in Users : InitialVotes(u) \subseteq Vote \cup {None}
      <3> SUFFICES ASSUME NEW u \in Users, NEW v \in InitialVotes(u) PROVE v \in Vote \cup {None}
        OBVIOUS
      <3>1. CASE v # None
        <4>1. PICK s \in {"up", "down", "unvote"} :
                 v = [direction |-> s, score |-> TRUE, karma |-> TRUE]
          BY <1>0, <3>1 DEF InitialVotes, Legacy
        <4>2. QED
          BY <4>1 DEF Vote, States
      <3>2. QED
        BY <3>1
    <2>2. \A u \in Users : details[u] \in Vote \cup {None}
      BY <2>1
    <2>3. QED
      BY <2>2
  <1>2. \A u \in Users : DirectionOf(details[u]) \in States \cup {None}
    BY <1>1 DEF DirectionOf, Vote
  <1>3. rel \in [Users -> States \cup {None}] /\ pre \in [Users -> States \cup {None}]
          /\ last \in [Users -> States \cup {None}]
    BY <1>2 DEF States
  <1>4. FirstMessage \in Message
    BY DEF FirstMessage, Message, States, Buttons
  <1>5. queue \in Seq(Message)
    BY <1>4
  <1>6. lock \in [Users -> Consumers \cup {"dead", None}] /\ pc \in [Consumers -> PCs]
          /\ vote \in [Consumers -> Draft] /\ conn \in [Consumers -> BOOLEAN]
          /\ casts \in [Users -> Nat] /\ faults \in Nat
    BY DEF PCs, Draft, NoDraft
  <1>7. ups \in Int /\ downs \in Int /\ karma \in Int \cup {Unset}
    BY <1>0, TalliesTyped DEF InitKarma
  <1>8. msg \in [Consumers -> Message \cup {None}]
          /\ \A c \in Consumers : pc[c] = "idle" /\ msg[c] = None
    OBVIOUS
  <1>9. liked \subseteq Users /\ disliked \subseteq Users /\ unlisted \in BOOLEAN
          /\ spam \subseteq Users
    OBVIOUS
  <1>10. QED
    BY <1>0, <1>1, <1>3, <1>5, <1>6, <1>7, <1>8, <1>9 DEF TypeInv, TypeOK

(***************************************************************************)
(* cast_vote and the environment keep the types.                           *)
(***************************************************************************)
LEMMA EnvironmentTyped ==
  ASSUME TypeInv, setup' = setup,
         NEW u \in Users,
         \/ \E b \in Buttons : CastVote(u, b) \/ CastVoteLost(u, b)
         \/ GraceEnds(u) \/ LockExpires(u) \/ SetSpam(u)
  PROVE  TypeInv'
  <1> USE DEF TypeInv, TypeOK, storage, counters
  <1>a. faults' \in Nat
    BY DEF CastVote, CastVoteLost, GraceEnds, LockExpires, SetSpam, Fault
  <1>b. ASSUME NEW b \in Buttons, Cast(u, b)
        PROVE  /\ StateOf(details[u]) \in DOMAIN Transition(b)
               /\ Transition(b)[StateOf(details[u])] \in States
               /\ pre' \in [Users -> States \cup {None}]
               /\ casts' \in [Users -> Nat]
               /\ UNCHANGED <<storage, lock, pc, msg, vote, conn, unlisted, spam>>
    <2>1. StateOf(details[u]) \in DOMAIN Transition(b)
      BY <1>b DEF Cast
    <2>2. Transition(b)[StateOf(details[u])] \in States
      BY <2>1, TransitionTyped DEF States
    <2>3. QED
      BY <1>b, <2>1, <2>2 DEF Cast
  <1>1. ASSUME NEW b \in Buttons, CastVote(u, b)
        PROVE  TypeInv'
    <2>1. PICK m \in Message : queue' = Append(queue, m)
      <3> DEFINE m == [user |-> u, direction |-> Transition(b)[StateOf(details[u])],
                       button |-> b, id |-> casts[u] + 1]
      <3>1. m \in Message
        BY <1>1, <1>b DEF CastVote, Message
      <3>2. queue' = Append(queue, m)
        BY <1>1 DEF CastVote, Publish
      <3>3. QED
        BY <3>1, <3>2
    <2>2. queue' \in Seq(Message)
      BY <2>1
    <2>3. last' \in [Users -> States \cup {None}]
      BY <1>1, <1>b DEF CastVote, Publish
    <2>4. QED
      BY <1>1, <1>a, <1>b, <2>2, <2>3 DEF CastVote
  <1>2. ASSUME NEW b \in Buttons, CastVoteLost(u, b)
        PROVE  TypeInv'
    BY <1>2, <1>a, <1>b DEF CastVoteLost
  <1>3. CASE GraceEnds(u)
    BY <1>3, <1>a DEF GraceEnds
  <1>4. CASE LockExpires(u)
    BY <1>4, <1>a DEF LockExpires
  <1>5. CASE SetSpam(u)
    BY <1>5, <1>a DEF SetSpam
  <1>6. QED
    BY <1>1, <1>2, <1>3, <1>4, <1>5

(***************************************************************************)
(* A consumer that ends keeps the types.                                   *)
(***************************************************************************)
LEMMA DieTyped ==
  ASSUME TypeInv, setup' = setup, NEW c \in Consumers, pc[c] # "idle", Die(c), faults' \in Nat
  PROVE  TypeInv'
  <1> USE DEF TypeInv, TypeOK
  <1>1. msg[c] \in Message
    OBVIOUS
  <1>2. queue' \in Seq(Message)
    BY <1>1, PrependQueue DEF Die
  <1>3. lock' \in [Users -> Consumers \cup {"dead", None}]
    BY DEF Die
  <1>4. pc' = [pc EXCEPT ![c] = "idle"] /\ msg' = [msg EXCEPT ![c] = None]
          /\ vote' = [vote EXCEPT ![c] = NoDraft] /\ conn' = [conn EXCEPT ![c] = TRUE]
    BY DEF Die, Goto
  <1>5. UNCHANGED <<details, rel, ups, downs, karma, liked, disliked, pre, last, unlisted, spam,
                    casts>>
    BY DEF Die, storage
  <1>6. vote' \in [Consumers -> Draft] /\ conn' \in [Consumers -> BOOLEAN]
          /\ pc' \in [Consumers -> PCs] /\ msg' \in [Consumers -> Message \cup {None}]
    BY <1>4 DEF Draft, NoDraft, PCs
  <1>7. \A d \in Consumers : IF pc'[d] = "idle" THEN msg'[d] = None ELSE msg'[d] \in Message
    BY <1>4
  <1>71. \A d \in Consumers : pc'[d] = "incrkarma" => karma' # Unset
    BY <1>4, <1>5
  <1>8. TypeOK'
    BY <1>2, <1>3, <1>5, <1>6, <1>7
  <1>9. QED
    BY <1>6, <1>71, <1>8

(***************************************************************************)
(* A consumer that goes on with its message keeps the types, if what it    *)
(* writes has them.                                                        *)
(***************************************************************************)
LEMMA GotoTyped ==
  ASSUME TypeInv, NEW c \in Consumers, pc[c] # "idle",
         NEW label \in PCs \ {"idle"}, Goto(c, label), label = "incrkarma" => karma' # Unset,
         UNCHANGED <<setup, msg, pre, last, queue, conn, spam, casts, faults>>,
         details' \in [Users -> Vote \cup {None}], rel' \in [Users -> States \cup {None}],
         lock' \in [Users -> Consumers \cup {"dead", None}], vote' \in [Consumers -> Draft],
         ups' \in Int, downs' \in Int, karma' \in Int \cup {Unset}, karma # Unset => karma' # Unset,
         liked' \subseteq Users, disliked' \subseteq Users, unlisted' \in BOOLEAN
  PROVE  TypeInv'
  <1> USE DEF TypeInv, TypeOK
  <1>1. pc' = [pc EXCEPT ![c] = label]
    BY DEF Goto
  <1>2. pc' \in [Consumers -> PCs]
    BY <1>1
  <1>3. \A d \in Consumers : IF pc'[d] = "idle" THEN msg'[d] = None ELSE msg'[d] \in Message
    BY <1>1
  <1>4. \A d \in Consumers : pc'[d] = "incrkarma" => karma' # Unset
    BY <1>1
  <1>5. TypeOK'
    BY <1>2, <1>3
  <1>6. QED
    BY <1>4, <1>5

(***************************************************************************)
(* Every step of a consumer keeps the types.                               *)
(***************************************************************************)
LEMMA ConsumerTyped ==
  ASSUME TypeInv, setup' = setup, NEW c \in Consumers,
         Deliver(c) \/ ProcessMessage(c) \/ Crash(c) \/ LostConn(c)
  PROVE  TypeInv'
  <1> USE DEF TypeInv, TypeOK, storage, counters
  <1>m. pc[c] # "idle" => /\ msg[c] \in Message /\ msg[c].user \in Users
                          /\ msg[c].direction \in States /\ msg[c].button \in Buttons
    BY DEF Message
  <1>u. unlisted \in BOOLEAN /\ vote[c] \in Draft
    OBVIOUS
  <1>1. CASE Deliver(c)
    <2>1. PICK i \in DOMAIN queue : msg' = [msg EXCEPT ![c] = queue[i]]
                                     /\ queue' = RemoveAt(queue, i)
      BY <1>1 DEF Deliver
    <2>2. queue' \in Seq(Message) /\ queue[i] \in Message
      BY <2>1, TakeQueue
    <2>3. PICK label \in {"lock", "read"} : pc' = [pc EXCEPT ![c] = label]
      BY <1>1 DEF Deliver, Goto
    <2>4. pc' \in [Consumers -> PCs]
      BY <2>3 DEF PCs
    <2>5. \A d \in Consumers : IF pc'[d] = "idle" THEN msg'[d] = None ELSE msg'[d] \in Message
      BY <2>1, <2>2, <2>3
    <2>6. UNCHANGED <<storage, pre, last, lock, vote, conn, unlisted, spam, counters>>
      BY <1>1 DEF Deliver
    <2>7. \A d \in Consumers : pc'[d] = "incrkarma" => karma' # Unset
      BY <2>3, <2>6
    <2>8. msg' \in [Consumers -> Message \cup {None}]
      BY <2>1, <2>2
    <2>9. TypeOK'
      BY <2>2, <2>4, <2>5, <2>6
    <2>10. QED
      BY <2>7, <2>8, <2>9
  <1>2. CASE Lock(c)
    <2>1. lock' \in [Users -> Consumers \cup {"dead", None}]
      BY <1>2, <1>m DEF Lock
    <2>2. QED
      BY <1>2, <2>1, GotoTyped DEF Lock, PCs
  <1>3. CASE TimeoutExpired(c)
    BY <1>3, DieTyped DEF TimeoutExpired
  <1>4. CASE ReadPrevious(c)
    <2>1. PICK label \in PCs \ {"idle", "incrkarma"} : Goto(c, label)
      BY <1>4 DEF ReadPrevious, AfterRead, AfterCommit, PCs
    <2>2. vote' \in [Consumers -> Draft]
      <3> DEFINE u == msg[c].user
                 v == [known |-> details[u] # None,
                       again |-> details[u] # None /\ details[u].direction = msg[c].direction,
                       score |-> AffectsScore(u, details[u]),
                       karma |-> AffectsKarma(u, details[u])]
      <3>1. AffectsScore(u, details[u]) \in BOOLEAN /\ AffectsKarma(u, details[u]) \in BOOLEAN
        BY DEF AffectsScore, AffectsKarma
      <3>2. v \in Draft
        BY <3>1 DEF Draft
      <3>3. vote' = [vote EXCEPT ![c] = v]
        BY <1>4 DEF ReadPrevious
      <3> HIDE DEF v
      <3>4. QED
        BY <3>2, <3>3
    <2>3. pc[c] # "idle" /\ UNCHANGED <<storage, pre, last, queue, lock, msg, conn, unlisted, spam,
                                        counters>>
      BY <1>4 DEF ReadPrevious
    <2>4. QED
      BY <2>1, <2>2, <2>3, GotoTyped
  <1>5. CASE ApplyScore(c)
    <2>1. ups' \in Int /\ downs' \in Int /\ unlisted' \in BOOLEAN
      BY <1>5 DEF ApplyScore
    <2>2. QED
      BY <1>5, <2>1, GotoTyped DEF ApplyScore, PCs
  <1>6. CASE ReadKarma(c)
    <2>1. PICK label \in PCs \ {"idle"} : Goto(c, label) /\ (label = "incrkarma" => karma # Unset)
      BY <1>6 DEF ReadKarma, PCs
    <2>2. QED
      BY <1>6, <2>1, GotoTyped DEF ReadKarma
  <1>7. CASE SetKarma(c) \/ IncrKarma(c)
    <2>0. pc[c] \in {"setkarma", "incrkarma"} /\ pc[c] # "idle"
      BY <1>7 DEF SetKarma, IncrKarma, ChangeKarma
    <2>1. KarmaChange(msg[c].button) \in Int
      BY <1>m, <2>0 DEF KarmaChange, Buttons
    <2>2. karma' \in Int
      BY <1>7, <2>1, VotingAssumption DEF SetKarma, IncrKarma, ChangeKarma
    <2>3. karma' # Unset
      BY <2>2, VotingAssumption
    <2>4. Goto(c, "writerel") /\ UNCHANGED <<details, rel, ups, downs, liked, disliked>>
            /\ UNCHANGED <<pre, last, queue, lock, msg, vote, conn, unlisted, spam, counters>>
      BY <1>7 DEF SetKarma, IncrKarma, ChangeKarma
    <2>5. QED
      BY <2>0, <2>2, <2>3, <2>4, GotoTyped DEF PCs
  <1>8. CASE WriteRel(c)
    <2>1. rel' \in [Users -> States \cup {None}]
      BY <1>8, <1>m DEF WriteRel
    <2>2. QED
      BY <1>8, <2>1, GotoTyped DEF WriteRel, PCs
  <1>9. CASE WriteDetails(c)
    <2>1. details' \in [Users -> Vote \cup {None}]
      <3>1. [direction |-> msg[c].direction,
             score |-> vote[c].score, karma |-> vote[c].karma] \in Vote
        BY <1>9, <1>m, <1>u DEF WriteDetails, Vote, Draft
      <3>2. QED
        BY <1>9, <3>1 DEF WriteDetails
    <2>2. PICK label \in {"liked", "notify"} : Goto(c, label)
      BY <1>9 DEF WriteDetails, AfterCommit
    <2>3. QED
      BY <1>9, <2>1, <2>2, GotoTyped DEF WriteDetails, PCs
  <1>10. CASE UpdateUserLiked(c)
    <2>1. liked' \subseteq Users /\ disliked' \subseteq Users
      BY <1>10, <1>m DEF UpdateUserLiked
    <2>2. QED
      BY <1>10, <2>1, GotoTyped DEF UpdateUserLiked, PCs
  <1>11. CASE Unlock(c)
    <2>1. lock' \in [Users -> Consumers \cup {"dead", None}]
      BY <1>11, <1>m DEF Unlock
    <2>2. QED
      BY <1>11, <2>1, GotoTyped DEF Unlock, PCs
  <1>12. CASE Notify(c)
    <2>1. unlisted' \in BOOLEAN
      BY <1>12 DEF Notify
    <2>2. QED
      BY <1>12, <2>1, GotoTyped DEF Notify, PCs
  <1>13. CASE Ack(c)
    <2>1. pc' = [pc EXCEPT ![c] = "idle"] /\ msg' = [msg EXCEPT ![c] = None]
            /\ vote' = [vote EXCEPT ![c] = NoDraft] /\ conn' = [conn EXCEPT ![c] = TRUE]
      BY <1>13 DEF Ack, Goto
    <2>2. UNCHANGED <<storage, pre, last, queue, lock, unlisted, spam, counters>>
      BY <1>13 DEF Ack
    <2>3. vote' \in [Consumers -> Draft] /\ conn' \in [Consumers -> BOOLEAN]
            /\ pc' \in [Consumers -> PCs] /\ msg' \in [Consumers -> Message \cup {None}]
      BY <2>1 DEF Draft, NoDraft, PCs
    <2>4. \A d \in Consumers : IF pc'[d] = "idle" THEN msg'[d] = None ELSE msg'[d] \in Message
      BY <2>1
    <2>5. \A d \in Consumers : pc'[d] = "incrkarma" => karma' # Unset
      BY <2>1, <2>2
    <2>6. TypeOK'
      BY <2>2, <2>3, <2>4
    <2>7. QED
      BY <2>3, <2>5, <2>6
  <1>14. CASE Crash(c)
    BY <1>14, DieTyped DEF Crash, Fault
  <1>15. CASE LostConn(c)
    <2>1. queue' \in Seq(Message)
      BY <1>15, <1>m, PrependQueue DEF LostConn
    <2>2. faults' \in Nat /\ conn' \in [Consumers -> BOOLEAN]
      BY <1>15 DEF LostConn, Fault
    <2>3. UNCHANGED <<storage, pre, last, lock, pc, msg, vote, unlisted, spam, casts>>
      BY <1>15 DEF LostConn
    <2>4. QED
      BY <2>1, <2>2, <2>3
  <1>16. QED
    BY <1>1, <1>2, <1>3, <1>4, <1>5, <1>6, <1>7, <1>8, <1>9, <1>10, <1>11, <1>12, <1>13, <1>14,
       <1>15 DEF ProcessMessage

(***************************************************************************)
(* The state of voting is well typed under every failure, voters who do    *)
(* not wait and shadowbans included.                                       *)
(***************************************************************************)
LEMMA TypeInvariant == Spec => []TypeInv
  <1>1. TypeInv /\ [Next]_<<setup, vars>> => TypeInv'
    <2> SUFFICES ASSUME TypeInv, [Next]_<<setup, vars>> PROVE TypeInv'
      OBVIOUS
    <2>1. CASE Next
      BY <2>1, EnvironmentTyped, ConsumerTyped DEF Next
    <2>2. CASE UNCHANGED <<setup, vars>>
      BY <2>2 DEF vars, TypeInv, TypeOK
    <2>3. QED
      BY <2>1, <2>2
  <1>2. QED
    BY <1>1, InitTyped, PTL DEF Spec

(***************************************************************************)
(* Voting is well typed for any voters, consumers and failures.            *)
(***************************************************************************)
THEOREM TypeCorrect == Spec => []TypeOK
  BY TypeInvariant, PTL DEF TypeInv

-----------------------------------------------------------------------------
(* Votes in flight                                                         *)

(***************************************************************************)
(* The table of cast_vote: "up" switches the first bit on where it is off, *)
(* "unup" off where it is on, and neither touches the second; likewise     *)
(* "down" and "undown".  So no button leads back to the same state.        *)
(***************************************************************************)
LEMMA TableFacts ==
  ASSUME NEW b \in Buttons, NEW s \in DOMAIN Transition(b), NEW n, n = Transition(b)[s]
  PROVE  /\ n # s
         /\ s = "new" => b \in {"up", "down"}
         /\ b = "up" => s \notin UpBits /\ n \in UpBits
         /\ b = "unup" => s \in UpBits /\ n \notin UpBits
         /\ b \in {"down", "undown"} => (n \in UpBits <=> s \in UpBits)
         /\ b = "down" => s \notin DownBits /\ n \in DownBits
         /\ b = "undown" => s \in DownBits /\ n \notin DownBits
         /\ b \in {"up", "unup"} => (n \in DownBits <=> s \in DownBits)
  <1> USE DEF UpBits, DownBits
  <1>1. CASE b = "up"
    BY <1>1 DEF Transition
  <1>2. CASE b = "down"
    BY <1>2 DEF Transition
  <1>3. CASE b = "unup"
    BY <1>3 DEF Transition
  <1>4. CASE b = "undown"
    BY <1>4 DEF Transition
  <1>5. QED
    BY <1>1, <1>2, <1>3, <1>4 DEF Buttons

(***************************************************************************)
(* A vote that is stored is not one that can still be: processing it again *)
(* has no effect.                                                          *)
(***************************************************************************)
LEMMA OnceOnly ==
  ASSUME NEW m \in Message, Applied(m), Due(m)
  PROVE  FALSE
  <1>1. m.button \in Buttons
    BY DEF Message
  <1>2. PICK s : s = StateOf(details[m.user])
    OBVIOUS
  <1>3. s \in DOMAIN Transition(m.button) /\ Transition(m.button)[s] = m.direction
    BY <1>2 DEF Due
  <1>4. m.direction # s
    BY <1>1, <1>3, TableFacts
  <1>5. s = m.direction
    BY <1>2 DEF Applied, StateOf
  <1>6. QED
    BY <1>4, <1>5

(***************************************************************************)
(* At most one consumer at a time is in the block for a user: by the lock  *)
(* for links, by being the only one for comments.                          *)
(***************************************************************************)
LEMMA AloneInBlock ==
  ASSUME Orderly, TypeInv, BlockLocked, NEW c \in Consumers, NEW d \in Consumers,
         pc[c] \in Block, pc[d] \in Block, msg[c].user = msg[d].user
  PROVE  c = d
  <1>1. pc[c] # "idle" /\ pc[d] # "idle"
    BY DEF Block, Window
  <1>2. c \in setup.consumers /\ d \in setup.consumers
    BY <1>1 DEF BlockLocked, BlockOK
  <1>3. setup \in Setups /\ setup.kind \in {"link", "comment"}
    BY VotingAssumption DEF TypeInv, TypeOK
  <1>4. CASE Kind = "link"
    BY <1>4 DEF BlockLocked, BlockOK
  <1>5. CASE Kind # "link"
    BY <1>2, <1>3, <1>5 DEF Kind, Orderly
  <1>6. QED
    BY <1>4, <1>5

(***************************************************************************)
(* What is in flight are messages.                                         *)
(***************************************************************************)
LEMMA FlightTyped ==
  ASSUME TypeInv
  PROVE  InFlight \subseteq Message
  <1>1. Queued \subseteq Message
    BY DEF TypeInv, TypeOK, Queued, ToSet
  <1>2. \A c \in Working : msg[c] \in Message
    BY DEF TypeInv, TypeOK, Working
  <1>3. QED
    BY <1>1, <1>2 DEF InFlight

(***************************************************************************)
(* Settled: nothing of the user is in flight.                              *)
(***************************************************************************)
LEMMA SettledIs ==
  ASSUME NEW u \in Users
  PROVE  Settled(u) <=> \A m \in InFlight : m.user # u
  BY DEF Settled, InFlight, Queued, Working, ToSet

(***************************************************************************)
(* A step that leaves queue, messages and connections alone leaves all     *)
(* votes in flight.                                                        *)
(***************************************************************************)
LEMMA SameFlight ==
  ASSUME UNCHANGED <<queue, msg, conn>>,
         \A c \in Consumers : pc[c] \in PCs /\ pc'[c] \in PCs,
         \A c \in Consumers : pc'[c] = "idle" <=> pc[c] = "idle"
  PROVE  /\ Queued' = Queued /\ Working' = Working /\ InFlight' = InFlight
         /\ \A m : Live(m)' <=> Live(m)
  <1>1. Queued' = Queued
    BY DEF Queued
  <1>2. Working' = Working
    BY DEF Working
  <1>4. \A m : Live(m)' <=> Live(m)
    BY <1>1, <1>2 DEF Live, Reaches, Working
  <1>5. QED
    BY <1>1, <1>2, <1>4 DEF InFlight

(***************************************************************************)
(* A step of c inside its callback that writes no vote keeps the invariant *)
(* if c itself is as it should be.                                         *)
(***************************************************************************)
LEMMA GotoVotes ==
  ASSUME TypeInv, VotesInv, NEW c \in Consumers, pc[c] # "idle",
         NEW label \in PCs \ {"idle"}, Goto(c, label),
         UNCHANGED <<setup, details, last, queue, msg, conn, spam>>,
         \A d \in Consumers \ {c} : vote'[d] = vote[d],
         \A d \in Consumers \ {c}, u \in Users : lock[u] = d => lock'[u] = d,
         BlockOK(c)', DraftOK(c)'
  PROVE  VotesInv'
  <1>1. pc' = [pc EXCEPT ![c] = label] /\ pc \in [Consumers -> PCs]
    BY DEF Goto, TypeInv, TypeOK
  <1>2. /\ InFlight' = InFlight
        /\ \A m : Live(m)' <=> Live(m)
    BY <1>1, SameFlight
  <1>3. \A m : (Applied(m)' <=> Applied(m)) /\ (Due(m)' <=> Due(m))
    BY DEF Applied, Due
  <1>4. OneVote'
    BY <1>2, <1>3 DEF VotesInv, OneVote
  <1>5. LastVote'
    BY <1>2 DEF VotesInv, LastVote
  <1>6. EffectsStored'
    BY DEF VotesInv, EffectsStored, AllowSelfVote
  <1>7. ASSUME NEW d \in Consumers \ {c}
        PROVE  BlockOK(d)' /\ DraftOK(d)'
    <2>1. pc'[d] = pc[d] /\ vote'[d] = vote[d] /\ msg'[d] = msg[d] /\ conn'[d] = conn[d]
      BY <1>1
    <2>2. BlockOK(d) /\ DraftOK(d)
      BY DEF VotesInv, BlockLocked, DraftCurrent
    <2>3. pc[d] # "idle" => msg[d].user \in Users
      BY DEF TypeInv, TypeOK, Message
    <2>4. BlockOK(d)'
      BY <2>1, <2>2, <2>3 DEF BlockOK, Kind, Block, Window
    <2>5. DraftOK(d)'
      BY <1>3, <2>1, <2>2 DEF DraftOK, Current, Committed, AffectsScore, AffectsKarma,
                              AllowSelfVote
    <2>6. QED
      BY <2>4, <2>5
  <1>8. QED
    BY <1>4, <1>5, <1>6, <1>7 DEF VotesInv, BlockLocked, DraftCurrent

(***************************************************************************)
(* The steps of process_message before and after the vote is written.      *)
(***************************************************************************)
LEMMA CallbackVotes ==
  ASSUME TypeInv, VotesInv, setup' = setup, NEW c \in Consumers,
         \/ Lock(c) \/ ReadPrevious(c) \/ ApplyScore(c) \/ ReadKarma(c) \/ SetKarma(c)
         \/ IncrKarma(c) \/ WriteRel(c) \/ UpdateUserLiked(c) \/ Unlock(c) \/ Notify(c)
  PROVE  VotesInv'
  <1> USE DEF storage, counters
  <1>a. /\ pc[c] # "idle" /\ pc \in [Consumers -> PCs]
        /\ lock \in [Users -> Consumers \cup {"dead", None}]
        /\ vote \in [Consumers -> Draft]
    BY DEF TypeInv, TypeOK, Lock, ReadPrevious, ApplyScore, ReadKarma, SetKarma, IncrKarma,
           ChangeKarma, WriteRel, UpdateUserLiked, Unlock, Notify
  <1>b. msg[c] \in Message /\ msg[c].user \in Users /\ msg[c] \in InFlight
    BY <1>a DEF TypeInv, TypeOK, Message, InFlight, Working
  <1>c. BlockOK(c) /\ DraftOK(c)
    BY DEF VotesInv, BlockLocked, DraftCurrent
  <1>d. UNCHANGED <<setup, details, last, queue, msg, conn, spam>>
    BY DEF Lock, ReadPrevious, ApplyScore, ReadKarma, SetKarma, IncrKarma, ChangeKarma, WriteRel,
           UpdateUserLiked, Unlock, Notify
  <1>e. \A m : (Applied(m)' <=> Applied(m)) /\ (Due(m)' <=> Due(m))
    BY <1>d DEF Applied, Due
  <1>f. ASSUME NEW label \in PCs \ {"idle"}, Goto(c, label)
        PROVE  pc'[c] = label
    BY <1>a, <1>f DEF Goto
  <1>g. ASSUME NEW u, NEW prev
        PROVE  /\ AffectsScore(u, prev)' <=> AffectsScore(u, prev)
               /\ AffectsKarma(u, prev)' <=> AffectsKarma(u, prev)
    BY <1>d DEF AffectsScore, AffectsKarma, AllowSelfVote
  <1>h. ASSUME vote' = vote, Current(c)
        PROVE  Current(c)'
    BY <1>d, <1>e, <1>g, <1>h DEF Current
  <1>i. ASSUME vote' = vote, Committed(c)
        PROVE  Committed(c)'
    BY <1>d, <1>e, <1>g, <1>i DEF Committed
  <1>1. CASE Lock(c)
    <2>1. Goto(c, "read") /\ vote' = vote /\ pc[c] = "lock" /\ lock[msg[c].user] = None
            /\ lock' = [lock EXCEPT ![msg[c].user] = c]
      BY <1>1 DEF Lock
    <2>2. pc'[c] = "read" /\ "read" \in PCs \ {"idle"}
      BY <1>f, <2>1 DEF PCs
    <2>3. BlockOK(c)'
      BY <1>a, <1>b, <1>c, <1>d, <2>1, <2>2 DEF BlockOK, Kind
    <2>4. DraftOK(c)'
      BY <2>2 DEF DraftOK, Window, After
    <2>5. \A d \in Consumers \ {c}, u \in Users : lock[u] = d => lock'[u] = d
      BY <1>a, <1>b, <2>1, VotingAssumption
    <2>6. QED
      BY <1>a, <1>d, <2>1, <2>2, <2>3, <2>4, <2>5, GotoVotes
  <1>2. CASE ReadPrevious(c)
    <2> DEFINE u == msg[c].user
               again == details[u] # None /\ details[u].direction = msg[c].direction
    <2>1. /\ pc[c] = "read" /\ lock' = lock
          /\ Goto(c, IF again THEN AfterCommit ELSE "score")
          /\ \A d \in Consumers \ {c} : vote'[d] = vote[d]
          /\ vote'[c] = [known |-> details[u] # None, again |-> again,
                         score |-> AffectsScore(u, details[u]),
                         karma |-> AffectsKarma(u, details[u])]
      BY <1>2, <1>a DEF ReadPrevious, AfterRead
    <2>2. again <=> Applied(msg[c])
      BY DEF Applied
    <2>3. Applied(msg[c]) \/ Due(msg[c])
      BY <1>b DEF VotesInv, OneVote
    <2>k. /\ vote'[c].known <=> details[u] # None
          /\ vote'[c].score <=> AffectsScore(u, details[u])
          /\ vote'[c].karma <=> AffectsKarma(u, details[u])
      <3>1. /\ vote'[c].known = (details[u] # None)
            /\ vote'[c].score = AffectsScore(u, details[u])
            /\ vote'[c].karma = AffectsKarma(u, details[u])
        BY <2>1
      <3>2. QED
        BY <3>1
    <2>4. CASE again
      <3>1. PICK label \in {"liked", "notify"} :
              Goto(c, label) /\ (label = "liked" => Kind = "link")
        BY <2>1, <2>4 DEF AfterCommit
      <3>2. pc'[c] = label /\ label \in PCs \ {"idle"}
        BY <1>f, <3>1 DEF PCs
      <3>3. BlockOK(c)'
        BY <1>c, <1>d, <2>1, <3>1, <3>2 DEF BlockOK, Kind, Block, Window
      <3>4. Committed(c)'
        BY <1>d, <1>e, <1>g, <2>2, <2>4, <2>k DEF Committed
      <3>5. DraftOK(c)'
        BY <3>2, <3>4 DEF DraftOK, Window
      <3>6. QED
        BY <1>a, <1>d, <2>1, <3>1, <3>2, <3>3, <3>5, GotoVotes
    <2>5. CASE ~again
      <3>1. pc'[c] = "score" /\ Goto(c, "score") /\ "score" \in PCs \ {"idle"}
        BY <1>f, <2>1, <2>5 DEF PCs
      <3>2. BlockOK(c)'
        BY <1>c, <1>d, <2>1, <3>1 DEF BlockOK, Kind, Block, Window
      <3>3. Current(c)'
        BY <1>d, <1>e, <1>g, <2>2, <2>3, <2>5, <2>k DEF Current
      <3>4. DraftOK(c)'
        BY <3>1, <3>3 DEF DraftOK, After
      <3>5. QED
        BY <1>a, <1>d, <2>1, <3>1, <3>2, <3>4, GotoVotes
    <2>6. QED
      BY <2>4, <2>5
  <1>3. CASE ApplyScore(c) \/ ReadKarma(c) \/ SetKarma(c) \/ IncrKarma(c) \/ WriteRel(c)
    <2>1. pc[c] \in {"score"} \cup Window /\ UNCHANGED <<lock, vote>>
      BY <1>3 DEF ApplyScore, ReadKarma, SetKarma, IncrKarma, ChangeKarma, WriteRel, Window
    <2>2. PICK label \in Window : Goto(c, label)
      BY <1>3 DEF ApplyScore, ReadKarma, SetKarma, IncrKarma, ChangeKarma, WriteRel, Window
    <2>3. pc'[c] = label /\ label \in PCs \ {"idle"}
      BY <1>f, <2>2 DEF PCs, Window
    <2>4. BlockOK(c)'
      BY <1>c, <1>d, <2>1, <2>3 DEF BlockOK, Kind, Block, Window
    <2>5. DraftOK(c)'
      BY <1>c, <1>h, <2>1, <2>3 DEF DraftOK, Window, After
    <2>6. QED
      BY <1>a, <1>d, <2>1, <2>2, <2>3, <2>4, <2>5, GotoVotes
  <1>4. CASE UpdateUserLiked(c)
    <2>1. pc[c] = "liked" /\ Goto(c, "unlock") /\ UNCHANGED <<lock, vote>>
      BY <1>4 DEF UpdateUserLiked
    <2>2. pc'[c] = "unlock" /\ "unlock" \in PCs \ {"idle"}
      BY <1>f, <2>1 DEF PCs
    <2>3. BlockOK(c)'
      BY <1>c, <1>d, <2>1, <2>2 DEF BlockOK, Kind, Block
    <2>4. DraftOK(c)'
      BY <1>c, <1>i, <2>1, <2>2 DEF DraftOK, Window, After
    <2>5. QED
      BY <1>a, <1>d, <2>1, <2>2, <2>3, <2>4, GotoVotes
  <1>5. CASE Unlock(c)
    <2>1. pc[c] = "unlock" /\ Goto(c, "notify") /\ vote' = vote
            /\ lock' = [lock EXCEPT ![msg[c].user] = IF @ = c THEN None ELSE @]
      BY <1>5 DEF Unlock
    <2>2. pc'[c] = "notify" /\ "notify" \in PCs \ {"idle"}
      BY <1>f, <2>1 DEF PCs
    <2>3. BlockOK(c)'
      BY <1>a, <1>c, <1>d, <2>2 DEF BlockOK, Kind, Block, Window
    <2>4. DraftOK(c)'
      BY <1>c, <1>i, <2>1, <2>2 DEF DraftOK, Window, After
    <2>5. \A d \in Consumers \ {c}, u \in Users : lock[u] = d => lock'[u] = d
      BY <1>a, <1>b, <2>1
    <2>6. QED
      BY <1>a, <1>d, <2>1, <2>2, <2>3, <2>4, <2>5, GotoVotes
  <1>6. CASE Notify(c)
    <2>1. pc[c] = "notify" /\ Goto(c, "ack") /\ UNCHANGED <<lock, vote>>
      BY <1>6 DEF Notify
    <2>2. pc'[c] = "ack" /\ "ack" \in PCs \ {"idle"}
      BY <1>f, <2>1 DEF PCs
    <2>3. BlockOK(c)'
      BY <1>a, <1>c, <1>d, <2>2 DEF BlockOK, Kind, Block, Window
    <2>4. DraftOK(c)'
      BY <1>c, <1>i, <2>1, <2>2 DEF DraftOK, Window, After
    <2>5. QED
      BY <1>a, <1>d, <2>1, <2>2, <2>3, <2>4, GotoVotes
  <1>7. QED
    BY <1>1, <1>2, <1>3, <1>4, <1>5, <1>6

(***************************************************************************)
(* A consumer whom a step leaves alone, and one that becomes idle.         *)
(***************************************************************************)
LEMMA ConsumerKept ==
  ASSUME NEW d \in Consumers, BlockOK(d), DraftOK(d), UNCHANGED <<setup, details, spam>>,
         UNCHANGED <<pc[d], msg[d], vote[d], conn[d]>>,
         lock[msg[d].user] = d => lock'[msg[d].user] = d
  PROVE  BlockOK(d)' /\ DraftOK(d)'
  <1>1. \A m : (Applied(m)' <=> Applied(m)) /\ (Due(m)' <=> Due(m))
    BY DEF Applied, Due
  <1>2. BlockOK(d)'
    BY DEF BlockOK, Kind, Block, Window
  <1>3. DraftOK(d)'
    BY <1>1 DEF DraftOK, Current, Committed, AffectsScore, AffectsKarma, AllowSelfVote
  <1>4. QED
    BY <1>2, <1>3

\* An idle consumer is as it should be.
LEMMA ConsumerIdle ==
  ASSUME NEW d \in Consumers, pc'[d] = "idle", conn'[d]
  PROVE  BlockOK(d)' /\ DraftOK(d)'
  <1>1. BlockOK(d)'
    BY DEF BlockOK, Block, Window
  <1>2. DraftOK(d)'
    BY DEF DraftOK, Window, After
  <1>3. QED
    BY <1>1, <1>2

(***************************************************************************)
(* A step that stores nothing and brings no new vote keeps the invariant   *)
(* if it loses none that is not stored.                                    *)
(***************************************************************************)
LEMMA FlightVotes ==
  ASSUME VotesInv, UNCHANGED <<setup, details, last, spam>>,
         InFlight' \subseteq InFlight,
         \A m : Live(m) => Live(m)' \/ Applied(m),
         \A d \in Consumers : BlockOK(d)' /\ DraftOK(d)'
  PROVE  VotesInv'
  <1>1. \A m : (Applied(m)' <=> Applied(m)) /\ (Due(m)' <=> Due(m))
    BY DEF Applied, Due
  <1>2. OneVote'
    BY <1>1 DEF VotesInv, OneVote
  <1>3. \A m \in InFlight : Applied(m) => DirectionOf(details[m.user]) = last[m.user]
    BY DEF VotesInv, LastVote, Applied, DirectionOf
  <1>4. \A u \in Users :
          DirectionOf(details[u])' = last'[u] \/ \E m \in InFlight' : m.user = u /\ Live(m)'
    <2> SUFFICES ASSUME NEW u \in Users
                 PROVE  \/ DirectionOf(details[u]) = last[u]
                        \/ \E m \in InFlight' : m.user = u /\ Live(m)'
      BY DEF DirectionOf
    <2>1. CASE DirectionOf(details[u]) = last[u]
      BY <2>1
    <2>2. CASE DirectionOf(details[u]) # last[u]
      <3>1. PICK m \in InFlight : m.user = u /\ Live(m)
        BY <2>2 DEF VotesInv, LastVote
      <3>2. ~Applied(m)
        BY <1>3, <2>2, <3>1
      <3>3. Live(m)' /\ m \in InFlight'
        BY <3>1, <3>2 DEF Live, Reaches, InFlight
      <3>4. QED
        BY <3>1, <3>3
    <2>3. QED
      BY <2>1, <2>2
  <1>5. LastVote'
    BY <1>4 DEF VotesInv, LastVote
  <1>6. EffectsStored'
    BY DEF VotesInv, EffectsStored, AllowSelfVote
  <1>7. QED
    BY <1>2, <1>5, <1>6 DEF VotesInv, BlockLocked, DraftCurrent

(***************************************************************************)
(* Delivery: the vote is with the consumer, whose work begins.             *)
(***************************************************************************)
LEMMA DeliverFlight ==
  ASSUME TypeInv, VotesInv, setup' = setup, NEW c \in Consumers, Deliver(c),
         NEW P, {"lock", "read"} \subseteq P
  PROVE  /\ InFlight' \subseteq InFlight
         /\ \A m : Reaches(m, P) => Reaches(m, P)'
  <1> USE DEF storage, counters
  <1>1. PICK i \in DOMAIN queue : msg' = [msg EXCEPT ![c] = queue[i]]
                                   /\ queue' = RemoveAt(queue, i)
    BY DEF Deliver
  <1>2. queue \in Seq(Message) /\ pc \in [Consumers -> PCs] /\ pc[c] = "idle"
          /\ msg \in [Consumers -> Message \cup {None}]
    BY DEF TypeInv, TypeOK, Deliver
  <1>3. PICK label \in {"lock", "read"} : pc' = [pc EXCEPT ![c] = label]
    BY DEF Deliver, Goto
  <1>4. conn' = conn
    BY DEF Deliver
  <1>5. queue[i] \in Queued /\ Queued' \subseteq Queued /\ Queued \subseteq Queued' \cup {queue[i]}
    <2>1. queue[i] \in Queued
      BY DEF Queued, ToSet
    <2>2. QED
      BY <1>1, <1>2, <2>1, TakeQueue DEF Queued
  <1>6. \A d \in Consumers \ {c} : pc'[d] = pc[d] /\ msg'[d] = msg[d]
    BY <1>1, <1>2, <1>3
  <1>7. pc'[c] = label /\ msg'[c] = queue[i] /\ conn[c]
    BY <1>1, <1>2, <1>3 DEF VotesInv, BlockLocked, BlockOK
  <1>8. Working' = Working \cup {c} /\ c \notin Working
    BY <1>2, <1>6, <1>7 DEF Working
  <1>9. InFlight' \subseteq InFlight
    BY <1>5, <1>6, <1>7, <1>8 DEF InFlight, Working
  <1>10. ASSUME NEW m, Reaches(m, P)
         PROVE  Reaches(m, P)'
    <2>1. CASE m \in Queued'
      BY <2>1 DEF Reaches
    <2>2. CASE m = queue[i]
      BY <1>3, <1>4, <1>7, <1>8, <2>2 DEF Reaches
    <2>3. CASE \E d \in Working : conn[d] /\ msg[d] = m /\ pc[d] \in P
      <3>1. PICK d \in Working : conn[d] /\ msg[d] = m /\ pc[d] \in P
        BY <2>3
      <3>2. d \in Working' /\ conn'[d] /\ msg'[d] = m /\ pc'[d] \in P
        BY <1>4, <1>6, <1>8, <3>1 DEF Working
      <3>3. QED
        BY <3>2 DEF Reaches
    <2>4. QED
      BY <1>5, <1>10, <2>1, <2>2, <2>3 DEF Reaches
  <1>11. QED
    BY <1>9, <1>10

\* Delivery keeps the votes.
LEMMA DeliverVotes ==
  ASSUME TypeInv, VotesInv, setup' = setup, NEW c \in Consumers, Deliver(c)
  PROVE  VotesInv'
  <1> USE DEF storage, counters
  <1>1. PICK i \in DOMAIN queue : msg' = [msg EXCEPT ![c] = queue[i]]
    BY DEF Deliver
  <1>2. pc \in [Consumers -> PCs] /\ pc[c] = "idle"
          /\ msg \in [Consumers -> Message \cup {None}] /\ c \in setup.consumers
    BY DEF TypeInv, TypeOK, Deliver
  <1>3. PICK label \in {"lock", "read"} : /\ pc' = [pc EXCEPT ![c] = label]
                                          /\ label = "lock" <=> Kind = "link"
    BY DEF Deliver, Goto
  <1>4. UNCHANGED <<setup, details, last, lock, vote, conn, spam>>
    BY DEF Deliver
  <1>5. \A d \in Consumers \ {c} : pc'[d] = pc[d] /\ msg'[d] = msg[d]
    BY <1>1, <1>2, <1>3
  <1>6. pc'[c] = label
    BY <1>2, <1>3
  <1>7. ASSUME NEW d \in Consumers
        PROVE  BlockOK(d)' /\ DraftOK(d)'
    <2>1. CASE d # c
      BY <1>4, <1>5, <2>1, ConsumerKept DEF VotesInv, BlockLocked, DraftCurrent
    <2>2. CASE d = c
      <3>1. BlockOK(c)'
        BY <1>2, <1>3, <1>4, <1>6 DEF BlockOK, Block, Window, Kind
      <3>2. DraftOK(c)'
        BY <1>6 DEF DraftOK, Window, After
      <3>3. QED
        BY <2>2, <3>1, <3>2
    <2>3. QED
      BY <2>1, <2>2
  <1>8. {"lock", "read"} \subseteq PCs
    BY DEF PCs
  <1>9. InFlight' \subseteq InFlight /\ \A m : Live(m) => Live(m)'
    BY <1>8, DeliverFlight DEF Live
  <1>10. QED
    BY <1>4, <1>7, <1>9, FlightVotes

(***************************************************************************)
(* What becomes of the vote of a consumer that stops: it is stored, or     *)
(* back in the queue, or was there already.                                *)
(***************************************************************************)
Stops(c) ==
    /\ pc[c] # "idle"
    /\ pc' = [pc EXCEPT ![c] = "idle"] /\ msg' = [msg EXCEPT ![c] = None]
    /\ vote' = [vote EXCEPT ![c] = NoDraft] /\ conn' = [conn EXCEPT ![c] = TRUE]
    /\ UNCHANGED <<details, last, spam>>
    /\ \A d \in Consumers \ {c}, u \in Users : lock[u] = d => lock'[u] = d
    /\ Queued \subseteq Queued' /\ Queued' \subseteq Queued \cup {msg[c]}
    /\ pc[c] # "ack" /\ conn[c] => msg[c] \in Queued'

\* A consumer stops by acknowledging or by dying.
LEMMA StopSteps ==
  ASSUME TypeInv, NEW c \in Consumers, Ack(c) \/ TimeoutExpired(c) \/ Crash(c)
  PROVE  Stops(c)
  <1>1. CASE Ack(c)
    <2>1. queue' = queue
      BY <1>1 DEF Ack
    <2>2. Queued' = Queued
      BY <2>1 DEF Queued
    <2>3. QED
      BY <1>1, <2>2 DEF Ack, Stops, Goto, storage
  <1>2. CASE TimeoutExpired(c) \/ Crash(c)
    <2>1. pc[c] # "idle" /\ Die(c)
      BY <1>2 DEF TimeoutExpired, Crash
    <2>2. msg[c] \in Message /\ queue \in Seq(Message)
      BY <2>1 DEF TypeInv, TypeOK
    <2>3. /\ conn[c] => Queued' = Queued \cup {msg[c]}
          /\ ~conn[c] => Queued' = Queued
      <3>1. CASE conn[c]
        <4>1. queue' = <<msg[c]>> \o queue
          BY <2>1, <3>1 DEF Die
        <4>2. Queued' = Queued \cup {msg[c]}
          BY <2>2, <4>1, PrependQueue DEF Queued
        <4>3. QED
          BY <3>1, <4>2
      <3>2. CASE ~conn[c]
        BY <2>1, <3>2 DEF Die, Queued
      <3>3. QED
        BY <3>1, <3>2
    <2>4. /\ pc' = [pc EXCEPT ![c] = "idle"] /\ msg' = [msg EXCEPT ![c] = None]
          /\ vote' = [vote EXCEPT ![c] = NoDraft] /\ conn' = [conn EXCEPT ![c] = TRUE]
          /\ UNCHANGED <<details, last, spam>>
          /\ lock' = [u \in Users |-> IF lock[u] = c THEN "dead" ELSE lock[u]]
      BY <2>1 DEF Die, Goto, storage
    <2>5. \A d \in Consumers \ {c}, u \in Users : lock[u] = d => lock'[u] = d
      BY <2>4
    <2>6. QED
      BY <2>1, <2>3, <2>4, <2>5 DEF Stops
  <1>3. QED
    BY <1>1, <1>2

\* Only an acknowledged vote is gone.
LEMMA StopFlight ==
  ASSUME TypeInv, NEW c \in Consumers, Stops(c), NEW P
  PROVE  /\ InFlight' \subseteq InFlight
         /\ \A m : Reaches(m, P) => \/ Reaches(m, P)'
                                    \/ m = msg[c] /\ pc[c] = "ack" /\ pc[c] \in P
  <1>1. pc \in [Consumers -> PCs] /\ msg \in [Consumers -> Message \cup {None}]
          /\ conn \in [Consumers -> BOOLEAN]
    BY DEF TypeInv, TypeOK
  <1>2. pc'[c] = "idle" /\ \A d \in Consumers \ {c} : UNCHANGED <<pc[d], msg[d], conn[d]>>
    BY <1>1 DEF Stops
  <1>3. Working' = Working \ {c} /\ c \in Working
    BY <1>2 DEF Working, Stops
  <1>4. InFlight' \subseteq InFlight
    BY <1>2, <1>3 DEF InFlight, Working, Stops
  <1>5. ASSUME NEW m, Reaches(m, P), ~Reaches(m, P)'
        PROVE  m = msg[c] /\ pc[c] = "ack" /\ pc[c] \in P
    <2>1. m \notin Queued' /\ m \notin Queued
      BY <1>5 DEF Reaches, Stops
    <2>2. PICK d \in Working : conn[d] /\ msg[d] = m /\ pc[d] \in P
      BY <1>5, <2>1 DEF Reaches
    <2>3. d = c
      <3> SUFFICES ASSUME d # c PROVE FALSE
        OBVIOUS
      <3>1. d \in Working' /\ conn'[d] /\ msg'[d] = m /\ pc'[d] \in P
        BY <1>2, <1>3, <2>2 DEF Working
      <3>2. QED
        BY <1>5, <3>1 DEF Reaches
    <2>4. QED
      BY <2>1, <2>2, <2>3 DEF Stops
  <1>6. QED
    BY <1>4, <1>5

\* A consumer that stops keeps the votes: what it acknowledged is stored.
LEMMA StopVotes ==
  ASSUME TypeInv, VotesInv, setup' = setup, NEW c \in Consumers, Stops(c)
  PROVE  VotesInv'
  <1>1. pc \in [Consumers -> PCs] /\ msg \in [Consumers -> Message \cup {None}]
          /\ vote \in [Consumers -> Draft] /\ conn \in [Consumers -> BOOLEAN]
    BY DEF TypeInv, TypeOK
  <1>2. \A d \in Consumers \ {c} : UNCHANGED <<pc[d], msg[d], vote[d], conn[d]>>
    BY <1>1 DEF Stops
  <1>3. pc'[c] = "idle" /\ conn'[c]
    BY <1>1 DEF Stops
  <1>4. UNCHANGED <<setup, details, last, spam>>
    BY DEF Stops
  <1>5. ASSUME NEW d \in Consumers
        PROVE  BlockOK(d)' /\ DraftOK(d)'
    <2>1. CASE d # c
      <3>1. BlockOK(d) /\ DraftOK(d)
        BY DEF VotesInv, BlockLocked, DraftCurrent
      <3>2. CASE pc[d] = "idle"
        BY <1>2, <2>1, <3>1, <3>2, ConsumerIdle DEF BlockOK
      <3>3. CASE pc[d] # "idle"
        <4>1. msg[d].user \in Users
          BY <3>3 DEF TypeInv, TypeOK, Message
        <4>2. lock[msg[d].user] = d => lock'[msg[d].user] = d
          BY <2>1, <4>1 DEF Stops
        <4>3. QED
          BY <1>2, <1>4, <2>1, <3>1, <4>2, ConsumerKept
      <3>4. QED
        BY <3>2, <3>3
    <2>2. CASE d = c
      BY <1>3, <2>2, ConsumerIdle
    <2>3. QED
      BY <2>1, <2>2
  <1>6. pc[c] = "ack" => Applied(msg[c])
    BY DEF VotesInv, DraftCurrent, DraftOK, After, Committed
  <1>7. InFlight' \subseteq InFlight /\ \A m : Live(m) => Live(m)' \/ Applied(m)
    BY <1>6, StopFlight DEF Live
  <1>8. QED
    BY <1>4, <1>5, <1>7, FlightVotes

(***************************************************************************)
(* A lost connection: the broker has the vote again, and the consumer too. *)
(***************************************************************************)
LEMMA LostConnFlight ==
  ASSUME TypeInv, NEW c \in Consumers, LostConn(c), NEW P
  PROVE  /\ InFlight' \subseteq InFlight
         /\ \A m : Reaches(m, P) => Reaches(m, P)'
  <1>1. /\ UNCHANGED <<pc, msg>> /\ pc[c] # "idle" /\ conn' = [conn EXCEPT ![c] = FALSE]
        /\ queue' = <<msg[c]>> \o queue
    BY DEF LostConn
  <1>2. msg[c] \in Message /\ queue \in Seq(Message) /\ conn \in [Consumers -> BOOLEAN]
    BY <1>1 DEF TypeInv, TypeOK
  <1>3. Queued' = Queued \cup {msg[c]}
    BY <1>1, <1>2, PrependQueue DEF Queued
  <1>4. Working' = Working /\ c \in Working
    BY <1>1 DEF Working
  <1>5. InFlight' \subseteq InFlight
    BY <1>1, <1>3, <1>4 DEF InFlight
  <1>6. ASSUME NEW m, Reaches(m, P), m \notin Queued'
        PROVE  Reaches(m, P)'
    <2>1. PICK d \in Working : conn[d] /\ msg[d] = m /\ pc[d] \in P
      BY <1>3, <1>6 DEF Reaches
    <2>2. d \in Working' /\ conn'[d] /\ msg'[d] = m /\ pc'[d] \in P
      BY <1>1, <1>2, <1>3, <1>4, <1>6, <2>1 DEF Working
    <2>3. QED
      BY <2>2 DEF Reaches
  <1>7. QED
    BY <1>5, <1>6 DEF Reaches

\* A lost connection keeps the votes.
LEMMA LostConnVotes ==
  ASSUME TypeInv, VotesInv, setup' = setup, NEW c \in Consumers, LostConn(c)
  PROVE  VotesInv'
  <1>1. /\ UNCHANGED <<setup, details, last, spam, lock, pc, msg, vote>>
        /\ pc[c] # "idle" /\ conn' = [conn EXCEPT ![c] = FALSE]
        /\ conn \in [Consumers -> BOOLEAN]
    BY DEF LostConn, storage, TypeInv, TypeOK
  <1>2. ASSUME NEW d \in Consumers
        PROVE  BlockOK(d)' /\ DraftOK(d)'
    <2>1. BlockOK(d) /\ DraftOK(d)
      BY DEF VotesInv, BlockLocked, DraftCurrent
    <2>2. CASE d # c
      BY <1>1, <2>1, <2>2, ConsumerKept
    <2>3. CASE d = c
      <3>1. BlockOK(d)'
        BY <1>1, <2>1, <2>3 DEF BlockOK, Kind, Block, Window
      <3>2. \A m : (Applied(m)' <=> Applied(m)) /\ (Due(m)' <=> Due(m))
        BY <1>1 DEF Applied, Due
      <3>3. DraftOK(d)'
        BY <1>1, <2>1, <3>2 DEF DraftOK, Current, Committed, AffectsScore, AffectsKarma,
                                AllowSelfVote
      <3>4. QED
        BY <3>1, <3>3
    <2>4. QED
      BY <2>2, <2>3
  <1>3. InFlight' \subseteq InFlight /\ \A m : Live(m) => Live(m)'
    BY LostConnFlight DEF Live
  <1>4. QED
    BY <1>1, <1>2, <1>3, FlightVotes

(***************************************************************************)
(* A vote is queued only when none of the user is in flight; the state it  *)
(* is queued with follows from the stored one.                             *)
(***************************************************************************)
LEMMA NewVote ==
  ASSUME Orderly, TypeInv, NEW u \in Users, NEW b \in Buttons, CastVote(u, b)
  PROVE  \E m \in Message :
            /\ m.user = u /\ m.button = b /\ Due(m) /\ m.direction # None
            /\ \A n \in InFlight : n.user # u
            /\ InFlight' = InFlight \cup {m} /\ Queued' = Queued \cup {m}
            /\ last' = [last EXCEPT ![u] = m.direction]
            /\ pre' = [pre EXCEPT ![u] = m.direction]
            /\ UNCHANGED <<storage, lock, pc, msg, vote, conn, unlisted, spam>>
  <1>1. Settled(u) /\ Cast(u, b) /\ Publish(u, b)
    BY DEF CastVote, Orderly, Fault
  <1>2. UNCHANGED <<storage, lock, pc, msg, vote, conn, unlisted, spam>>
    BY <1>1 DEF Cast
  <1> DEFINE t == StateOf(details[u])
  <1>3. PICK s : s = Transition(b)[t]
    OBVIOUS
  <1>4. t \in DOMAIN Transition(b) /\ s \in States /\ s # None
    <2>1. t \in DOMAIN Transition(b)
      BY <1>1 DEF Cast
    <2>2. s \in States
      BY <1>3, <2>1, TransitionTyped DEF States
    <2>3. QED
      BY <2>1, <2>2, VotingAssumption
  <1>5. PICK m \in Message : /\ m.user = u /\ m.direction = s /\ m.button = b
                             /\ queue' = Append(queue, m)
    <2> DEFINE n == [user |-> u, direction |-> s, button |-> b, id |-> casts[u] + 1]
    <2>1. n \in Message
      BY <1>4 DEF Message, TypeInv, TypeOK
    <2>2. queue' = Append(queue, n)
      BY <1>1, <1>3 DEF Publish
    <2>3. n.user = u /\ n.direction = s /\ n.button = b
      OBVIOUS
    <2>4. QED
      BY <2>1, <2>2, <2>3
  <1>6. last' = [last EXCEPT ![u] = m.direction] /\ pre' = [pre EXCEPT ![u] = m.direction]
    BY <1>1, <1>3, <1>5 DEF Publish, Cast
  <1>7. Queued' = Queued \cup {m}
    BY <1>5, AppendQueue DEF Queued, TypeInv, TypeOK
  <1>8. Working' = Working
    BY <1>2 DEF Working
  <1>9. InFlight' = InFlight \cup {m}
    BY <1>2, <1>7, <1>8 DEF InFlight
  <1>10. \A n \in InFlight : n.user # u
    BY <1>1, SettledIs
  <1>11. Due(m)
    BY <1>3, <1>4, <1>5 DEF Due
  <1>12. QED
    BY <1>2, <1>4, <1>5, <1>6, <1>7, <1>9, <1>10, <1>11

\* A new vote keeps the votes.
LEMMA CastVotes ==
  ASSUME Orderly, TypeInv, VotesInv, setup' = setup, NEW u \in Users, NEW b \in Buttons,
         CastVote(u, b)
  PROVE  VotesInv'
  <1>1. PICK m \in Message :
            /\ m.user = u /\ m.button = b /\ Due(m) /\ m.direction # None
            /\ \A n \in InFlight : n.user # u
            /\ InFlight' = InFlight \cup {m} /\ Queued' = Queued \cup {m}
            /\ last' = [last EXCEPT ![u] = m.direction]
            /\ pre' = [pre EXCEPT ![u] = m.direction]
            /\ UNCHANGED <<storage, lock, pc, msg, vote, conn, unlisted, spam>>
    BY NewVote
  <1>2. UNCHANGED <<setup, details, lock, pc, msg, vote, conn, spam>>
    BY <1>1 DEF storage
  <1>3. last \in [Users -> States \cup {None}] /\ \A n \in InFlight : n.user \in Users
    BY FlightTyped DEF TypeInv, TypeOK, Message
  <1>4. \A n : (Applied(n)' <=> Applied(n)) /\ (Due(n)' <=> Due(n))
    BY <1>2 DEF Applied, Due
  <1>5. OneVote'
    <2>1. \A n, o \in InFlight' : n.user = o.user => n = o
      BY <1>1 DEF VotesInv, OneVote
    <2>2. \A n \in InFlight' : Applied(n)' \/ Due(n)'
      BY <1>1, <1>4 DEF VotesInv, OneVote
    <2>3. QED
      BY <2>1, <2>2 DEF OneVote
  <1>6. Live(m)' /\ \A n : Live(n) => Live(n)'
    BY <1>1, <1>2 DEF Live, Reaches, Working
  <1>7. last'[u] = m.direction /\ \A v \in Users : v # u => last'[v] = last[v]
    BY <1>1, <1>3
  <1>8. LastVote'
    <2>1. ASSUME NEW v \in Users
          PROVE  \/ DirectionOf(details[v])' = last'[v]
                 \/ \E n \in InFlight' : n.user = v /\ Live(n)'
      <3>1. CASE v = u
        BY <1>1, <1>6, <3>1
      <3>2. CASE v # u
        <4>1. last'[v] = last[v] /\ DirectionOf(details[v])' = DirectionOf(details[v])
          BY <1>2, <1>7, <3>2 DEF DirectionOf
        <4>2. \/ DirectionOf(details[v]) = last[v]
              \/ \E n \in InFlight : n.user = v /\ Live(n)
          BY DEF VotesInv, LastVote
        <4>3. QED
          BY <1>1, <1>6, <4>1, <4>2
      <3>3. QED
        BY <3>1, <3>2
    <2>2. \A n \in InFlight' : n.direction = last'[n.user]
      BY <1>1, <1>3, <1>7 DEF VotesInv, LastVote
    <2>3. ASSUME details'[Author] = None
          PROVE  /\ last'[Author] = "onoff"
                 /\ \A n \in InFlight' : n.user = Author => n.button = "up"
      <3>1. Author \in Users /\ None \notin States
        BY VotingAssumption
      <3>2. details[Author] = None /\ last[Author] = "onoff"
        BY <1>2, <2>3 DEF VotesInv, LastVote
      <3>3. DirectionOf(details[Author]) # last[Author]
        BY <3>1, <3>2 DEF DirectionOf, States
      <3>4. u # Author
        BY <1>1, <3>1, <3>3 DEF VotesInv, LastVote
      <3>5. QED
        BY <1>1, <1>7, <3>1, <3>2, <3>4 DEF VotesInv, LastVote
    <2>4. QED
      BY <2>1, <2>2, <2>3 DEF LastVote
  <1>9. ASSUME NEW d \in Consumers
        PROVE  BlockOK(d)' /\ DraftOK(d)'
    BY <1>2, ConsumerKept DEF VotesInv, BlockLocked, DraftCurrent
  <1>10. EffectsStored'
    BY <1>2 DEF VotesInv, EffectsStored, AllowSelfVote
  <1>11. QED
    BY <1>2, <1>5, <1>8, <1>9, <1>10 DEF VotesInv, BlockLocked, DraftCurrent

(***************************************************************************)
(* The voter's other steps and memcached's: only a dead consumer's lock    *)
(* expires.                                                                *)
(***************************************************************************)
LEMMA MemcacheVotes ==
  ASSUME Orderly, TypeInv, VotesInv, setup' = setup, NEW u \in Users,
         GraceEnds(u) \/ LockExpires(u) \/ \E b \in Buttons : CastVoteLost(u, b)
  PROVE  VotesInv'
  <1>1. UNCHANGED <<setup, details, last, queue, pc, msg, vote, conn, spam>>
    BY DEF GraceEnds, LockExpires, CastVoteLost, Cast, storage
  <1>2. InFlight' = InFlight /\ \A m : Live(m)' <=> Live(m)
    BY <1>1, SameFlight DEF TypeInv, TypeOK
  <1>3. \A v \in Users : lock[v] \in Consumers => lock'[v] = lock[v]
    <2>1. CASE LockExpires(u)
      <3>1. lock[u] = "dead" /\ lock' = [lock EXCEPT ![u] = None]
        BY <2>1 DEF LockExpires, Orderly, Fault
      <3>2. QED
        BY <3>1, VotingAssumption DEF TypeInv, TypeOK
    <2>2. CASE ~LockExpires(u)
      BY <2>2 DEF GraceEnds, CastVoteLost, Cast
    <2>3. QED
      BY <2>1, <2>2
  <1>4. ASSUME NEW d \in Consumers
        PROVE  BlockOK(d)' /\ DraftOK(d)'
    <2>1. BlockOK(d) /\ DraftOK(d)
      BY DEF VotesInv, BlockLocked, DraftCurrent
    <2>2. CASE pc[d] = "idle"
      BY <1>1, <2>1, <2>2, ConsumerIdle DEF BlockOK
    <2>3. CASE pc[d] # "idle"
      <3>1. msg[d].user \in Users
        BY <2>3 DEF TypeInv, TypeOK, Message
      <3>2. QED
        BY <1>1, <1>3, <2>1, <3>1, ConsumerKept
    <2>4. QED
      BY <2>2, <2>3
  <1>5. QED
    BY <1>1, <1>2, <1>4, FlightVotes

(***************************************************************************)
(* The vote is stored: nobody else is at work on one of the same user, so  *)
(* no other consumer's effects go stale.                                   *)
(***************************************************************************)
LEMMA StoreVotes ==
  ASSUME Orderly, TypeInv, VotesInv, setup' = setup, NEW c \in Consumers, WriteDetails(c)
  PROVE  VotesInv'
  <1> DEFINE m == msg[c]
             u == msg[c].user
  <1>1. /\ UNCHANGED <<setup, last, queue, lock, msg, vote, conn, spam>>
        /\ pc[c] = "writedetails" /\ details' = [details EXCEPT ![u] = Stored(c)]
        /\ Goto(c, AfterCommit)
    BY DEF WriteDetails, Stored, counters
  <1>2. m \in Message /\ u \in Users /\ m \in InFlight /\ vote[c] \in Draft
          /\ details \in [Users -> Vote \cup {None}] /\ pc \in [Consumers -> PCs]
    BY <1>1 DEF TypeInv, TypeOK, Message, InFlight, Working
  <1>3. PICK label \in {"liked", "notify"} : /\ pc' = [pc EXCEPT ![c] = label]
                                             /\ label = "liked" => Kind = "link"
    BY <1>1 DEF AfterCommit, Goto
  <1>4. pc'[c] = label /\ \A d \in Consumers \ {c} : pc'[d] = pc[d]
    BY <1>2, <1>3
  <1>5. InFlight' = InFlight /\ \A n : Live(n)' <=> Live(n)
    BY <1>1, <1>2, <1>3, <1>4, SameFlight DEF PCs
  <1>6. PICK w : w = Stored(c) /\ w.direction = m.direction /\ w.score = vote[c].score
                   /\ w.karma = vote[c].karma
    <2>1. Stored(c).direction = m.direction /\ Stored(c).score = vote[c].score
            /\ Stored(c).karma = vote[c].karma
      BY DEF Stored
    <2>2. QED
      BY <2>1
  <1>7. w # None
    BY <1>2, <1>6, VotingAssumption DEF Stored, Vote, Message, Draft
  <1>8. details'[u] = w /\ \A v \in Users : v # u => details'[v] = details[v]
    BY <1>1, <1>2, <1>6
  <1>9. \A n \in InFlight : n.user \in Users /\ (n.user = u => n = m)
    BY <1>2, FlightTyped DEF VotesInv, OneVote, Message
  <1>10. Applied(m)'
    BY <1>1, <1>6, <1>7, <1>8 DEF Applied
  <1>11. \A n \in Message : n.user # u => (Applied(n)' <=> Applied(n)) /\ (Due(n)' <=> Due(n))
    BY <1>8 DEF Applied, Due, Message
  <1>12. OneVote'
    <2>1. \A n \in InFlight : Applied(n)' \/ Due(n)'
      <3> SUFFICES ASSUME NEW n \in InFlight PROVE Applied(n)' \/ Due(n)'
        OBVIOUS
      <3>1. CASE n.user = u
        BY <1>1, <1>9, <1>10, <3>1
      <3>2. CASE n.user # u
        BY <1>11, <3>2, FlightTyped DEF VotesInv, OneVote
      <3>3. QED
        BY <3>1, <3>2
    <2>2. QED
      BY <1>5, <2>1 DEF VotesInv, OneVote
  <1>13. LastVote'
    <2>1. ASSUME NEW v \in Users
          PROVE  \/ DirectionOf(details[v])' = last'[v]
                 \/ \E n \in InFlight' : n.user = v /\ Live(n)'
      <3>1. CASE v = u
        BY <1>1, <1>2, <1>6, <1>7, <1>8, <3>1 DEF DirectionOf, VotesInv, LastVote
      <3>2. CASE v # u
        BY <1>1, <1>5, <1>8, <3>2 DEF DirectionOf, VotesInv, LastVote
      <3>3. QED
        BY <3>1, <3>2
    <2>2. details'[Author] = None => details[Author] = None
      BY <1>7, <1>8, VotingAssumption
    <2>3. QED
      BY <1>1, <1>5, <2>1, <2>2 DEF VotesInv, LastVote
  <1>14. Current(c) /\ spam = {}
    BY <1>1 DEF VotesInv, DraftCurrent, DraftOK, Window, BlockLocked
  <1>15. EffectsStored'
    <2>1. ASSUME NEW v \in Users, details'[v] # None, v = u
          PROVE  /\ details'[v].karma => details'[v].score
                 /\ v # Author => details'[v].score /\ details'[v].karma
                 /\ v = Author => ~details'[v].karma /\ (AllowSelfVote \/ ~details'[v].score)
      <3>1. /\ w.score <=> AffectsScore(u, details[u])
            /\ w.karma <=> AffectsKarma(u, details[u])
        BY <1>6, <1>14 DEF Current
      <3>2. details[u] # None =>
              /\ u # Author => details[u].score /\ details[u].karma
              /\ u = Author => ~details[u].karma /\ (AllowSelfVote \/ ~details[u].score)
        BY <1>2 DEF VotesInv, EffectsStored
      <3>3. /\ w.karma => w.score
            /\ u # Author => w.score /\ w.karma
            /\ u = Author => ~w.karma /\ (AllowSelfVote \/ ~w.score)
        BY <1>14, <3>1, <3>2 DEF AffectsScore, AffectsKarma
      <3>4. QED
        BY <1>8, <2>1, <3>3
    <2>2. \A v \in Users : v # u => details'[v] = details[v]
      BY <1>8
    <2>3. AllowSelfVote' = AllowSelfVote
      BY <1>1 DEF AllowSelfVote
    <2>4. QED
      BY <2>1, <2>2, <2>3 DEF VotesInv, EffectsStored
  <1>16. ASSUME NEW d \in Consumers
         PROVE  BlockOK(d)'
    <2>1. BlockOK(d)
      BY DEF VotesInv, BlockLocked
    <2>2. CASE d = c
      BY <1>1, <1>3, <1>4, <2>1, <2>2 DEF BlockOK, Kind, Block, Window
    <2>3. CASE d # c
      BY <1>1, <1>4, <2>1, <2>3 DEF BlockOK, Kind, Block, Window
    <2>4. QED
      BY <2>2, <2>3
  <1>17. Committed(c)'
    <2>1. vote[c].known \/ m.button \in {"up", "down"}
      <3> SUFFICES ASSUME ~vote[c].known PROVE m.button \in {"up", "down"}
        OBVIOUS
      <3>1. StateOf(details[u]) = "new"
        BY <1>14 DEF Current, StateOf
      <3>2. "new" \in DOMAIN Transition(m.button)
        BY <1>14, <3>1 DEF Current, Due
      <3>3. m.button \in Buttons
        BY <1>2 DEF Message
      <3>4. QED
        BY <3>2, <3>3, TableFacts
    <2>2. \/ vote[c].score \/ (u = Author /\ ~vote[c].known)
          \/ ~AffectsScore(u, w)
      BY <1>6, <1>7, <1>14 DEF Current, AffectsScore
    <2>3. AffectsScore(u, details[u])' <=> AffectsScore(u, w)
      BY <1>1, <1>8 DEF AffectsScore, AllowSelfVote
    <2>4. QED
      BY <1>1, <1>10, <2>1, <2>2, <2>3 DEF Committed
  <1>18. ASSUME NEW d \in Consumers
         PROVE  DraftOK(d)'
    <2>1. CASE d = c
      BY <1>4, <1>17, <2>1 DEF DraftOK, Window
    <2>2. CASE d # c /\ pc[d] \in {"score"} \cup Window \cup After
      <3>1. DraftOK(d) /\ pc[d] # "idle"
        BY <2>2 DEF VotesInv, DraftCurrent, Window, After
      <3>2. msg[d] \in Message /\ msg[d] \in InFlight /\ msg[d].user \in Users
        BY <3>1 DEF TypeInv, TypeOK, Message, InFlight, Working
      <3>3. msg[d].user # u
        <4> SUFFICES ASSUME msg[d].user = u PROVE FALSE
          OBVIOUS
        <4>1. CASE pc[d] \in {"score"} \cup Window
          <5>1. pc[c] \in Block /\ pc[d] \in Block
            BY <1>1, <4>1 DEF Block, Window
          <5>2. QED
            BY <2>2, <5>1, AloneInBlock DEF VotesInv
        <4>2. CASE pc[d] \in After
          <5>1. Applied(m)
            BY <1>9, <3>1, <3>2, <4>2 DEF DraftOK, Committed
          <5>2. QED
            BY <1>2, <1>14, <5>1, OnceOnly DEF Current
        <4>3. QED
          BY <2>2, <4>1, <4>2
      <3>4. details'[msg[d].user] = details[msg[d].user]
        BY <1>8, <3>2, <3>3
      <3>5. /\ Current(d)' <=> Current(d)
            /\ Committed(d)' <=> Committed(d)
        BY <1>1, <1>11, <3>2, <3>3, <3>4
           DEF Current, Committed, AffectsScore, AffectsKarma, AllowSelfVote
      <3>6. QED
        BY <1>4, <2>2, <3>1, <3>5 DEF DraftOK
    <2>3. CASE d # c /\ pc[d] \notin {"score"} \cup Window \cup After
      BY <1>4, <2>3 DEF DraftOK
    <2>4. QED
      BY <2>1, <2>2, <2>3
  <1>19. QED
    BY <1>1, <1>12, <1>13, <1>14, <1>15, <1>16, <1>18 DEF VotesInv, BlockLocked, DraftCurrent

\* At first the author's automatic vote is in flight, alone.
LEMMA InitVotes == Init => VotesInv
  <1> SUFFICES ASSUME Init PROVE VotesInv
    OBVIOUS
  <1>1. queue = <<FirstMessage>> /\ Queued = {FirstMessage}
    BY DEF Init, Queued, ToSet
  <1>2. Working = {} /\ InFlight = {FirstMessage}
    BY <1>1 DEF Init, Working, InFlight
  <1>3. Author \in Users /\ details[Author] = None
    BY VotingAssumption DEF Init, InitialVotes
  <1>4. FirstMessage.user = Author /\ FirstMessage.direction = "onoff"
          /\ FirstMessage.button = "up"
    BY DEF FirstMessage
  <1>5. Due(FirstMessage)
    BY <1>3, <1>4 DEF Due, StateOf, Transition
  <1>6. OneVote
    BY <1>2, <1>5 DEF OneVote
  <1>7. LastVote
    <2>1. last[Author] = "onoff"
      BY <1>3 DEF Init
    <2>2. \A u \in Users : u # Author => DirectionOf(details[u]) = last[u]
      BY DEF Init
    <2>3. Live(FirstMessage)
      BY <1>1 DEF Live, Reaches
    <2>4. QED
      BY <1>2, <1>4, <2>1, <2>2, <2>3 DEF LastVote
  <1>8. EffectsStored
    <2> SUFFICES ASSUME NEW u \in Users, details[u] # None
                 PROVE  u # Author /\ details[u].score = TRUE /\ details[u].karma = TRUE
      BY DEF EffectsStored
    <2>1. u # Author
      BY <1>3
    <2>2. details[u] \in InitialVotes(u)
      BY DEF Init
    <2>3. PICK s \in Legacy : details[u] = [direction |-> s, score |-> TRUE, karma |-> TRUE]
      BY <2>1, <2>2 DEF InitialVotes
    <2>4. QED
      BY <2>1, <2>3
  <1>9. ASSUME NEW c \in Consumers
        PROVE  BlockOK(c) /\ DraftOK(c)
    <2>1. pc[c] = "idle" /\ conn[c]
      BY DEF Init
    <2>2. BlockOK(c)
      BY <2>1 DEF BlockOK, Block, Window
    <2>3. DraftOK(c)
      BY <2>1 DEF DraftOK, Window, After
    <2>4. QED
      BY <2>2, <2>3
  <1>10. spam = {}
    BY DEF Init
  <1>11. QED
    BY <1>6, <1>7, <1>8, <1>9, <1>10 DEF VotesInv, BlockLocked, DraftCurrent

(***************************************************************************)
(* Every vote in flight is stored or can be, at every step.                *)
(***************************************************************************)
LEMMA VotesStep ==
  ASSUME Orderly, TypeInv, VotesInv, [Next]_<<setup, vars>>
  PROVE  VotesInv'
  <1>1. CASE UNCHANGED <<setup, vars>>
    <2>1. UNCHANGED <<setup, details, last, queue, pc, msg, vote, conn, spam, lock>>
      BY <1>1 DEF vars
    <2>2. InFlight' = InFlight /\ \A m : Live(m)' <=> Live(m)
      BY <2>1, SameFlight DEF TypeInv, TypeOK
    <2>3. \A d \in Consumers : BlockOK(d)' /\ DraftOK(d)'
      BY <2>1, ConsumerKept DEF VotesInv, BlockLocked, DraftCurrent
    <2>4. QED
      BY <2>1, <2>2, <2>3, FlightVotes
  <1>2. ASSUME setup' = setup, NEW u \in Users,
               \/ \E b \in Buttons : CastVote(u, b) \/ CastVoteLost(u, b)
               \/ GraceEnds(u) \/ LockExpires(u) \/ SetSpam(u)
        PROVE  VotesInv'
    <2>1. ~SetSpam(u)
      BY DEF SetSpam, Fault, Orderly
    <2>2. QED
      BY <1>2, <2>1, CastVotes, MemcacheVotes
  <1>3. ASSUME setup' = setup, NEW c \in Consumers,
               Deliver(c) \/ ProcessMessage(c) \/ Crash(c) \/ LostConn(c)
        PROVE  VotesInv'
    <2>1. CASE TimeoutExpired(c) \/ Crash(c) \/ Ack(c)
      BY <1>3, <2>1, StopSteps, StopVotes
    <2>2. CASE ~(TimeoutExpired(c) \/ Crash(c) \/ Ack(c))
      BY <1>3, <2>2, DeliverVotes, LostConnVotes, CallbackVotes, StoreVotes
         DEF ProcessMessage
    <2>3. QED
      BY <2>1, <2>2
  <1>4. QED
    BY <1>1, <1>2, <1>3 DEF Next

\* So it is always, without the failures that Orderly excludes.
LEMMA VotesInvariant ==
  ASSUME Orderly
  PROVE  Spec => [](TypeInv /\ VotesInv)
  <1>1. TypeInv /\ VotesInv /\ [Next]_<<setup, vars>> => VotesInv'
    BY VotesStep
  <1>2. QED
    BY <1>1, InitVotes, TypeInvariant, PTL DEF Spec

-----------------------------------------------------------------------------
(* The counters                                                            *)

(***************************************************************************)
(* Adding or removing one voter changes a number of voters by one.         *)
(***************************************************************************)
LEMMA OneVoterMore ==
  ASSUME NEW S \in SUBSET Users, NEW T \in SUBSET Users, NEW u \in Users,
         \A v \in Users : v # u => (v \in S <=> v \in T)
  PROVE  /\ Cardinality(S) \in Nat /\ Cardinality(T) \in Nat
         /\ (u \in S <=> u \in T) => Cardinality(T) = Cardinality(S)
         /\ u \in T /\ u \notin S => Cardinality(T) = Cardinality(S) + 1
         /\ u \in S /\ u \notin T => Cardinality(T) = Cardinality(S) - 1
  <1>1. IsFiniteSet(S) /\ IsFiniteSet(T)
    BY VotingAssumption, FS_Subset
  <1>2. Cardinality(S) \in Nat /\ Cardinality(T) \in Nat
    BY <1>1, FS_CardinalityType
  <1>3. (u \in S <=> u \in T) => S = T
    OBVIOUS
  <1>4. ASSUME u \in T, u \notin S
        PROVE  Cardinality(T) = Cardinality(S) + 1
    <2>1. T = S \cup {u}
      BY <1>4
    <2>2. QED
      BY <1>1, <1>4, <2>1, FS_AddElement
  <1>5. ASSUME u \in S, u \notin T
        PROVE  Cardinality(T) = Cardinality(S) - 1
    <2>1. S = T \cup {u}
      BY <1>5
    <2>2. Cardinality(S) = Cardinality(T) + 1
      BY <1>1, <1>5, <2>1, FS_AddElement
    <2>3. QED
      BY <1>2, <2>2
  <1>6. QED
    BY <1>2, <1>3, <1>4, <1>5

(***************************************************************************)
(* Between the vote that was stored and the one that will be, the button   *)
(* pressed is the one bit that differs.                                    *)
(***************************************************************************)
LEMMA ButtonIsChange ==
  ASSUME TypeInv, NEW c \in Consumers, pc[c] # "idle", Due(msg[c]), NEW old, NEW new,
         old = details[msg[c].user], new = Stored(c)
  PROVE  /\ UpOn(new) /\ ~UpOn(old) <=> msg[c].button = "up"
         /\ UpOn(old) /\ ~UpOn(new) <=> msg[c].button = "unup"
         /\ DownOn(new) /\ ~DownOn(old) <=> msg[c].button = "down"
         /\ DownOn(old) /\ ~DownOn(new) <=> msg[c].button = "undown"
         /\ msg[c].button \in {"unup", "undown"} => old # None
         /\ new # None /\ new \in Vote /\ msg[c].button \in Buttons
  <1>1. msg[c] \in Message /\ msg[c].button \in Buttons /\ vote[c] \in Draft
    BY DEF TypeInv, TypeOK, Message
  <1>2. new \in Vote /\ new # None /\ new.direction = msg[c].direction
    BY <1>1, VotingAssumption DEF Stored, Vote, Message, Draft
  <1>3. PICK s : s = StateOf(old)
    OBVIOUS
  <1>4. s \in DOMAIN Transition(msg[c].button) /\ msg[c].direction = Transition(msg[c].button)[s]
    BY <1>3 DEF Due
  <1>5. /\ UpOn(old) <=> s \in UpBits
        /\ DownOn(old) <=> s \in DownBits
        /\ old = None => s = "new"
    BY <1>3 DEF UpOn, DownOn, StateOf, UpBits, DownBits
  <1>6. /\ UpOn(new) <=> msg[c].direction \in UpBits
        /\ DownOn(new) <=> msg[c].direction \in DownBits
    BY <1>2 DEF UpOn, DownOn, UpBits, DownBits
  <1>7. PICK b, n : b \in Buttons /\ b = msg[c].button /\ n = msg[c].direction
    BY <1>1
  <1>8. /\ s = "new" => b \in {"up", "down"}
        /\ b = "up" => s \notin UpBits /\ n \in UpBits
        /\ b = "unup" => s \in UpBits /\ n \notin UpBits
        /\ b \in {"down", "undown"} => (n \in UpBits <=> s \in UpBits)
        /\ b = "down" => s \notin DownBits /\ n \in DownBits
        /\ b = "undown" => s \in DownBits /\ n \notin DownBits
        /\ b \in {"up", "unup"} => (n \in DownBits <=> s \in DownBits)
    BY <1>4, <1>7, TableFacts
  <1>9. b \in {"up", "down", "unup", "undown"}
    BY <1>7 DEF Buttons
  <1>10. QED
    BY <1>1, <1>2, <1>5, <1>6, <1>7, <1>8, <1>9

(***************************************************************************)
(* d foresees the votes in places P after a step that neither stores one   *)
(* nor brings one there; after one is stored; and after one comes there.   *)
(***************************************************************************)
Quiet(P) ==
    /\ UNCHANGED <<setup, details>>
    /\ \A c \in Consumers : /\ pc'[c] \in P <=> pc[c] \in P
                            /\ pc[c] \in P => UNCHANGED <<msg[c], vote[c]>>

\* A quiet step changes nothing that d foresees.
LEMMA ForeseesQuiet ==
  ASSUME NEW P, NEW d, Foresees(d, P), Quiet(P)
  PROVE  Foresees(d, P)'
  <1>1. ASSUME NEW c \in Consumers, pc'[c] \in P
        PROVE  pc[c] \in P /\ Stored(c)' = Stored(c) /\ msg'[c] = msg[c]
    BY <1>1 DEF Quiet, Stored
  <1>2. \A c \in Consumers : pc'[c] \in P => d[msg'[c].user] = Stored(c)'
    BY <1>1 DEF Foresees
  <1>3. ASSUME NEW u \in Users, \A c \in Consumers : pc'[c] \in P => msg'[c].user # u
        PROVE  d[u] = details'[u]
    BY <1>3 DEF Quiet, Foresees
  <1>4. QED
    BY <1>2, <1>3 DEF Foresees

\* A vote that is stored is the one foreseen.
LEMMA ForeseesStored ==
  ASSUME TypeInv, NEW P \in SUBSET Window, "writedetails" \in P, NEW d, Foresees(d, P),
         NEW c \in Consumers, WriteDetails(c)
  PROVE  Foresees(d, P)'
  <1>1. /\ UNCHANGED <<msg, vote>> /\ pc[c] = "writedetails"
        /\ details' = [details EXCEPT ![msg[c].user] = Stored(c)]
        /\ Goto(c, AfterCommit)
    BY DEF WriteDetails, Stored
  <1>2. msg[c].user \in Users /\ pc \in [Consumers -> PCs]
          /\ details \in [Users -> Vote \cup {None}]
    BY <1>1 DEF TypeInv, TypeOK, Message
  <1>3. pc'[c] \notin P /\ \A b \in Consumers \ {c} : pc'[b] = pc[b]
    BY <1>1, <1>2 DEF Goto, AfterCommit, Window
  <1>4. \A b \in Consumers : Stored(b)' = Stored(b) /\ msg'[b] = msg[b]
    BY <1>1 DEF Stored
  <1>5. \A b \in Consumers : pc'[b] \in P => d[msg'[b].user] = Stored(b)'
    BY <1>3, <1>4 DEF Foresees
  <1>6. ASSUME NEW u \in Users, \A b \in Consumers : pc'[b] \in P => msg'[b].user # u
        PROVE  d[u] = details'[u]
    <2>1. CASE u = msg[c].user
      BY <1>1, <1>2, <2>1 DEF Foresees
    <2>2. CASE u # msg[c].user
      <3>1. \A b \in Consumers : pc[b] \in P => msg[b].user # u
        BY <1>3, <1>4, <1>6, <2>2
      <3>2. QED
        BY <1>1, <1>2, <2>2, <3>1 DEF Foresees
    <2>3. QED
      BY <2>1, <2>2
  <1>7. QED
    BY <1>5, <1>6 DEF Foresees

\* A vote that comes to P is foreseen with it, and was as stored before.
LEMMA ForeseesNext ==
  ASSUME Orderly, TypeInv, VotesInv, NEW P \in SUBSET Window,
         NEW d \in [Users -> Vote \cup {None}], Foresees(d, P),
         NEW c \in Consumers, pc[c] \in {"score"} \cup Window, pc[c] \notin P,
         NEW label \in P, Goto(c, label), UNCHANGED <<setup, details, msg, vote>>,
         NEW f, f = [d EXCEPT ![msg[c].user] = Stored(c)]
  PROVE  d[msg[c].user] = details[msg[c].user] /\ Foresees(f, P)'
  <1> DEFINE u == msg[c].user
  <1>1. u \in Users /\ pc \in [Consumers -> PCs]
    BY DEF TypeInv, TypeOK, Message, Window
  <1>2. pc'[c] = label /\ \A b \in Consumers \ {c} : pc'[b] = pc[b]
    BY <1>1 DEF Goto
  <1>3. ASSUME NEW b \in Consumers \ {c}, pc[b] \in P
        PROVE  msg[b].user # u
    <2>1. pc[b] \in Block /\ pc[c] \in Block
      BY <1>3 DEF Block
    <2>2. QED
      BY <1>3, <2>1, AloneInBlock DEF VotesInv
  <1>4. d[u] = details[u]
    BY <1>1, <1>3 DEF Foresees
  <1>5. \A b \in Consumers : Stored(b)' = Stored(b) /\ msg'[b] = msg[b]
    BY DEF Stored
  <1>8. f[u] = Stored(c) /\ \A v \in Users : v # u => f[v] = d[v]
    BY <1>1
  <1>9. ASSUME NEW b \in Consumers, pc'[b] \in P
        PROVE  f[msg'[b].user] = Stored(b)'
    <2>1. CASE b = c
      BY <1>5, <1>8, <2>1
    <2>2. CASE b # c
      <3>1. pc[b] \in P /\ msg[b].user # u
        BY <1>2, <1>3, <1>9, <2>2
      <3>2. msg[b].user \in Users
        BY <3>1 DEF TypeInv, TypeOK, Message, Window
      <3>3. d[msg[b].user] = Stored(b)
        BY <3>1 DEF Foresees
      <3>4. QED
        BY <1>5, <1>8, <3>1, <3>2, <3>3
    <2>3. QED
      BY <2>1, <2>2
  <1>10. ASSUME NEW v \in Users, \A b \in Consumers : pc'[b] \in P => msg'[b].user # v
         PROVE  f[v] = details'[v]
    <2>1. v # u
      BY <1>2, <1>10
    <2>2. \A b \in Consumers : pc[b] \in P => msg[b].user # v
      BY <1>2, <1>10
    <2>3. QED
      BY <1>8, <2>1, <2>2 DEF Foresees
  <1>11. Foresees(f, P)'
    BY <1>9, <1>10 DEF Foresees
  <1>12. QED
    BY <1>4, <1>11

(***************************************************************************)
(* What a step may do to a vote between _incr and write_vote, and to what  *)
(* is counted: nothing, unless it is a step of that consumer.              *)
(***************************************************************************)
KarmaStep(c) == ReadKarma(c) \/ SetKarma(c) \/ IncrKarma(c)
CommitStep(c) == ApplyScore(c) \/ KarmaStep(c) \/ WriteRel(c) \/ WriteDetails(c)

\* The steps of commit() are the only ones that are not quiet.
LEMMA QuietSteps ==
  ASSUME Orderly, TypeInv, VotesInv, [Next]_<<setup, vars>>
  PROVE  /\ setup' = setup
         /\ \/ \E c \in Consumers : CommitStep(c)
            \/ /\ UNCHANGED <<rel, ups, downs, karma>>
               /\ Quiet(Window) /\ Quiet({"writerel", "writedetails"}) /\ Quiet({"writedetails"})
               /\ \A c \in Consumers : pc'[c] \in {"setkarma", "incrkarma"} =>
                                           UNCHANGED <<pc[c], vote[c]>>
  <1>s. setup' = setup
    BY DEF Next, vars
  <1> DEFINE Rest == /\ UNCHANGED <<rel, ups, downs, karma>>
                     /\ Quiet(Window) /\ Quiet({"writerel", "writedetails"})
                     /\ Quiet({"writedetails"})
                     /\ \A c \in Consumers : pc'[c] \in {"setkarma", "incrkarma"} =>
                                                 UNCHANGED <<pc[c], vote[c]>>
  <1>t. pc \in [Consumers -> PCs] /\ msg \in [Consumers -> Message \cup {None}]
          /\ vote \in [Consumers -> Draft]
    BY DEF TypeInv, TypeOK
  <1>1. ASSUME UNCHANGED <<details, rel, pc, msg, vote, ups, downs, karma>>
        PROVE  Rest
    BY <1>s, <1>1 DEF Quiet
  <1>2. ASSUME NEW c \in Consumers, NEW label, pc' = [pc EXCEPT ![c] = label],
               pc[c] \notin Window, label \notin Window,
               UNCHANGED <<details, rel, ups, downs, karma>>,
               \A b \in Consumers \ {c} : UNCHANGED <<msg[b], vote[b]>>
        PROVE  Rest
    <2>1. pc'[c] = label /\ \A b \in Consumers \ {c} : UNCHANGED <<pc[b], msg[b], vote[b]>>
      BY <1>t, <1>2
    <2>2. ASSUME NEW P \in SUBSET Window
          PROVE  Quiet(P)
      BY <1>s, <1>2, <2>1 DEF Quiet
    <2>3. Quiet(Window) /\ Quiet({"writerel", "writedetails"}) /\ Quiet({"writedetails"})
      BY <2>2 DEF Window
    <2>4. \A b \in Consumers : pc'[b] \in {"setkarma", "incrkarma"} => UNCHANGED <<pc[b], vote[b]>>
      BY <1>2, <2>1 DEF Window
    <2>5. QED
      BY <1>2, <2>3, <2>4
  <1> HIDE DEF Rest
  <1>3. CASE UNCHANGED <<setup, vars>>
    BY <1>s, <1>1, <1>3 DEF vars, Rest
  <1>4. ASSUME NEW u \in Users,
               \/ \E b \in Buttons : CastVote(u, b) \/ CastVoteLost(u, b)
               \/ GraceEnds(u) \/ LockExpires(u) \/ SetSpam(u)
        PROVE  Rest
    BY <1>1, <1>4 DEF CastVote, CastVoteLost, Cast, GraceEnds, LockExpires, SetSpam, storage
  <1>5. ASSUME NEW c \in Consumers,
               Deliver(c) \/ ProcessMessage(c) \/ Crash(c) \/ LostConn(c),
               ~(CommitStep(c))
        PROVE  Rest
    <2>1. CASE Deliver(c)
      <3>1. PICK label \in {"lock", "read"} : pc' = [pc EXCEPT ![c] = label]
        BY <2>1 DEF Deliver, Goto
      <3>2. pc[c] \notin Window /\ label \notin Window
        BY <2>1 DEF Deliver, Window
      <3>3. UNCHANGED <<details, rel, ups, downs, karma, vote>>
              /\ \A b \in Consumers \ {c} : msg'[b] = msg[b]
        BY <1>t, <2>1 DEF Deliver, storage
      <3>4. QED
        BY <1>2, <3>1, <3>2, <3>3
    <2>2. CASE TimeoutExpired(c) \/ Crash(c)
      <3>1. pc[c] \notin Window
        BY <2>2 DEF TimeoutExpired, Crash, Fault, InWindow, Window, Orderly
      <3>2. Die(c)
        BY <2>2 DEF TimeoutExpired, Crash
      <3>3. pc' = [pc EXCEPT ![c] = "idle"] /\ UNCHANGED <<details, rel, ups, downs, karma>>
              /\ \A b \in Consumers \ {c} : UNCHANGED <<msg[b], vote[b]>>
        BY <1>t, <3>2 DEF Die, Goto, storage
      <3>4. "idle" \notin Window
        BY DEF Window
      <3>5. QED
        BY <1>2, <3>1, <3>3, <3>4
    <2>3. CASE Ack(c)
      <3>1. pc' = [pc EXCEPT ![c] = "idle"] /\ UNCHANGED <<details, rel, ups, downs, karma>>
              /\ \A b \in Consumers \ {c} : UNCHANGED <<msg[b], vote[b]>>
        BY <1>t, <2>3 DEF Ack, Goto, storage
      <3>2. "idle" \notin Window /\ pc[c] \notin Window
        BY <2>3 DEF Window, Ack
      <3>3. QED
        BY <1>2, <3>1, <3>2
    <2>4. CASE Lock(c) \/ ReadPrevious(c) \/ UpdateUserLiked(c) \/ Unlock(c) \/ Notify(c)
      <3>1. pc[c] \notin Window
        BY <2>4 DEF Lock, ReadPrevious, UpdateUserLiked, Unlock, Notify, Window
      <3>2. PICK label \in {"read", "score", "liked", "unlock", "notify", "ack"} : Goto(c, label)
        BY <2>4 DEF Lock, ReadPrevious, UpdateUserLiked, Unlock, Notify, AfterRead, AfterCommit
      <3>3. UNCHANGED <<details, rel, ups, downs, karma, msg>>
              /\ \A b \in Consumers \ {c} : vote'[b] = vote[b]
        BY <1>t, <2>4 DEF Lock, ReadPrevious, UpdateUserLiked, Unlock, Notify, storage
      <3>4. label \notin Window
        BY DEF Window
      <3>5. QED
        BY <1>2, <3>1, <3>2, <3>3, <3>4 DEF Goto
    <2>5. CASE LostConn(c)
      BY <1>1, <2>5 DEF LostConn, storage
    <2>6. QED
      BY <1>5, <2>1, <2>2, <2>3, <2>4, <2>5 DEF ProcessMessage, CommitStep, KarmaStep
  <1>6. QED
    BY <1>s, <1>3, <1>4, <1>5 DEF Next, Rest

\* Writing the relation changes neither votes nor counters.
LEMMA WriteRelQuiet ==
  ASSUME TypeInv, setup' = setup, NEW c \in Consumers, WriteRel(c)
  PROVE  /\ UNCHANGED <<ups, downs, karma>>
         /\ Quiet(Window) /\ Quiet({"writerel", "writedetails"})
         /\ \A b \in Consumers : pc'[b] \in {"setkarma", "incrkarma"} =>
                                     UNCHANGED <<pc[b], vote[b]>>
  <1>1. pc[c] = "writerel" /\ UNCHANGED <<details, ups, downs, karma, msg, vote>>
          /\ pc' = [pc EXCEPT ![c] = "writedetails"] /\ pc \in [Consumers -> PCs]
    BY DEF WriteRel, Goto, TypeInv, TypeOK
  <1>2. pc'[c] = "writedetails" /\ \A b \in Consumers \ {c} : pc'[b] = pc[b]
    BY <1>1
  <1>3. QED
    BY <1>1, <1>2 DEF Quiet, Window

\* What counts depends on the setup, which does not change.
LEMMA TalliesKept ==
  ASSUME setup' = setup, NEW d
  PROVE  UpTally(d)' = UpTally(d) /\ DownTally(d)' = DownTally(d)
  BY DEF UpTally, DownTally, UpCounted, DownCounted, AllowSelfVote

(***************************************************************************)
(* apply_effects counts what the vote will change, and the automatic vote  *)
(* not at all: it was counted when the thing was made.                     *)
(***************************************************************************)
LEMMA ScoreCounts ==
  ASSUME Orderly, TypeInv, VotesInv, NEW c \in Consumers, ApplyScore(c),
         NEW d \in [Users -> Vote \cup {None}], d[msg[c].user] = details[msg[c].user],
         ups = UpTally(d), downs = DownTally(d),
         NEW e, e = [d EXCEPT ![msg[c].user] = Stored(c)]
  PROVE  ups' = UpTally(e) /\ downs' = DownTally(e)
  <1> DEFINE u == msg[c].user
             b == msg[c].button
  <1>1. pc[c] = "score" /\ Current(c) /\ spam = {} /\ msg[c] \in InFlight
    BY DEF ApplyScore, VotesInv, DraftCurrent, DraftOK, BlockLocked, InFlight, Working
  <1>2. msg[c] \in Message /\ u \in Users /\ vote[c] \in Draft
    BY <1>1 DEF TypeInv, TypeOK, Message
  <1>3. PICK old, new : old = details[u] /\ new = Stored(c)
    OBVIOUS
  <1>4. d[u] = old /\ e[u] = new /\ \A v \in Users : v # u => e[v] = d[v]
    BY <1>2, <1>3
  <1>5. /\ UpOn(new) /\ ~UpOn(old) <=> b = "up"
        /\ UpOn(old) /\ ~UpOn(new) <=> b = "unup"
        /\ DownOn(new) /\ ~DownOn(old) <=> b = "down"
        /\ DownOn(old) /\ ~DownOn(new) <=> b = "undown"
        /\ b \in {"unup", "undown"} => old # None
        /\ new # None
    BY <1>1, <1>3, ButtonIsChange DEF Current
  <1>6. /\ vote[c].known <=> old # None
        /\ vote[c].score <=> AffectsScore(u, old)
    BY <1>1, <1>3 DEF Current
  <1>7. old # None => /\ u # Author => old.score
                      /\ u = Author => (AllowSelfVote \/ ~old.score)
    BY <1>2, <1>3 DEF VotesInv, EffectsStored
  <1>8. u = Author /\ old = None => b = "up"
    BY <1>1, <1>3 DEF VotesInv, LastVote
  <1>9. vote[c].score <=> ~(u = Author /\ (old = None \/ ~AllowSelfVote))
    BY <1>1, <1>6, <1>7 DEF AffectsScore
  <1> DEFINE S == {v \in Users : UpCounted(v, d)}
             T == {v \in Users : UpCounted(v, e)}
             S2 == {v \in Users : DownCounted(v, d)}
             T2 == {v \in Users : DownCounted(v, e)}
  <1>10. \A v \in Users : v # u => (v \in S <=> v \in T) /\ (v \in S2 <=> v \in T2)
    BY <1>4 DEF UpCounted, DownCounted
  <1>11. u \in S <=> (u = Author /\ (old = None \/ ~AllowSelfVote)) \/ UpOn(old)
    BY <1>2, <1>4 DEF UpCounted
  <1>12. u \in T <=> (u = Author /\ (new = None \/ ~AllowSelfVote)) \/ UpOn(new)
    BY <1>2, <1>4 DEF UpCounted
  <1>13. /\ u \in S2 <=> (u # Author \/ AllowSelfVote) /\ DownOn(old)
         /\ u \in T2 <=> (u # Author \/ AllowSelfVote) /\ DownOn(new)
    BY <1>2, <1>4 DEF DownCounted
  <1>14. /\ u \in T /\ u \notin S <=> vote[c].score /\ b = "up"
         /\ u \in S /\ u \notin T <=> vote[c].score /\ vote[c].known /\ b = "unup"
    BY <1>5, <1>6, <1>8, <1>9, <1>11, <1>12
  <1>15. /\ u \in T2 /\ u \notin S2 <=> vote[c].score /\ b = "down"
         /\ u \in S2 /\ u \notin T2 <=> vote[c].score /\ vote[c].known /\ b = "undown"
    BY <1>5, <1>6, <1>8, <1>9, <1>13
  <1>16. ups = Cardinality(S) /\ downs = Cardinality(S2)
           /\ UpTally(e) = Cardinality(T) /\ DownTally(e) = Cardinality(T2)
    BY DEF UpTally, DownTally
  <1>17. S \in SUBSET Users /\ T \in SUBSET Users /\ S2 \in SUBSET Users /\ T2 \in SUBSET Users
    OBVIOUS
  <1> HIDE DEF S, T, S2, T2, u, b
  <1>18. ups' = UpTally(e)
    <2>1. /\ Cardinality(S) \in Nat /\ Cardinality(T) \in Nat
          /\ (u \in S <=> u \in T) => Cardinality(T) = Cardinality(S)
          /\ u \in T /\ u \notin S => Cardinality(T) = Cardinality(S) + 1
          /\ u \in S /\ u \notin T => Cardinality(T) = Cardinality(S) - 1
      BY <1>2, <1>10, <1>17, OneVoterMore
    <2>2. ups' = ups + (IF vote[c].score /\ b = "up" THEN 1 ELSE 0)
                     - (IF vote[c].score /\ vote[c].known /\ b = "unup" THEN 1 ELSE 0)
      BY DEF ApplyScore, b
    <2>3. QED
      BY <1>14, <1>16, <2>1, <2>2
  <1>19. downs' = DownTally(e)
    <2>1. /\ Cardinality(S2) \in Nat /\ Cardinality(T2) \in Nat
          /\ (u \in S2 <=> u \in T2) => Cardinality(T2) = Cardinality(S2)
          /\ u \in T2 /\ u \notin S2 => Cardinality(T2) = Cardinality(S2) + 1
          /\ u \in S2 /\ u \notin T2 => Cardinality(T2) = Cardinality(S2) - 1
      BY <1>2, <1>10, <1>17, OneVoterMore
    <2>2. downs' = downs + (IF vote[c].score /\ b = "down" THEN 1 ELSE 0)
                     - (IF vote[c].score /\ vote[c].known /\ b = "undown" THEN 1 ELSE 0)
      BY DEF ApplyScore, b
    <2>3. QED
      BY <1>15, <1>16, <2>1, <2>2
  <1>20. QED
    BY <1>18, <1>19

\* The counters stay ahead of the stored votes by those in the window.
LEMMA CountedStep ==
  ASSUME Orderly, TypeInv, VotesInv, Counted, [Next]_<<setup, vars>>
  PROVE  Counted'
  <1>1. PICK d \in [Users -> Vote \cup {None}] :
          Foresees(d, Window) /\ ups = UpTally(d) /\ downs = DownTally(d)
    BY DEF Counted
  <1>2. setup' = setup
    BY QuietSteps
  <1>3. CASE Quiet(Window) /\ UNCHANGED <<ups, downs>>
    <2>1. Foresees(d, Window)' /\ ups' = UpTally(d)' /\ downs' = DownTally(d)'
      BY <1>1, <1>2, <1>3, ForeseesQuiet, TalliesKept
    <2>2. QED
      BY <2>1 DEF Counted
  <1>4. ASSUME NEW c \in Consumers, WriteDetails(c)
        PROVE  Counted'
    <2>1. Foresees(d, Window)'
      BY <1>1, <1>4, ForeseesStored DEF Window
    <2>2. UNCHANGED <<ups, downs>>
      BY <1>4 DEF WriteDetails
    <2>3. QED
      BY <1>1, <1>2, <2>1, <2>2, TalliesKept DEF Counted
  <1>5. ASSUME NEW c \in Consumers, ApplyScore(c)
        PROVE  Counted'
    <2>1. PICK e : e = [d EXCEPT ![msg[c].user] = Stored(c)]
      OBVIOUS
    <2>2. pc[c] = "score" /\ Goto(c, "karma") /\ UNCHANGED <<details, msg, vote>>
      BY <1>5 DEF ApplyScore
    <2>3. "score" \notin Window /\ "karma" \in Window
      BY DEF Window
    <2>4. d[msg[c].user] = details[msg[c].user] /\ Foresees(e, Window)'
      BY <1>1, <1>2, <2>1, <2>2, <2>3, ForeseesNext
    <2>5. ups' = UpTally(e) /\ downs' = DownTally(e)
      BY <1>1, <1>5, <2>1, <2>4, ScoreCounts
    <2>6. Stored(c) \in Vote
      BY <2>2 DEF Stored, Vote, TypeInv, TypeOK, Draft, Message
    <2>7. e \in [Users -> Vote \cup {None}]
      BY <2>1, <2>6
    <2>8. QED
      BY <1>2, <2>4, <2>5, <2>7, TalliesKept DEF Counted
  <1>6. ASSUME NEW c \in Consumers, KarmaStep(c)
        PROVE  Quiet(Window) /\ UNCHANGED <<ups, downs>>
    <2>1. pc[c] \in Window /\ UNCHANGED <<details, msg, vote, ups, downs>>
      BY <1>6 DEF KarmaStep, ReadKarma, SetKarma, IncrKarma, ChangeKarma, Window, storage
    <2>2. PICK label \in Window : pc' = [pc EXCEPT ![c] = label]
      BY <1>6 DEF KarmaStep, ReadKarma, SetKarma, IncrKarma, ChangeKarma, Goto, Window
    <2>3. QED
      BY <1>2, <2>1, <2>2 DEF Quiet, TypeInv, TypeOK
  <1>7. QED
    BY <1>2, <1>3, <1>4, <1>5, <1>6, QuietSteps, WriteRelQuiet DEF CommitStep

\* At first they are exact.
LEMMA InitCounted == Init => Counted
  <1> SUFFICES ASSUME Init PROVE Counted
    OBVIOUS
  <1>1. details \in [Users -> Vote \cup {None}]
    BY InitTyped DEF TypeInv, TypeOK
  <1>2. \A c \in Consumers : pc[c] \notin Window
    BY DEF Init, Window
  <1>3. Foresees(details, Window)
    BY <1>2 DEF Foresees
  <1>4. ups = UpTally(details) /\ downs = DownTally(details)
    BY DEF Init
  <1>5. QED
    BY <1>1, <1>3, <1>4 DEF Counted

(***************************************************************************)
(* _ups and _downs are the numbers of stored votes with the bit on, if no  *)
(* consumer is between _incr and write_vote: any number of voters, link    *)
(* consumers, crashes elsewhere, redeliveries and lost connections.        *)
(***************************************************************************)
THEOREM VotesCountOnce ==
  ASSUME Orderly
  PROVE  Spec => []TallyExact
  <1>1. TypeInv /\ VotesInv /\ Counted /\ [Next]_<<setup, vars>> => Counted'
    BY CountedStep
  <1>2. TypeInv /\ Counted => TallyExact
    <2> SUFFICES ASSUME TypeInv, Counted, NoneInWindow
                 PROVE  ups = UpTally(details) /\ downs = DownTally(details)
      BY DEF TallyExact
    <2>1. PICK d \in [Users -> Vote \cup {None}] :
            Foresees(d, Window) /\ ups = UpTally(d) /\ downs = DownTally(d)
      BY DEF Counted
    <2>2. \A c \in Consumers : pc[c] \notin Window
      BY DEF NoneInWindow, InWindow, Window
    <2>3. \A u \in Users : d[u] = details[u]
      BY <2>1, <2>2 DEF Foresees
    <2>4. d = details
      BY <2>3 DEF TypeInv, TypeOK
    <2>5. QED
      BY <2>1, <2>4
  <1>3. QED
    BY <1>1, <1>2, InitCounted, VotesInvariant, PTL DEF Spec

-----------------------------------------------------------------------------
(* Karma                                                                   *)

(***************************************************************************)
(* incr_karma gives what the vote will change, and effects without karma   *)
(* leave the author's as it is.                                            *)
(***************************************************************************)
LEMMA KarmaCounts ==
  ASSUME Orderly, TypeInv, VotesInv, NEW c \in Consumers, pc[c] \in Window,
         NEW d \in [Users -> Vote \cup {None}], d[msg[c].user] = details[msg[c].user],
         NEW e, e = [d EXCEPT ![msg[c].user] = Stored(c)]
  PROVE  /\ KarmaTally(d) \in Int /\ KarmaChange(msg[c].button) \in Int
         /\ vote[c].karma => KarmaTally(e) = KarmaTally(d) + KarmaChange(msg[c].button)
         /\ ~vote[c].karma => KarmaTally(e) = KarmaTally(d)
  <1> DEFINE u == msg[c].user
             b == msg[c].button
  <1>1. pc[c] # "idle" /\ Current(c) /\ spam = {}
    BY DEF VotesInv, DraftCurrent, DraftOK, BlockLocked, Window
  <1>2. msg[c] \in Message /\ u \in Users /\ vote[c] \in Draft /\ b \in Buttons
    BY <1>1 DEF TypeInv, TypeOK, Message
  <1>3. PICK old, new : old = details[u] /\ new = Stored(c)
    OBVIOUS
  <1>4. d[u] = old /\ e[u] = new /\ \A v \in Users : v # u => e[v] = d[v]
    BY <1>2, <1>3
  <1>5. /\ UpOn(new) /\ ~UpOn(old) <=> b = "up"
        /\ UpOn(old) /\ ~UpOn(new) <=> b = "unup"
        /\ DownOn(new) /\ ~DownOn(old) <=> b = "down"
        /\ DownOn(old) /\ ~DownOn(new) <=> b = "undown"
        /\ new # None
    BY <1>1, <1>3, ButtonIsChange DEF Current
  <1>6. vote[c].karma <=> AffectsKarma(u, old)
    BY <1>1, <1>3 DEF Current
  <1>7. old # None => /\ u # Author => old.score /\ old.karma
                      /\ u = Author => ~old.karma
    BY <1>2, <1>3 DEF VotesInv, EffectsStored
  <1>8. old # None => (vote[c].karma <=> old.karma)
    BY <1>1, <1>6, <1>7 DEF AffectsKarma, AffectsScore
  <1>9. new.karma = vote[c].karma
    BY <1>3 DEF Stored
  <1> DEFINE S == {v \in Users : UpOn(d[v]) /\ d[v].karma}
             T == {v \in Users : UpOn(e[v]) /\ e[v].karma}
             S2 == {v \in Users : DownOn(d[v]) /\ d[v].karma}
             T2 == {v \in Users : DownOn(e[v]) /\ e[v].karma}
  <1>10. \A v \in Users : v # u => (v \in S <=> v \in T) /\ (v \in S2 <=> v \in T2)
    BY <1>4
  <1>11. /\ u \in S <=> UpOn(old) /\ vote[c].karma
         /\ u \in S2 <=> DownOn(old) /\ vote[c].karma
    BY <1>2, <1>4, <1>8 DEF UpOn, DownOn
  <1>12. /\ u \in T <=> UpOn(new) /\ vote[c].karma
         /\ u \in T2 <=> DownOn(new) /\ vote[c].karma
    BY <1>2, <1>4, <1>9
  <1>13. /\ KarmaTally(d) = 2 * Cardinality(S) + Cardinality(S2)
         /\ KarmaTally(e) = 2 * Cardinality(T) + Cardinality(T2)
    BY DEF KarmaTally
  <1>14. S \in SUBSET Users /\ T \in SUBSET Users /\ S2 \in SUBSET Users /\ T2 \in SUBSET Users
    OBVIOUS
  <1> HIDE DEF S, T, S2, T2, u, b
  <1>15. /\ Cardinality(S) \in Nat /\ Cardinality(T) \in Nat
         /\ (u \in S <=> u \in T) => Cardinality(T) = Cardinality(S)
         /\ u \in T /\ u \notin S => Cardinality(T) = Cardinality(S) + 1
         /\ u \in S /\ u \notin T => Cardinality(T) = Cardinality(S) - 1
    BY <1>2, <1>10, <1>14, OneVoterMore
  <1>16. /\ Cardinality(S2) \in Nat /\ Cardinality(T2) \in Nat
         /\ (u \in S2 <=> u \in T2) => Cardinality(T2) = Cardinality(S2)
         /\ u \in T2 /\ u \notin S2 => Cardinality(T2) = Cardinality(S2) + 1
         /\ u \in S2 /\ u \notin T2 => Cardinality(T2) = Cardinality(S2) - 1
    BY <1>2, <1>10, <1>14, OneVoterMore
  <1>17. /\ b = "up" => KarmaChange(b) = 2
         /\ b = "down" => KarmaChange(b) = 1
         /\ b = "unup" => KarmaChange(b) = -2
         /\ b = "undown" => KarmaChange(b) = -1
    BY DEF KarmaChange
  <1>18. b \in {"up", "down", "unup", "undown"}
    BY <1>2 DEF Buttons
  <1>19. ASSUME vote[c].karma
         PROVE  KarmaTally(e) = KarmaTally(d) + KarmaChange(b)
    <2>1. CASE b = "up"
      <3>1. u \in T /\ u \notin S /\ (u \in S2 <=> u \in T2)
        BY <1>5, <1>11, <1>12, <1>19, <2>1
      <3>2. QED
        BY <1>13, <1>15, <1>16, <1>17, <2>1, <3>1
    <2>2. CASE b = "down"
      <3>1. u \in T2 /\ u \notin S2 /\ (u \in S <=> u \in T)
        BY <1>5, <1>11, <1>12, <1>19, <2>2
      <3>2. QED
        BY <1>13, <1>15, <1>16, <1>17, <2>2, <3>1
    <2>3. CASE b = "unup"
      <3>1. u \in S /\ u \notin T /\ (u \in S2 <=> u \in T2)
        BY <1>5, <1>11, <1>12, <1>19, <2>3
      <3>2. QED
        BY <1>13, <1>15, <1>16, <1>17, <2>3, <3>1
    <2>4. CASE b = "undown"
      <3>1. u \in S2 /\ u \notin T2 /\ (u \in S <=> u \in T)
        BY <1>5, <1>11, <1>12, <1>19, <2>4
      <3>2. QED
        BY <1>13, <1>15, <1>16, <1>17, <2>4, <3>1
    <2>5. QED
      BY <1>18, <2>1, <2>2, <2>3, <2>4
  <1>20. ASSUME ~vote[c].karma
         PROVE  KarmaTally(e) = KarmaTally(d)
    BY <1>11, <1>12, <1>13, <1>15, <1>16, <1>20
  <1>21. KarmaTally(d) \in Int /\ KarmaChange(b) \in Int
    BY <1>13, <1>15, <1>16, <1>17, <1>18
  <1>22. QED
    BY <1>19, <1>20, <1>21 DEF b

\* Karma stays ahead of the stored votes by those after incr_karma.
LEMMA KarmaCountedStep ==
  ASSUME Orderly, KarmaAlone, TypeInv, VotesInv, KarmaPlaces, KarmaCounted,
         [Next]_<<setup, vars>>
  PROVE  KarmaPlaces' /\ KarmaCounted'
  <1> DEFINE P == {"writerel", "writedetails"}
             base == IF InitKarma = Unset THEN DefaultKarma ELSE InitKarma
  <1>1. PICK d \in [Users -> Vote \cup {None}] :
          /\ Foresees(d, P)
          /\ (IF karma = Unset THEN DefaultKarma ELSE karma) = base + KarmaTally(d)
    BY DEF KarmaCounted
  <1>2. setup' = setup /\ base' = base
    BY QuietSteps DEF InitKarma
  <1>3. pc \in [Consumers -> PCs] /\ karma \in Int \cup {Unset} /\ DefaultKarma \in Int
          /\ Unset \notin Int /\ base \in Int
    BY VotingAssumption DEF TypeInv, TypeOK, InitKarma
  <1>4. P \in SUBSET Window
    BY DEF Window
  <1>5. ASSUME Quiet(P), karma' = karma
        PROVE  KarmaCounted'
    <2>1. Foresees(d, P)'
      BY <1>1, <1>5, ForeseesQuiet
    <2>2. QED
      BY <1>1, <1>2, <1>5, <2>1 DEF KarmaCounted
  <1>6. ASSUME karma' = karma,
               \A c \in Consumers : pc'[c] \in {"setkarma", "incrkarma"} =>
                                        UNCHANGED <<pc[c], vote[c]>>
        PROVE  KarmaPlaces'
    BY <1>2, <1>6 DEF KarmaPlaces, InitKarma
  <1>7. ASSUME NEW c \in Consumers, ApplyScore(c)
        PROVE  KarmaPlaces' /\ KarmaCounted'
    <2>1. pc[c] = "score" /\ pc' = [pc EXCEPT ![c] = "karma"]
            /\ UNCHANGED <<details, msg, vote, karma>>
      BY <1>7 DEF ApplyScore, Goto
    <2>2. pc'[c] = "karma" /\ \A b \in Consumers \ {c} : pc'[b] = pc[b]
      BY <1>3, <2>1
    <2>3. Quiet(P)
      BY <1>2, <2>1, <2>2 DEF Quiet
    <2>4. QED
      BY <1>5, <1>6, <2>1, <2>2, <2>3
  <1>8. ASSUME NEW c \in Consumers, WriteDetails(c)
        PROVE  KarmaPlaces' /\ KarmaCounted'
    <2>1. karma' = karma /\ vote' = vote
      BY <1>8 DEF WriteDetails
    <2>2. \A b \in Consumers : pc'[b] \in {"setkarma", "incrkarma"} => pc'[b] = pc[b]
      BY <1>3, <1>8 DEF WriteDetails, Goto, AfterCommit
    <2>3. Foresees(d, P)'
      BY <1>1, <1>4, <1>8, ForeseesStored
    <2>4. QED
      BY <1>1, <1>2, <1>6, <2>1, <2>2, <2>3 DEF KarmaCounted
  <1>9. ASSUME NEW c \in Consumers, pc[c] \in Window, pc[c] \notin P, Goto(c, "writerel"),
               UNCHANGED <<details, msg, vote>>, NEW k, karma' = k,
               \/ ~vote[c].karma /\ karma' = karma
               \/ /\ vote[c].karma /\ k \in Int
                  /\ k = (IF karma = Unset THEN DefaultKarma ELSE karma)
                           + KarmaChange(msg[c].button)
        PROVE  KarmaCounted'
    <2>1. PICK e : e = [d EXCEPT ![msg[c].user] = Stored(c)]
      OBVIOUS
    <2>2. d[msg[c].user] = details[msg[c].user] /\ Foresees(e, P)'
      BY <1>1, <1>2, <1>4, <1>9, <2>1, ForeseesNext
    <2>3. pc[c] # "idle"
      BY <1>9 DEF Window
    <2>4. Stored(c) \in Vote
      BY <2>3 DEF Stored, Vote, TypeInv, TypeOK, Draft, Message
    <2>5. e \in [Users -> Vote \cup {None}]
      BY <2>1, <2>4
    <2>6. /\ KarmaTally(d) \in Int /\ KarmaChange(msg[c].button) \in Int
          /\ vote[c].karma => KarmaTally(e) = KarmaTally(d) + KarmaChange(msg[c].button)
          /\ ~vote[c].karma => KarmaTally(e) = KarmaTally(d)
      BY <1>9, <2>1, <2>2, KarmaCounts
    <2>7. (IF karma' = Unset THEN DefaultKarma ELSE karma') = base + KarmaTally(e)
      <3>1. CASE ~vote[c].karma
        BY <1>1, <1>9, <2>6, <3>1
      <3>2. CASE vote[c].karma
        BY <1>1, <1>3, <1>9, <2>6, <3>2
      <3>3. QED
        BY <3>1, <3>2
    <2>8. QED
      BY <1>2, <2>2, <2>5, <2>7 DEF KarmaCounted
  <1>10. ASSUME NEW c \in Consumers, ReadKarma(c)
         PROVE  KarmaPlaces' /\ KarmaCounted'
    <2>1. pc[c] = "karma" /\ UNCHANGED <<details, msg, vote, karma>>
      BY <1>10 DEF ReadKarma, storage
    <2>2. CASE ~vote[c].karma
      <3>1. Goto(c, "writerel")
        BY <1>10, <2>2 DEF ReadKarma
      <3>2. pc'[c] = "writerel" /\ \A b \in Consumers \ {c} : pc'[b] = pc[b]
        BY <1>3, <3>1 DEF Goto
      <3>3. KarmaPlaces'
        BY <1>6, <2>1, <3>2
      <3>4. QED
        BY <1>9, <2>1, <2>2, <3>1, <3>3 DEF Window
    <2>3. CASE vote[c].karma
      <3>1. PICK label \in {"setkarma", "incrkarma"} :
              Goto(c, label) /\ (label = "setkarma" <=> karma = Unset)
        BY <1>10, <2>3 DEF ReadKarma
      <3>2. pc'[c] = label /\ \A b \in Consumers \ {c} : pc'[b] = pc[b]
        BY <1>3, <3>1 DEF Goto
      <3>3. KarmaPlaces'
        BY <1>2, <2>1, <2>3, <3>1, <3>2 DEF KarmaPlaces, InitKarma
      <3>4. Quiet(P)
        BY <1>2, <2>1, <3>1, <3>2 DEF Quiet
      <3>5. QED
        BY <1>5, <2>1, <3>3, <3>4
    <2>4. QED
      BY <2>2, <2>3
  <1>11. ASSUME NEW c \in Consumers, SetKarma(c) \/ IncrKarma(c)
         PROVE  KarmaPlaces' /\ KarmaCounted'
    <2>1. pc[c] \in {"setkarma", "incrkarma"} /\ UNCHANGED <<details, msg, vote>>
            /\ Goto(c, "writerel") /\ pc[c] \in Window
      BY <1>11 DEF SetKarma, IncrKarma, ChangeKarma, Window
    <2>2. vote[c].karma
      BY <2>1 DEF KarmaPlaces
    <2>3. KarmaChange(msg[c].button) \in Int
      <3>1. msg[c].button \in {"up", "down", "unup", "undown"}
        BY <2>1 DEF TypeInv, TypeOK, Message, Buttons
      <3>2. QED
        BY <3>1 DEF KarmaChange
    <2>4. /\ karma' \in Int
          /\ karma' = (IF karma = Unset THEN DefaultKarma ELSE karma)
                        + KarmaChange(msg[c].button)
      <3>1. CASE SetKarma(c)
        <4>1. karma = Unset
          BY <3>1 DEF SetKarma, ChangeKarma, KarmaPlaces
        <4>2. QED
          BY <1>3, <2>3, <3>1, <4>1 DEF SetKarma, ChangeKarma
      <3>2. CASE IncrKarma(c)
        <4>1. karma # Unset
          BY <3>2 DEF IncrKarma, ChangeKarma, TypeInv
        <4>2. QED
          BY <1>3, <2>3, <3>2, <4>1 DEF IncrKarma, ChangeKarma
      <3>3. QED
        BY <1>11, <3>1, <3>2
    <2>5. pc'[c] = "writerel" /\ \A b \in Consumers \ {c} : pc'[b] = pc[b]
      BY <1>3, <2>1 DEF Goto
    <2>6. \A b \in Consumers \ {c} : pc[b] # "setkarma"
      <3> SUFFICES ASSUME NEW b \in Consumers \ {c}, pc[b] = "setkarma" PROVE FALSE
        OBVIOUS
      <3>1. karma = Unset /\ InitKarma = Unset
        BY DEF KarmaPlaces
      <3>2. b \in setup.consumers /\ c \in setup.consumers
        BY <2>1 DEF VotesInv, BlockLocked, BlockOK
      <3>3. QED
        BY <3>1, <3>2 DEF KarmaAlone, InitKarma, TypeInv, TypeOK
    <2>7. KarmaPlaces'
      BY <1>2, <1>3, <2>1, <2>4, <2>5, <2>6 DEF KarmaPlaces, InitKarma
    <2>8. PICK k : karma' = k
      OBVIOUS
    <2>9. KarmaCounted'
      BY <1>9, <2>1, <2>2, <2>4, <2>8
    <2>10. QED
      BY <2>7, <2>9
  <1>12. QED
    BY <1>2, <1>5, <1>6, <1>7, <1>8, <1>10, <1>11, QuietSteps, WriteRelQuiet
       DEF CommitStep, KarmaStep

\* At first it is exact.
LEMMA InitKarmaCounted == Init => KarmaPlaces /\ KarmaCounted
  <1> SUFFICES ASSUME Init PROVE KarmaPlaces /\ KarmaCounted
    OBVIOUS
  <1>1. details \in [Users -> Vote \cup {None}] /\ setup \in Setups
    BY InitTyped DEF TypeInv, TypeOK
  <1>2. \A c \in Consumers : pc[c] = "idle"
    BY DEF Init
  <1>3. Foresees(details, {"writerel", "writedetails"})
    BY <1>2 DEF Foresees
  <1>4. KarmaTally(details) \in Nat
    BY TalliesTyped
  <1>5. InitKarma # Unset => InitKarma \in Int
    BY <1>1, VotingAssumption DEF InitKarma
  <1>6. InitKarma = Unset => KarmaTally(details) = 0
    <2> SUFFICES ASSUME InitKarma = Unset PROVE KarmaTally(details) = 0
      OBVIOUS
    <2>1. Legacy = {}
      BY <1>1, VotingAssumption DEF InitKarma, Legacy
    <2>2. \A u \in Users : details[u] = None
      BY <2>1 DEF Init, InitialVotes
    <2>3. /\ {u \in Users : UpOn(details[u]) /\ details[u].karma} = {}
          /\ {u \in Users : DownOn(details[u]) /\ details[u].karma} = {}
      BY <2>2 DEF UpOn, DownOn
    <2>4. QED
      BY <2>3, FS_EmptySet DEF KarmaTally
  <1>7. karma = IF InitKarma = Unset THEN Unset ELSE InitKarma + KarmaTally(details)
    BY DEF Init
  <1>8. InitKarma # Unset => karma \in Int /\ karma # Unset
    BY <1>4, <1>5, <1>7, VotingAssumption
  <1>9. (IF karma = Unset THEN DefaultKarma ELSE karma)
          = (IF InitKarma = Unset THEN DefaultKarma ELSE InitKarma) + KarmaTally(details)
    BY <1>4, <1>5, <1>6, <1>7, <1>8, VotingAssumption
  <1>10. QED
    BY <1>1, <1>2, <1>3, <1>8, <1>9 DEF KarmaPlaces, KarmaCounted

(***************************************************************************)
(* The author has the karma of the votes in force, if one consumer works   *)
(* on things of authors without karma in the subreddit.                    *)
(***************************************************************************)
THEOREM KarmaFollowsVotes ==
  ASSUME Orderly, KarmaAlone
  PROVE  Spec => []KarmaExact
  <1>1. TypeInv /\ VotesInv /\ KarmaPlaces /\ KarmaCounted /\ [Next]_<<setup, vars>>
          => KarmaPlaces' /\ KarmaCounted'
    BY KarmaCountedStep
  <1>2. TypeInv /\ KarmaCounted => KarmaExact
    <2> SUFFICES ASSUME TypeInv, KarmaCounted, NoneInWindow
                 PROVE  (IF karma = Unset THEN DefaultKarma ELSE karma)
                          = (IF InitKarma = Unset THEN DefaultKarma ELSE InitKarma)
                              + KarmaTally(details)
      BY DEF KarmaExact
    <2>1. PICK d \in [Users -> Vote \cup {None}] :
            /\ Foresees(d, {"writerel", "writedetails"})
            /\ (IF karma = Unset THEN DefaultKarma ELSE karma)
                 = (IF InitKarma = Unset THEN DefaultKarma ELSE InitKarma) + KarmaTally(d)
      BY DEF KarmaCounted
    <2>2. \A c \in Consumers : pc[c] \notin {"writerel", "writedetails"}
      BY DEF NoneInWindow, InWindow
    <2>3. \A u \in Users : d[u] = details[u]
      BY <2>1, <2>2 DEF Foresees
    <2>4. d = details
      BY <2>3 DEF TypeInv, TypeOK
    <2>5. QED
      BY <2>1, <2>4
  <1>3. QED
    BY <1>1, <1>2, InitKarmaCounted, VotesInvariant, PTL DEF Spec

-----------------------------------------------------------------------------
(* What listings and voters are shown                                      *)

(***************************************************************************)
(* A step of the callback leaves all votes in flight; only the consumer's  *)
(* own may leave the places it was to reach.                               *)
(***************************************************************************)
Callback(c) ==
    \/ Lock(c) \/ ReadPrevious(c) \/ CommitStep(c)
    \/ UpdateUserLiked(c) \/ Unlock(c) \/ Notify(c)

\* Of the votes in flight, the consumer's own may leave the places P.
LEMMA CallbackFlight ==
  ASSUME TypeInv, NEW c \in Consumers, Callback(c), NEW P
  PROVE  /\ pc[c] # "idle" /\ pc'[c] # "idle" /\ \A d \in Consumers \ {c} : pc'[d] = pc[d]
         /\ UNCHANGED <<pre, last, msg, conn, spam>> /\ Queued' = Queued /\ InFlight' = InFlight
         /\ \A m : Reaches(m, P) =>
                     Reaches(m, P)' \/ (m = msg[c] /\ conn[c] /\ pc[c] \in P /\ pc'[c] \notin P)
  <1>1. pc[c] # "idle" /\ UNCHANGED <<pre, last, queue, msg, conn, spam>>
    BY DEF Callback, Lock, ReadPrevious, CommitStep, ApplyScore, KarmaStep, ReadKarma, SetKarma,
           IncrKarma, ChangeKarma, WriteRel, WriteDetails, UpdateUserLiked, Unlock, Notify
  <1>2. PICK label \in PCs \ {"idle"} : pc' = [pc EXCEPT ![c] = label]
    BY DEF Callback, Lock, ReadPrevious, CommitStep, ApplyScore, KarmaStep, ReadKarma, SetKarma,
           IncrKarma, ChangeKarma, WriteRel, WriteDetails, UpdateUserLiked, Unlock, Notify,
           Goto, AfterRead, AfterCommit, PCs
  <1>3. pc'[c] = label /\ \A d \in Consumers \ {c} : pc'[d] = pc[d]
    BY <1>2 DEF TypeInv, TypeOK
  <1>4. Queued' = Queued /\ Working' = Working
    BY <1>1, <1>2, <1>3 DEF Queued, Working
  <1>5. InFlight' = InFlight
    BY <1>1, <1>4 DEF InFlight
  <1>6. ASSUME NEW m, Reaches(m, P), ~Reaches(m, P)'
        PROVE  m = msg[c] /\ conn[c] /\ pc[c] \in P /\ pc'[c] \notin P
    <2>1. m \notin Queued
      BY <1>4, <1>6 DEF Reaches
    <2>2. PICK d \in Working : conn[d] /\ msg[d] = m /\ pc[d] \in P
      BY <1>6, <2>1 DEF Reaches
    <2>3. d \in Working' /\ conn'[d] /\ msg'[d] = m /\ d \in Consumers
      BY <1>1, <1>4, <2>2 DEF Working
    <2>4. pc'[d] \notin P
      BY <1>6, <2>3 DEF Reaches
    <2>5. QED
      BY <1>3, <2>2, <2>3, <2>4
  <1>7. QED
    BY <1>1, <1>2, <1>3, <1>4, <1>5, <1>6

(***************************************************************************)
(* All other steps: none of them stores, shows or loses a vote.            *)
(***************************************************************************)
LEMMA FlightSteps ==
  ASSUME Orderly, TypeInv, VotesInv, [Next]_<<setup, vars>>,
         NEW P, {"lock", "read"} \subseteq P, "ack" \notin P
  PROVE  \/ \E c \in Consumers : Callback(c)
         \/ \E u \in Users, b \in Buttons : CastVote(u, b)
         \/ /\ UNCHANGED <<details, liked, disliked, unlisted, last, spam>>
            /\ pre' = pre \/ \E u \in Users, b \in Buttons : GraceEnds(u) \/ CastVoteLost(u, b)
            /\ InFlight' \subseteq InFlight
            /\ \A m : Reaches(m, P) => Reaches(m, P)'
  <1> DEFINE Rest == /\ UNCHANGED <<details, liked, disliked, unlisted, last, spam>>
                     /\ pre' = pre \/ \E u \in Users, b \in Buttons :
                                        GraceEnds(u) \/ CastVoteLost(u, b)
                     /\ InFlight' \subseteq InFlight
                     /\ \A m : Reaches(m, P) => Reaches(m, P)'
  <1>s. setup' = setup
    BY DEF Next, vars
  <1>1. ASSUME UNCHANGED <<queue, pc, msg, conn>>
        PROVE  InFlight' \subseteq InFlight /\ \A m : Reaches(m, P) => Reaches(m, P)'
    <2>1. Queued' = Queued /\ Working' = Working
      BY <1>1 DEF Queued, Working
    <2>2. QED
      BY <1>1, <2>1 DEF InFlight, Reaches
  <1>2. CASE UNCHANGED <<setup, vars>>
    BY <1>1, <1>2 DEF vars
  <1>3. ASSUME NEW u \in Users, GraceEnds(u) \/ LockExpires(u) \/ SetSpam(u)
        PROVE  Rest
    <2>1. ~SetSpam(u)
      BY DEF SetSpam, Fault, Orderly
    <2>2. PICK b : b \in Buttons
      BY DEF Buttons
    <2>3. UNCHANGED <<details, liked, disliked, unlisted, last, spam, queue, pc, msg, conn>>
      BY <1>3, <2>1 DEF GraceEnds, LockExpires, storage
    <2>4. pre' = pre \/ GraceEnds(u)
      BY <1>3, <2>1 DEF LockExpires
    <2>5. QED
      BY <1>1, <2>2, <2>3, <2>4
  <1>4. ASSUME NEW u \in Users, NEW b \in Buttons, CastVoteLost(u, b)
        PROVE  Rest
    <2>1. UNCHANGED <<details, liked, disliked, unlisted, last, spam, queue, pc, msg, conn>>
      BY <1>4 DEF CastVoteLost, Cast, storage
    <2>2. QED
      BY <1>1, <1>4, <2>1
  <1>5. ASSUME NEW c \in Consumers, Deliver(c)
        PROVE  Rest
    <2>1. UNCHANGED <<details, liked, disliked, unlisted, last, spam, pre>>
      BY <1>5 DEF Deliver, storage
    <2>2. QED
      BY <1>s, <1>5, <2>1, DeliverFlight
  <1>6. ASSUME NEW c \in Consumers, Ack(c) \/ TimeoutExpired(c) \/ Crash(c)
        PROVE  Rest
    <2>1. UNCHANGED <<details, liked, disliked, unlisted, last, spam, pre>>
      BY <1>6 DEF Ack, TimeoutExpired, Crash, Die, storage
    <2>2. Stops(c)
      BY <1>6, StopSteps
    <2>3. QED
      BY <2>1, <2>2, StopFlight
  <1>7. ASSUME NEW c \in Consumers, LostConn(c)
        PROVE  Rest
    <2>1. UNCHANGED <<details, liked, disliked, unlisted, last, spam, pre>>
      BY <1>7 DEF LostConn, storage
    <2>2. QED
      BY <1>7, <2>1, LostConnFlight
  <1> HIDE DEF Rest
  <1>8. CASE Next
    BY <1>3, <1>4, <1>5, <1>6, <1>7, <1>8
       DEF Next, ProcessMessage, Callback, CommitStep, KarmaStep, Rest
  <1>9. QED
    BY <1>2, <1>8

(***************************************************************************)
(* A vote that can still be stored will be.                                *)
(***************************************************************************)
LEMMA DueLives ==
  ASSUME TypeInv, VotesInv, NEW c \in Consumers, pc[c] # "idle", Due(msg[c])
  PROVE  Live(msg[c])
  <1>1. msg[c] \in Message /\ msg[c] \in InFlight /\ msg[c].user \in Users
          /\ msg[c].direction # None
    BY VotingAssumption DEF TypeInv, TypeOK, Message, InFlight, Working
  <1>2. msg[c].direction = last[msg[c].user]
    BY <1>1 DEF VotesInv, LastVote
  <1>3. ~Applied(msg[c])
    BY <1>1, OnceOnly
  <1>4. DirectionOf(details[msg[c].user]) # last[msg[c].user]
    BY <1>1, <1>2, <1>3 DEF Applied, DirectionOf
  <1>5. PICK m \in InFlight : m.user = msg[c].user /\ Live(m)
    BY <1>1, <1>4 DEF VotesInv, LastVote
  <1>6. QED
    BY <1>1, <1>5 DEF VotesInv, OneVote

\* A change no listing was told of stays on a message that will tell it.
LEMMA RefreshStep ==
  ASSUME Orderly, TypeInv, VotesInv, RefreshDue, [Next]_<<setup, vars>>
  PROVE  RefreshDue'
  <1> DEFINE P == PCs \ {"ack"}
  <1>s. setup' = setup
    BY DEF Next, vars
  <1>a. {"lock", "read"} \subseteq P /\ "ack" \notin P
    BY DEF PCs
  <1>1. ASSUME UNCHANGED <<details, spam>>, unlisted' => unlisted,
               \A m : Reaches(m, P) => Reaches(m, P)'
        PROVE  RefreshDue'
    <2> SUFFICES ASSUME unlisted'
                 PROVE  \E m \in InFlight' : ToNotify(m)' /\ AffectsScore(m.user, details[m.user])'
      BY DEF RefreshDue
    <2>1. PICK m \in InFlight : ToNotify(m) /\ AffectsScore(m.user, details[m.user])
      BY <1>1 DEF RefreshDue
    <2>2. Reaches(m, P)'
      BY <1>1, <2>1 DEF ToNotify
    <2>3. m \in InFlight'
      BY <2>2 DEF Reaches, InFlight
    <2>4. AffectsScore(m.user, details[m.user])'
      BY <1>s, <1>1, <2>1 DEF AffectsScore, AllowSelfVote
    <2>5. QED
      BY <2>2, <2>3, <2>4 DEF ToNotify
  <1>2. ASSUME NEW u \in Users, NEW b \in Buttons, CastVote(u, b)
        PROVE  RefreshDue'
    <2>1. PICK m \in Message : Queued' = Queued \cup {m} /\ UNCHANGED <<storage, pc, msg, conn,
                                                                        unlisted, spam>>
      BY <1>2, NewVote
    <2>2. \A n : Reaches(n, P) => Reaches(n, P)'
      BY <2>1 DEF Reaches, Working
    <2>3. QED
      BY <1>1, <2>1, <2>2 DEF storage
  <1>3. ASSUME NEW c \in Consumers, Callback(c)
        PROVE  RefreshDue'
    <2>0. /\ pc[c] # "idle" /\ pc'[c] # "idle" /\ \A d \in Consumers \ {c} : pc'[d] = pc[d]
          /\ UNCHANGED <<msg, conn, spam>> /\ Queued' = Queued /\ InFlight' = InFlight
          /\ \A m : Reaches(m, P) => Reaches(m, P)' \/ (m = msg[c] /\ pc'[c] \notin P)
      BY <1>3, CallbackFlight
    <2>t. pc'[c] \in PCs
      <3>1. TypeInv'
        BY <1>3, <1>s, ConsumerTyped DEF Callback, CommitStep, KarmaStep, ProcessMessage
      <3>2. QED
        BY <3>1 DEF TypeInv, TypeOK
    <2>1. CASE ApplyScore(c)
      <3>1. UNCHANGED details /\ pc'[c] = "karma" /\ pc[c] = "score"
        BY <2>1 DEF ApplyScore, Goto, TypeInv, TypeOK
      <3>2. \A m : Reaches(m, P) => Reaches(m, P)'
        BY <2>0, <3>1 DEF PCs
      <3>3. CASE vote[c].score
        <4>1. Current(c)
          BY <3>1 DEF VotesInv, DraftCurrent, DraftOK
        <4>2. AffectsScore(msg[c].user, details[msg[c].user])
          BY <3>3, <4>1 DEF Current
        <4>3. Live(msg[c])
          BY <2>0, <4>1, DueLives DEF Current
        <4>4. Reaches(msg[c], P)
          <5> SUFFICES ASSUME msg[c] \notin Queued PROVE Reaches(msg[c], P)
            BY DEF Reaches
          <5>1. PICK d \in Working : conn[d] /\ msg[d] = msg[c] /\ pc[d] \in PCs
            BY <4>3 DEF Live, Reaches
          <5>2. pc[d] # "ack"
            <6> SUFFICES ASSUME pc[d] = "ack" PROVE FALSE
              OBVIOUS
            <6>1. Applied(msg[c])
              BY <5>1 DEF VotesInv, DraftCurrent, DraftOK, After, Committed, Working
            <6>2. msg[c] \in Message
              BY <2>0 DEF TypeInv, TypeOK
            <6>3. QED
              BY <4>1, <6>1, <6>2, OnceOnly DEF Current
          <5>3. QED
            BY <5>1, <5>2 DEF Reaches
        <4>5. PICK m : m = msg[c]
          OBVIOUS
        <4>6. Reaches(m, P)' /\ AffectsScore(m.user, details[m.user])'
          BY <1>s, <2>0, <3>1, <3>2, <4>2, <4>4, <4>5 DEF AffectsScore, AllowSelfVote
        <4>7. m \in InFlight'
          BY <4>6 DEF Reaches, InFlight
        <4>8. QED
          BY <4>6, <4>7 DEF RefreshDue, ToNotify
      <3>4. CASE ~vote[c].score
        <4>1. ups' = ups /\ downs' = downs
          BY <2>1, <3>4 DEF ApplyScore, TypeInv, TypeOK
        <4>2. unlisted' => unlisted
          BY <2>1, <4>1 DEF ApplyScore
        <4>3. QED
          BY <1>1, <2>0, <3>1, <3>2, <4>2
      <3>5. QED
        BY <3>3, <3>4
    <2>2. CASE WriteDetails(c)
      <3>1. /\ unlisted' = unlisted /\ pc[c] = "writedetails" /\ vote' = vote
            /\ details' = [details EXCEPT ![msg[c].user] = Stored(c)]
            /\ pc'[c] \in {"liked", "notify"}
        BY <2>2 DEF WriteDetails, Stored, Goto, AfterCommit, TypeInv, TypeOK
      <3>2. \A m : Reaches(m, P) => Reaches(m, P)'
        BY <2>0, <3>1 DEF PCs
      <3> SUFFICES ASSUME unlisted'
                   PROVE  \E m \in InFlight' : ToNotify(m)'
                                                 /\ AffectsScore(m.user, details[m.user])'
        BY DEF RefreshDue
      <3>3. PICK m \in InFlight : ToNotify(m) /\ AffectsScore(m.user, details[m.user])
        BY <3>1 DEF RefreshDue
      <3>4. m \in Message /\ m.user \in Users /\ msg[c] \in InFlight /\ msg[c].user \in Users
              /\ details \in [Users -> Vote \cup {None}] /\ vote[c] \in Draft
        BY <2>0, FlightTyped DEF TypeInv, TypeOK, Message, InFlight, Working
      <3>5. AffectsScore(m.user, details[m.user])'
        <4>1. CASE m.user = msg[c].user
          <5>1. Current(c)
            BY <3>1 DEF VotesInv, DraftCurrent, DraftOK, Window
          <5>2. vote[c].score
            BY <3>3, <4>1, <5>1 DEF Current
          <5>3. PICK w : w = Stored(c)
            OBVIOUS
          <5>4. w # None /\ w.score
            <6>1. w.score = vote[c].score
              BY <5>3 DEF Stored
            <6>2. w \in Vote
              BY <2>0, <3>4, <5>3 DEF Stored, Vote, Draft, TypeInv, TypeOK, Message
            <6>3. QED
              BY <5>2, <6>1, <6>2, VotingAssumption
          <5>5. details'[m.user] = w
            BY <3>1, <3>4, <4>1, <5>3
          <5>6. m.user \notin spam
            BY <3>3 DEF AffectsScore
          <5>7. QED
            BY <1>s, <2>0, <5>4, <5>5, <5>6 DEF AffectsScore
        <4>2. CASE m.user # msg[c].user
          BY <1>s, <2>0, <3>1, <3>3, <3>4, <4>2 DEF AffectsScore, AllowSelfVote
        <4>3. QED
          BY <4>1, <4>2
      <3>6. QED
        BY <2>0, <3>2, <3>3, <3>5 DEF ToNotify
    <2>3. CASE Notify(c)
      <3>1. /\ pc[c] = "notify" /\ details' = details
            /\ unlisted' = (unlisted /\ ~((msg[c].user = Author /\ ~vote[c].known)
                                            \/ vote[c].score))
        BY <2>3 DEF Notify, storage
      <3> SUFFICES ASSUME unlisted'
                   PROVE  \E m \in InFlight' : ToNotify(m)'
                                                 /\ AffectsScore(m.user, details[m.user])'
        BY DEF RefreshDue
      <3>2. unlisted /\ ~(msg[c].user = Author /\ ~vote[c].known) /\ ~vote[c].score
        BY <3>1
      <3>3. ~AffectsScore(msg[c].user, details[msg[c].user])
        BY <3>1, <3>2 DEF VotesInv, DraftCurrent, DraftOK, After, Committed
      <3>4. PICK m \in InFlight : ToNotify(m) /\ AffectsScore(m.user, details[m.user])
        BY <3>2 DEF RefreshDue
      <3>5. Reaches(m, P)'
        BY <2>0, <3>3, <3>4 DEF ToNotify
      <3>6. AffectsScore(m.user, details[m.user])'
        BY <1>s, <2>0, <3>1, <3>4 DEF AffectsScore, AllowSelfVote
      <3>7. QED
        BY <2>0, <3>4, <3>5, <3>6 DEF ToNotify
    <2>4. CASE ~(ApplyScore(c) \/ WriteDetails(c) \/ Notify(c))
      <3>1. details' = details /\ unlisted' = unlisted /\ pc'[c] # "ack"
        BY <1>3, <2>4 DEF Callback, CommitStep, KarmaStep, Lock, ReadPrevious, ReadKarma, SetKarma,
             IncrKarma, ChangeKarma, WriteRel, UpdateUserLiked, Unlock, Goto, AfterRead,
             AfterCommit, storage, TypeInv, TypeOK
      <3>2. \A m : Reaches(m, P) => Reaches(m, P)'
        BY <2>0, <2>t, <3>1
      <3>3. QED
        BY <1>1, <2>0, <3>1, <3>2
    <2>5. QED
      BY <2>1, <2>2, <2>3, <2>4
  <1>4. QED
    BY <1>a, <1>1, <1>2, <1>3, FlightSteps

(***************************************************************************)
(* No change of the score is forgotten: when all votes are processed, the  *)
(* listings were told to refresh after the last one.                       *)
(***************************************************************************)
THEOREM ListingsAreTold ==
  ASSUME Orderly
  PROVE  Spec => []ListingsFollow
  <1>1. Init => RefreshDue
    BY DEF Init, RefreshDue
  <1>2. TypeInv /\ VotesInv /\ RefreshDue /\ [Next]_<<setup, vars>> => RefreshDue'
    BY RefreshStep
  <1>3. TypeInv /\ RefreshDue => ListingsFollow
    <2> SUFFICES ASSUME TypeInv, RefreshDue, \A u \in Users : Settled(u)
                 PROVE  ~unlisted
      BY DEF ListingsFollow
    <2>1. \A m \in InFlight : m.user \in Users
      BY FlightTyped DEF Message
    <2>2. InFlight = {}
      BY <2>1, SettledIs
    <2>3. QED
      BY <2>2 DEF RefreshDue
  <1>4. QED
    BY <1>1, <1>2, <1>3, VotesInvariant, PTL DEF Spec

(***************************************************************************)
(* The column of the relation is written before its view, and the key of   *)
(* the queued vote outlives the vote.                                      *)
(***************************************************************************)
LEMMA RelStep ==
  ASSUME Orderly, TypeInv, VotesInv, RelFollows, [Next]_<<setup, vars>>
  PROVE  RelFollows'
  <1> DEFINE P == {"writedetails"}
  <1>s. setup' = setup
    BY QuietSteps
  <1>t. pc \in [Consumers -> PCs] /\ rel \in [Users -> States \cup {None}]
          /\ details \in [Users -> Vote \cup {None}]
    BY DEF TypeInv, TypeOK
  <1>1. ASSUME rel' = rel, Quiet(P)
        PROVE  RelFollows'
    <2>1. \A c \in Consumers : pc'[c] = "writedetails" => pc[c] = "writedetails" /\ msg'[c] = msg[c]
      BY <1>1 DEF Quiet
    <2>2. \A c \in Consumers : pc[c] = "writedetails" => pc'[c] = "writedetails" /\ msg'[c] = msg[c]
      BY <1>1 DEF Quiet
    <2>3. details' = details
      BY <1>1 DEF Quiet
    <2>4. QED
      BY <1>1, <2>1, <2>2, <2>3 DEF RelFollows, DirectionOf
  <1>2. ASSUME NEW c \in Consumers, ApplyScore(c) \/ KarmaStep(c)
        PROVE  RelFollows'
    <2>1. pc[c] # "writedetails" /\ UNCHANGED <<details, rel, msg, vote>>
      BY <1>2 DEF ApplyScore, KarmaStep, ReadKarma, SetKarma, IncrKarma, ChangeKarma, storage
    <2>2. pc'[c] # "writedetails" /\ \A d \in Consumers \ {c} : pc'[d] = pc[d]
      BY <1>t, <1>2 DEF ApplyScore, KarmaStep, ReadKarma, SetKarma, IncrKarma, ChangeKarma, Goto
    <2>3. Quiet(P)
      BY <1>s, <2>1, <2>2 DEF Quiet
    <2>4. QED
      BY <1>1, <2>1, <2>3
  <1>3. ASSUME NEW c \in Consumers, WriteRel(c)
        PROVE  RelFollows'
    <2>1. /\ pc[c] = "writerel" /\ UNCHANGED <<details, msg>>
          /\ rel' = [rel EXCEPT ![msg[c].user] = msg[c].direction]
          /\ pc' = [pc EXCEPT ![c] = "writedetails"]
      BY <1>3 DEF WriteRel, Goto
    <2>2. pc'[c] = "writedetails" /\ \A d \in Consumers \ {c} : pc'[d] = pc[d]
      BY <1>t, <2>1
    <2>3. msg[c].user \in Users
      BY <2>1 DEF TypeInv, TypeOK, Message
    <2>4. \A d \in Consumers \ {c} : pc[d] = "writedetails" =>
             msg[d].user \in Users /\ msg[d].user # msg[c].user
      <3> SUFFICES ASSUME NEW d \in Consumers \ {c}, pc[d] = "writedetails"
                   PROVE  msg[d].user \in Users /\ msg[d].user # msg[c].user
        OBVIOUS
      <3>1. msg[d].user \in Users
        BY DEF TypeInv, TypeOK, Message
      <3>2. pc[c] \in Block /\ pc[d] \in Block
        BY <2>1 DEF Block, Window
      <3>3. QED
        BY <3>1, <3>2, AloneInBlock DEF VotesInv
    <2>5. rel'[msg[c].user] = msg[c].direction
            /\ \A u \in Users : u # msg[c].user => rel'[u] = rel[u]
      BY <1>t, <2>1, <2>3
    <2>6. \A d \in Consumers : pc'[d] = "writedetails" => rel'[msg'[d].user] = msg'[d].direction
      BY <2>1, <2>2, <2>4, <2>5 DEF RelFollows
    <2>7. ASSUME NEW u \in Users,
                 \A d \in Consumers : pc'[d] = "writedetails" => msg'[d].user # u
          PROVE  rel'[u] = DirectionOf(details[u])'
      <3>1. u # msg[c].user
        BY <2>1, <2>2, <2>7
      <3>2. \A d \in Consumers : pc[d] = "writedetails" => msg[d].user # u
        BY <2>1, <2>2, <2>7
      <3>3. QED
        BY <2>1, <2>5, <3>1, <3>2 DEF RelFollows, DirectionOf
    <2>8. QED
      BY <2>6, <2>7 DEF RelFollows
  <1>4. ASSUME NEW c \in Consumers, WriteDetails(c)
        PROVE  RelFollows'
    <2>1. /\ pc[c] = "writedetails" /\ UNCHANGED <<rel, msg>>
          /\ details' = [details EXCEPT ![msg[c].user] = Stored(c)]
          /\ pc'[c] # "writedetails" /\ \A d \in Consumers \ {c} : pc'[d] = pc[d]
      BY <1>t, <1>4 DEF WriteDetails, Stored, Goto, AfterCommit
    <2>2. msg[c] \in Message /\ msg[c].user \in Users /\ vote[c] \in Draft
      BY <2>1 DEF TypeInv, TypeOK, Message
    <2>3. DirectionOf(details[msg[c].user])' = msg[c].direction
      <3>1. PICK w : w = Stored(c)
        OBVIOUS
      <3>2. w \in Vote /\ w.direction = msg[c].direction
        BY <2>2, <3>1 DEF Stored, Vote, Draft, Message
      <3>3. details'[msg[c].user] = w
        BY <1>t, <2>1, <2>2, <3>1
      <3>4. QED
        BY <2>1, <3>2, <3>3, VotingAssumption DEF DirectionOf
    <2>4. \A d \in Consumers : pc'[d] = "writedetails" => rel'[msg'[d].user] = msg'[d].direction
      BY <2>1 DEF RelFollows
    <2>5. ASSUME NEW u \in Users,
                 \A d \in Consumers : pc'[d] = "writedetails" => msg'[d].user # u
          PROVE  rel'[u] = DirectionOf(details[u])'
      <3>1. CASE u = msg[c].user
        BY <2>1, <2>3, <3>1 DEF RelFollows
      <3>2. CASE u # msg[c].user
        <4>1. \A d \in Consumers : pc[d] = "writedetails" => msg[d].user # u
          BY <2>1, <2>5, <3>2
        <4>2. details'[u] = details[u]
          BY <1>t, <2>1, <2>2, <3>2
        <4>3. QED
          BY <2>1, <4>1, <4>2 DEF RelFollows, DirectionOf
      <3>3. QED
        BY <3>1, <3>2
    <2>6. QED
      BY <2>4, <2>5 DEF RelFollows
  <1>5. QED
    BY <1>1, <1>2, <1>3, <1>4, QuietSteps DEF CommitStep

\* A queued vote stays visible until it is stored.
LEMMA SeenStep ==
  ASSUME Orderly, Timely, TypeInv, VotesInv, QueuedSeen, [Next]_<<setup, vars>>
  PROVE  QueuedSeen'
  <1>t. pre \in [Users -> States \cup {None}] /\ last \in [Users -> States \cup {None}]
    BY DEF TypeInv, TypeOK
  <1>u. \A m \in InFlight : m.user \in Users
    BY FlightTyped DEF Message
  <1>1. ASSUME UNCHANGED <<pre, last>>, InFlight' \subseteq InFlight
        PROVE  QueuedSeen'
    BY <1>1 DEF QueuedSeen
  <1>2. ASSUME NEW u \in Users, NEW b \in Buttons, CastVote(u, b)
        PROVE  QueuedSeen'
    <2>1. PICK m \in Message :
            /\ m.user = u /\ m.direction # None /\ InFlight' = InFlight \cup {m}
            /\ last' = [last EXCEPT ![u] = m.direction]
            /\ pre' = [pre EXCEPT ![u] = m.direction]
      BY <1>2, NewVote
    <2>2. /\ last'[u] = m.direction /\ pre'[u] = m.direction
          /\ \A v \in Users : v # u => last'[v] = last[v] /\ pre'[v] = pre[v]
      BY <1>t, <2>1
    <2>3. \A v \in Users : pre'[v] # None => pre'[v] = last'[v]
      BY <2>2 DEF QueuedSeen
    <2>4. \A n \in InFlight' : pre'[n.user] # None
      BY <1>u, <2>1, <2>2 DEF QueuedSeen
    <2>5. QED
      BY <2>3, <2>4 DEF QueuedSeen
  <1>3. ASSUME NEW u \in Users, GraceEnds(u)
        PROVE  QueuedSeen'
    <2>1. Settled(u) /\ pre' = [pre EXCEPT ![u] = None]
            /\ UNCHANGED <<last, queue, pc, msg>>
      BY <1>3 DEF GraceEnds, Timely, Fault
    <2>2. InFlight' = InFlight
      BY <2>1 DEF InFlight, Queued, Working
    <2>3. pre'[u] = None /\ \A v \in Users : v # u => pre'[v] = pre[v]
      BY <1>t, <2>1
    <2>4. \A n \in InFlight : n.user # u
      BY <2>1, SettledIs
    <2>5. QED
      BY <1>u, <2>1, <2>2, <2>3, <2>4 DEF QueuedSeen
  <1>4. ASSUME NEW c \in Consumers, Callback(c)
        PROVE  QueuedSeen'
    BY <1>1, <1>4, CallbackFlight
  <1>5. \A u \in Users, b \in Buttons : ~CastVoteLost(u, b)
    BY DEF CastVoteLost, Fault, Timely
  <1>6. {"lock", "read"} \subseteq {"lock", "read"} /\ "ack" \notin {"lock", "read"}
    OBVIOUS
  <1>7. QED
    BY <1>1, <1>2, <1>3, <1>4, <1>5, <1>6, FlightSteps

(***************************************************************************)
(* The lists of a user follow his vote, or a copy of it has yet to come to *)
(* update_user_liked.                                                      *)
(***************************************************************************)
LEMMA ButtonsStep ==
  ASSUME Orderly, TypeInv, VotesInv, ButtonsMatch, [Next]_<<setup, vars>>
  PROVE  ButtonsMatch'
  <1>1. ASSUME InFlight' \subseteq InFlight
        PROVE  ButtonsMatch'
    BY <1>1 DEF ButtonsMatch
  <1>2. ASSUME NEW u \in Users, NEW b \in Buttons, CastVote(u, b)
        PROVE  ButtonsMatch'
    <2>1. PICK m \in Message : m.button = b /\ Due(m) /\ InFlight' = InFlight \cup {m}
      BY <1>2, NewVote
    <2>2. PICK s : s = StateOf(details[m.user])
      OBVIOUS
    <2>3. s \in DOMAIN Transition(b) /\ m.direction = Transition(b)[s]
      BY <2>1, <2>2 DEF Due
    <2>4. PICK n : n = m.direction
      OBVIOUS
    <2>5. /\ b = "up" => n \in UpBits
          /\ b = "unup" => n \notin UpBits
          /\ b = "down" => n \in DownBits
          /\ b = "undown" => n \notin DownBits
      BY <2>3, <2>4, TableFacts
    <2>6. QED
      BY <2>1, <2>4, <2>5 DEF ButtonsMatch
  <1>3. ASSUME NEW c \in Consumers, Callback(c)
        PROVE  ButtonsMatch'
    BY <1>1, <1>3, CallbackFlight
  <1>4. {"lock", "read"} \subseteq {"lock", "read"} /\ "ack" \notin {"lock", "read"}
    OBVIOUS
  <1>5. QED
    BY <1>1, <1>2, <1>3, <1>4, FlightSteps

\* UpdateUserLiked brings the lists up to date, whoever commits.
LEMMA ListsStep ==
  ASSUME Orderly, TypeInv, VotesInv, ButtonsMatch, ListsFollow, [Next]_<<setup, vars>>
  PROVE  ListsFollow'
  <1> DEFINE P == {"lock", "read", "liked"}
  <1>s. setup' = setup
    BY DEF Next, vars
  <1>a. {"lock", "read"} \subseteq P /\ "ack" \notin P
    OBVIOUS
  <1> SUFFICES ASSUME Kind = "link", NEW u \in Users
               PROVE  ListOK(u)'
    BY <1>s DEF ListsFollow, Kind
  <1>k. ListOK(u)
    BY DEF ListsFollow
  <1>1. ASSUME details'[u] = details[u],
               LikedOK(u)' <=> LikedOK(u), DislikedOK(u)' <=> DislikedOK(u),
               \A m \in InFlight : m.user = u /\ Applied(m) /\ Reaches(m, P) => Reaches(m, P)'
        PROVE  ListOK(u)'
    <2>1. CASE LikedOK(u) /\ DislikedOK(u)
      BY <1>1, <2>1 DEF ListOK
    <2>2. CASE ~(LikedOK(u) /\ DislikedOK(u))
      <3>1. PICK m \in InFlight :
              /\ m.user = u /\ Applied(m) /\ ToList(m)
              /\ m.button \in {"up", "unup"} => DislikedOK(u)
              /\ m.button \in {"down", "undown"} => LikedOK(u)
        BY <1>k, <2>2 DEF ListOK
      <3>2. Reaches(m, P)'
        BY <1>1, <3>1 DEF ToList
      <3>3. m \in InFlight'
        BY <3>2 DEF Reaches, InFlight
      <3>4. Applied(m)'
        BY <1>1, <3>1 DEF Applied
      <3>5. ToList(m)'
        BY <3>2 DEF ToList
      <3>6. QED
        BY <1>1, <3>1, <3>3, <3>4, <3>5 DEF ListOK
    <2>3. QED
      BY <2>1, <2>2
  <1>2. ASSUME UNCHANGED <<details, liked, disliked>>, \A m : Reaches(m, P) => Reaches(m, P)'
        PROVE  ListOK(u)'
    BY <1>1, <1>2 DEF LikedOK, DislikedOK, UpOn, DownOn
  <1>3. ASSUME NEW v \in Users, NEW b \in Buttons, CastVote(v, b)
        PROVE  ListOK(u)'
    <2>1. PICK m \in Message : Queued' = Queued \cup {m}
                                 /\ UNCHANGED <<storage, pc, msg, conn>>
      BY <1>3, NewVote
    <2>2. \A n : Reaches(n, P) => Reaches(n, P)'
      BY <2>1 DEF Reaches, Working
    <2>3. QED
      BY <1>2, <2>1, <2>2 DEF storage
  <1>4. ASSUME NEW c \in Consumers, Callback(c)
        PROVE  ListOK(u)'
    <2>0. /\ pc[c] # "idle" /\ pc'[c] # "idle" /\ \A d \in Consumers \ {c} : pc'[d] = pc[d]
          /\ UNCHANGED <<msg, conn>> /\ Queued' = Queued /\ InFlight' = InFlight
          /\ \A m : Reaches(m, P) =>
                      Reaches(m, P)' \/ (m = msg[c] /\ pc[c] \in P /\ pc'[c] \notin P)
      BY <1>4, CallbackFlight
    <2>m. msg[c] \in Message /\ msg[c] \in InFlight /\ msg[c].user \in Users /\ vote[c] \in Draft
      BY <2>0 DEF TypeInv, TypeOK, Message, InFlight, Working
    <2>1. CASE ReadPrevious(c)
      <3>1. UNCHANGED <<details, liked, disliked>>
        BY <2>1 DEF ReadPrevious, storage
      <3>2. Applied(msg[c]) => pc'[c] = "liked"
        BY <2>1 DEF ReadPrevious, Applied, AfterRead, AfterCommit, Goto, TypeInv, TypeOK
      <3>3. \A m \in InFlight : m.user = u /\ Applied(m) /\ Reaches(m, P) => Reaches(m, P)'
        BY <2>0, <3>2
      <3>4. QED
        BY <1>1, <3>1, <3>3 DEF LikedOK, DislikedOK, UpOn, DownOn
    <2>2. CASE Lock(c) \/ ApplyScore(c) \/ KarmaStep(c) \/ WriteRel(c) \/ Unlock(c) \/ Notify(c)
      <3>1. UNCHANGED <<details, liked, disliked>>
        BY <2>2 DEF Lock, ApplyScore, KarmaStep, ReadKarma, SetKarma, IncrKarma, ChangeKarma,
                    WriteRel, Unlock, Notify, storage
      <3>2. pc[c] \notin P \/ pc'[c] \in P
        BY <2>2 DEF Lock, ApplyScore, KarmaStep, ReadKarma, SetKarma, IncrKarma, ChangeKarma,
                    WriteRel, Unlock, Notify, Goto, TypeInv, TypeOK
      <3>3. QED
        BY <1>2, <2>0, <3>1, <3>2
    <2>3. CASE WriteDetails(c)
      <3>1. /\ pc[c] = "writedetails" /\ UNCHANGED <<liked, disliked>>
            /\ details' = [details EXCEPT ![msg[c].user] = Stored(c)]
            /\ pc'[c] = "liked" /\ details \in [Users -> Vote \cup {None}]
        BY <2>3 DEF WriteDetails, Stored, Goto, AfterCommit, TypeInv, TypeOK
      <3>2. \A m : Reaches(m, P) => Reaches(m, P)'
        BY <2>0, <3>1
      <3>3. CASE u # msg[c].user
        <4>1. details'[u] = details[u]
          BY <2>m, <3>1, <3>3
        <4>2. QED
          BY <1>1, <3>1, <3>2, <4>1 DEF LikedOK, DislikedOK
      <3>4. CASE u = msg[c].user
        <4>1. Current(c) /\ Due(msg[c])
          BY <3>1 DEF VotesInv, DraftCurrent, DraftOK, Window, Current
        <4>2. LikedOK(u) /\ DislikedOK(u)
          <5>1. ~Applied(msg[c])
            BY <2>m, <4>1, OnceOnly
          <5>2. \A m \in InFlight : m.user = u => m = msg[c]
            BY <2>m, <3>4 DEF VotesInv, OneVote
          <5>3. QED
            BY <1>k, <5>1, <5>2 DEF ListOK
        <4>3. PICK old, new : old = details[u] /\ new = Stored(c)
          OBVIOUS
        <4>4. /\ UpOn(new) /\ ~UpOn(old) <=> msg[c].button = "up"
              /\ UpOn(old) /\ ~UpOn(new) <=> msg[c].button = "unup"
              /\ DownOn(new) /\ ~DownOn(old) <=> msg[c].button = "down"
              /\ DownOn(old) /\ ~DownOn(new) <=> msg[c].button = "undown"
              /\ new # None
          BY <2>0, <3>4, <4>1, <4>3, ButtonIsChange
        <4>5. details'[u] = new
          BY <2>m, <3>1, <3>4, <4>3
        <4>6. /\ msg[c].button \in {"up", "unup"} => DislikedOK(u)'
              /\ msg[c].button \in {"down", "undown"} => LikedOK(u)'
          BY <3>1, <4>2, <4>3, <4>4, <4>5 DEF LikedOK, DislikedOK
        <4>7. Applied(msg[c])'
          <5>1. new.direction = msg[c].direction
            BY <4>3 DEF Stored
          <5>2. QED
            BY <2>0, <3>4, <4>4, <4>5, <5>1 DEF Applied
        <4>8. Reaches(msg[c], P)'
          <5> SUFFICES ASSUME msg[c] \notin Queued PROVE Reaches(msg[c], P)'
            BY <2>0 DEF Reaches
          <5>1. PICK d \in Working : conn[d] /\ msg[d] = msg[c] /\ pc[d] \in PCs
            BY <2>0, <4>1, DueLives DEF Live, Reaches
          <5>2. d \in Consumers /\ pc[d] # "idle" /\ d \in Working'
            BY <2>0, <5>1 DEF Working
          <5>3. pc'[d] \in P
            <6>1. CASE d = c
              BY <3>1, <6>1
            <6>2. CASE d # c
              <7>1. pc[d] \notin After
                <8> SUFFICES ASSUME pc[d] \in After PROVE FALSE
                  OBVIOUS
                <8>1. Applied(msg[c])
                  BY <5>1, <5>2 DEF VotesInv, DraftCurrent, DraftOK, Committed
                <8>2. QED
                  BY <2>m, <4>1, <8>1, OnceOnly
              <7>2. pc[d] \notin Block
                <8>1. pc[c] \in Block
                  BY <3>1 DEF Block, Window
                <8>2. QED
                  BY <5>1, <5>2, <6>2, <8>1, AloneInBlock DEF VotesInv
              <7>3. pc[d] = "lock"
                BY <5>1, <5>2, <7>1, <7>2 DEF PCs, Block, Window, After
              <7>4. QED
                BY <2>0, <5>2, <6>2, <7>3
            <6>3. QED
              BY <6>1, <6>2
          <5>4. QED
            BY <2>0, <5>1, <5>2, <5>3 DEF Reaches
        <4>9. PICK m \in InFlight : m = msg[c]
          BY <2>m
        <4>10. m \in InFlight' /\ m.user = u /\ Applied(m)' /\ ToList(m)'
          BY <2>0, <3>4, <4>7, <4>8, <4>9 DEF ToList
        <4>11. QED
          BY <4>6, <4>9, <4>10 DEF ListOK
      <3>5. QED
        BY <3>3, <3>4
    <2>4. CASE UpdateUserLiked(c)
      <3>1. /\ pc[c] = "liked" /\ pc'[c] = "unlock" /\ details' = details
            /\ liked' = (liked \ IF msg[c].button = "unup" /\ vote[c].known
                                 THEN {msg[c].user} ELSE {})
                          \cup (IF msg[c].button = "up" THEN {msg[c].user} ELSE {})
            /\ disliked' = (disliked \ IF msg[c].button = "undown" /\ vote[c].known
                                       THEN {msg[c].user} ELSE {})
                             \cup (IF msg[c].button = "down" THEN {msg[c].user} ELSE {})
        BY <2>4 DEF UpdateUserLiked, Goto, TypeInv, TypeOK
      <3>2. CASE u # msg[c].user
        <4>1. (u \in liked' <=> u \in liked) /\ (u \in disliked' <=> u \in disliked)
          BY <3>1, <3>2
        <4>2. LikedOK(u)' <=> LikedOK(u)
          BY <3>1, <4>1 DEF LikedOK, UpOn
        <4>3. DislikedOK(u)' <=> DislikedOK(u)
          BY <3>1, <4>1 DEF DislikedOK, DownOn
        <4>4. \A m \in InFlight : m.user = u /\ Applied(m) /\ Reaches(m, P) => Reaches(m, P)'
          BY <2>0, <3>2
        <4>5. QED
          BY <1>1, <3>1, <4>2, <4>3, <4>4
      <3>3. CASE u = msg[c].user
        <4>1. Committed(c)
          BY <3>1 DEF VotesInv, DraftCurrent, DraftOK, After
        <4>2. PICK b \in Buttons : b = msg[c].button
          BY <2>m DEF Message
        <4>3. vote[c].known \/ b \in {"up", "down"}
          BY <4>1, <4>2 DEF Committed
        <4>4. /\ b \in {"up", "unup"} => DislikedOK(u)
              /\ b \in {"down", "undown"} => LikedOK(u)
          <5>1. \A m \in InFlight : m.user = u => m = msg[c]
            BY <2>m, <3>3 DEF VotesInv, OneVote
          <5>2. QED
            BY <1>k, <4>2, <5>1 DEF ListOK
        <4>5. details[u] # None /\ details[u].direction = msg[c].direction
          BY <3>3, <4>1 DEF Committed, Applied
        <4>6. /\ b = "up" => UpOn(details[u])
              /\ b = "unup" => ~UpOn(details[u])
              /\ b = "down" => DownOn(details[u])
              /\ b = "undown" => ~DownOn(details[u])
          BY <2>m, <4>2, <4>5 DEF ButtonsMatch, UpOn, DownOn, UpBits, DownBits
        <4>7. b \in {"up", "down", "unup", "undown"}
          BY DEF Buttons
        <4>8. u \in liked' <=> UpOn(details[u])
          BY <3>1, <3>3, <4>2, <4>3, <4>4, <4>6, <4>7 DEF LikedOK
        <4>9. u \in disliked' <=> DownOn(details[u])
          BY <3>1, <3>3, <4>2, <4>3, <4>4, <4>6, <4>7 DEF DislikedOK
        <4>10. QED
          BY <3>1, <4>8, <4>9 DEF ListOK, LikedOK, DislikedOK
      <3>4. QED
        BY <3>2, <3>3
    <2>5. QED
      BY <1>4, <2>1, <2>2, <2>3, <2>4 DEF Callback, CommitStep
  <1>5. QED
    BY <1>a, <1>2, <1>3, <1>4, FlightSteps

\* At first the automatic vote is shown and the lists are right.
LEMMA InitShown == Init => RelFollows /\ QueuedSeen /\ ButtonsMatch /\ ListsFollow
  <1> SUFFICES ASSUME Init PROVE RelFollows /\ QueuedSeen /\ ButtonsMatch /\ ListsFollow
    OBVIOUS
  <1>1. queue = <<FirstMessage>> /\ Queued = {FirstMessage}
    BY DEF Init, Queued, ToSet
  <1>2. InFlight = {FirstMessage}
    BY <1>1 DEF Init, Working, InFlight
  <1>3. FirstMessage.user = Author /\ FirstMessage.direction = "onoff"
          /\ FirstMessage.button = "up"
    BY DEF FirstMessage
  <1>4. RelFollows
    BY DEF Init, RelFollows
  <1>5. QueuedSeen
    BY <1>2, <1>3, VotingAssumption DEF Init, QueuedSeen, States
  <1>6. ButtonsMatch
    BY <1>2, <1>3 DEF ButtonsMatch, UpBits
  <1>7. \A u \in Users : LikedOK(u) /\ DislikedOK(u)
    BY DEF Init, LikedOK, DislikedOK
  <1>8. ListsFollow
    BY <1>7 DEF ListsFollow, ListOK
  <1>9. QED
    BY <1>4, <1>5, <1>6, <1>8

(***************************************************************************)
(* All that a voter is shown agrees with the vote he cast last: before,    *)
(* while and after it is processed, through crashes and redeliveries, if   *)
(* keys of queued votes outlive the queue and no vote is lost on its way.  *)
(***************************************************************************)
THEOREM VotersSeeVotes ==
  ASSUME Orderly, Timely
  PROVE  Spec => []VoterSeesVote
  <1>1. TypeInv /\ VotesInv /\ RelFollows /\ [Next]_<<setup, vars>> => RelFollows'
    BY RelStep
  <1>2. TypeInv /\ VotesInv /\ QueuedSeen /\ [Next]_<<setup, vars>> => QueuedSeen'
    BY SeenStep
  <1>3. TypeInv /\ VotesInv /\ ButtonsMatch /\ [Next]_<<setup, vars>> => ButtonsMatch'
    BY ButtonsStep
  <1>4. TypeInv /\ VotesInv /\ ButtonsMatch /\ ListsFollow /\ [Next]_<<setup, vars>>
          => ListsFollow'
    BY ListsStep
  <1>5. TypeInv /\ VotesInv /\ RelFollows /\ QueuedSeen /\ ListsFollow => VoterSeesVote
    <2> SUFFICES ASSUME TypeInv, VotesInv, RelFollows, QueuedSeen, ListsFollow
                 PROVE  VoterSeesVote
      OBVIOUS
    <2>1. LikedMatchesVote
      <3> SUFFICES ASSUME Kind = "link", NEW u \in Users, Settled(u)
                   PROVE  /\ u \in liked <=> UpOn(details[u])
                          /\ u \in disliked <=> DownOn(details[u])
        BY DEF LikedMatchesVote
      <3>1. LikedOK(u) /\ DislikedOK(u)
        BY SettledIs DEF ListsFollow, ListOK
      <3>2. QED
        BY <3>1 DEF LikedOK, DislikedOK
    <2>2. SeesOwnVote
      <3> SUFFICES ASSUME NEW u \in Users, pre[u] = None PROVE rel[u] = last[u]
        BY DEF SeesOwnVote, Likes, QueuedSeen
      <3>1. \A m \in InFlight : m.user # u
        BY DEF QueuedSeen
      <3>2. DirectionOf(details[u]) = last[u]
        BY <3>1 DEF VotesInv, LastVote
      <3>3. \A c \in Consumers : pc[c] = "writedetails" => msg[c].user # u
        BY <3>1 DEF InFlight, Working
      <3>4. QED
        BY <3>2, <3>3 DEF RelFollows
    <2>3. QED
      BY <2>1, <2>2 DEF VoterSeesVote
  <1>6. QED
    BY <1>1, <1>2, <1>3, <1>4, <1>5, InitShown, VotesInvariant, PTL DEF Spec

=============================================================================
