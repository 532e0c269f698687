-------------------------------- MODULE Voting --------------------------------
(***************************************************************************)
(* r2/lib/voting.py and r2/models/vote.py: the votes of Users on one link  *)
(* or comment, from POST_vote through the vote queue to the processes that *)
(* consume it.                                                             *)
(*                                                                         *)
(* A vote has two bits, "insightful" (up) and "funny" (down).  cast_vote   *)
(* combines the button pressed with the last PROCESSED vote to a state and *)
(* queues both; the consumer increments by the button and stores the state.*)
(*                                                                         *)
(* The lock is MemcacheLock at the level of ReentrantLock, _incr of the    *)
(* thing is the atomic increment that ThingCommit shows base properties to *)
(* have.  Each consumer prefetches up to ten messages, so several of them  *)
(* together do not process messages in the order of the queue.             *)
(***************************************************************************)
EXTENDS Integers, FiniteSets, Sequences

LOCAL INSTANCE SequencesExt

CONSTANTS
    Users,          \* voters
    Author,         \* the one who posted the thing
    Consumers,      \* processes consuming vote_link_q or vote_comment_q
    Setups,         \* what is voted on and how the site is set up, see below
    DefaultKarma,   \* karma(kind, sr) of an author without karma in sr
    None, Unset,
    MaxCasts,       \* bound: votes each user casts
    MaxFaults,      \* bound: failures of the kinds in Faults
    Faults          \* what may go wrong

FaultKinds == {"crash", "windowcrash", "lostconn", "expire", "slow", "lost",
               "pipelined", "spam"}

Buttons == {"up", "down", "unup", "undown"}
States == {"onon", "onoff", "offon", "offoff"} \cup {"up", "down", "unvote"}

Vote == [direction : States, score : BOOLEAN, karma : BOOLEAN]

ASSUME VotingAssumption ==
    /\ IsFiniteSet(Users) /\ Author \in Users
    /\ Setups \subseteq [kind : {"link", "comment"},
                        selfvote : BOOLEAN,             \* g.voting_allow_selfvote
                        consumers : SUBSET Consumers,   \* those that are started
                        karma : Int \cup {Unset},       \* the author's in sr
                        legacy : SUBSET {"up", "down", "unvote"}]
                          \* directions stored by the earlier voting model
    /\ \A s \in Setups : s.karma = Unset => s.legacy = {}
    /\ DefaultKarma \in Int
    /\ Unset \notin Int
    /\ None \notin Consumers \cup States \cup Vote
    /\ "dead" \notin Consumers
    /\ MaxCasts \in Nat /\ MaxFaults \in Nat
    /\ Faults \subseteq FaultKinds

VARIABLES
    setup,      \* one of Setups
    details,    \* details[u]: u's row in VoteDetailsByThing, or None
    rel,        \* rel[u]: u's column in VotesByAccount
    pre,        \* pre[u]: the "queuedvote" key in gencache, or None
    last,       \* last[u]: the state of u's last vote that was queued
    queue,      \* messages to be delivered
    lock,       \* lock[u]: holder of "vote-<u>-<thing>", "dead" or None
    pc,         \* pc[c]: where consumer c is
    msg,        \* msg[c]: the message c works on, or None
    vote,       \* vote[c]: the Vote object c built from it
    conn,       \* conn[c]: the broker still waits for c's acknowledgement
    ups, downs, \* of the thing
    karma,      \* of the author in the thing's subreddit, or Unset
    liked,      \* voters with the thing in their get_liked query ...
    disliked,   \* ... and in get_disliked
    unlisted,   \* the score changed and no listing was told to refresh
    spam,       \* shadowbanned voters
    casts,      \* casts[u]: votes u cast, against MaxCasts
    faults      \* failures so far, against MaxFaults

storage == <<details, rel, ups, downs, karma, liked, disliked>>
counters == <<casts, faults>>
vars == <<details, rel, pre, last, queue, lock, pc, msg, vote, conn, ups, downs,
          karma, liked, disliked, unlisted, spam, casts, faults>>

Message == [user : Users, direction : States, button : Buttons, id : Nat]

\* A Vote under construction: its effects, and whether a previous vote exists
\* and equals it.
Draft == [known : BOOLEAN, again : BOOLEAN, score : BOOLEAN, karma : BOOLEAN]
NoDraft == [known |-> FALSE, again |-> FALSE, score |-> FALSE, karma |-> FALSE]

PCs == {"idle", "lock", "read", "score", "karma", "setkarma", "incrkarma",
        "writerel", "writedetails", "liked", "unlock", "notify", "ack"}

Kind == setup.kind
AllowSelfVote == setup.selfvote
InitKarma == setup.karma
Legacy == setup.legacy

TypeOK ==
    /\ setup \in Setups
    /\ details \in [Users -> Vote \cup {None}]
    /\ rel \in [Users -> States \cup {None}]
    /\ pre \in [Users -> States \cup {None}]
    /\ last \in [Users -> States \cup {None}]
    /\ queue \in Seq(Message)
    /\ lock \in [Users -> Consumers \cup {"dead", None}]
    /\ pc \in [Consumers -> PCs]
    /\ \A c \in Consumers : IF pc[c] = "idle" THEN msg[c] = None ELSE msg[c] \in Message
    /\ vote \in [Consumers -> Draft]
    /\ conn \in [Consumers -> BOOLEAN]
    /\ ups \in Int /\ downs \in Int
    /\ karma \in Int \cup {Unset}
    /\ liked \subseteq Users /\ disliked \subseteq Users
    /\ unlisted \in BOOLEAN
    /\ spam \subseteq Users
    /\ casts \in [Users -> Nat]
    /\ faults \in Nat

UpOn(v) == v # None /\ v.direction \in {"onon", "onoff", "up"}
DownOn(v) == v # None /\ v.direction \in {"onon", "offon", "down"}

\* A thing is created with _ups = 1 for the vote of its author, which follows
\* through the queue and counts only if later self votes do.
UpCounted(u, d) ==
    IF u = Author /\ (d[u] = None \/ ~AllowSelfVote) THEN TRUE ELSE UpOn(d[u])
DownCounted(u, d) == (u # Author \/ AllowSelfVote) /\ DownOn(d[u])

UpTally(d) == Cardinality({u \in Users : UpCounted(u, d)})
DownTally(d) == Cardinality({u \in Users : DownCounted(u, d)})
KarmaTally(d) ==
    2 * Cardinality({u \in Users : UpOn(d[u]) /\ d[u].karma})
      + Cardinality({u \in Users : DownOn(d[u]) /\ d[u].karma})

-----------------------------------------------------------------------------
(* cast_vote                                                               *)

\* Mutant of Transition: the button itself is stored.
TransitionRaw(b) == [s \in States \cup {"new"} |-> b]

\* Transition(b)[s]: the state that pressing b leads to from s; a vote from
\* any other state is discarded.
Transition(b) ==
    CASE b = "up"     -> [new |-> "onoff", offon |-> "onon", offoff |-> "onoff", down |-> "onon"]
      [] b = "down"   -> [new |-> "offon", onoff |-> "onon", offoff |-> "offon", up |-> "onon"]
      [] b = "unup"   -> [onon |-> "offon", onoff |-> "offoff", up |-> "offoff"]
      [] b = "undown" -> [onon |-> "onoff", offon |-> "offoff", down |-> "offoff"]

StateOf(v) == IF v = None THEN "new" ELSE v.direction

\* The automatic vote of the author on the new thing is in the queue.
FirstMessage == [user |-> Author, direction |-> "onoff", button |-> "up", id |-> 0]

InitialVotes(u) ==
    {None} \cup {[direction |-> s, score |-> TRUE, karma |-> TRUE] :
                    s \in IF u = Author THEN {} ELSE Legacy}

DirectionOf(v) == IF v = None THEN None ELSE v.direction

Init ==
    /\ setup \in Setups
    /\ details \in [Users -> UNION {InitialVotes(u) : u \in Users}]
    /\ \A u \in Users : details[u] \in InitialVotes(u)
    /\ rel = [u \in Users |-> DirectionOf(details[u])]
    /\ pre = [u \in Users |-> IF u = Author THEN "onoff" ELSE None]
    /\ last = [u \in Users |-> IF u = Author THEN "onoff" ELSE DirectionOf(details[u])]
    /\ queue = <<FirstMessage>>
    /\ lock = [u \in Users |-> None]
    /\ pc = [c \in Consumers |-> "idle"]
    /\ msg = [c \in Consumers |-> None]
    /\ vote = [c \in Consumers |-> NoDraft]
    /\ conn = [c \in Consumers |-> TRUE]
    /\ ups = UpTally(details) /\ downs = DownTally(details)
    /\ karma = IF InitKarma = Unset THEN Unset ELSE InitKarma + KarmaTally(details)
    /\ liked = {u \in Users : UpOn(details[u])}
    /\ disliked = {u \in Users : DownOn(details[u])}
    /\ unlisted = FALSE
    /\ spam = {}
    /\ casts = [u \in Users |-> 0]
    /\ faults = 0

Fault(kind) ==
    /\ kind \in Faults
    /\ faults < MaxFaults
    /\ faults' = faults + 1

\* No vote of u is on its way.
Settled(u) ==
    /\ \A i \in DOMAIN queue : queue[i].user # u
    /\ \A c \in Consumers : pc[c] # "idle" => msg[c].user # u

\* u presses a button and cast_vote does not discard the vote.
Cast(u, b) ==
    /\ casts[u] < MaxCasts
    /\ StateOf(details[u]) \in DOMAIN Transition(b)
    /\ pre' = [pre EXCEPT ![u] = Transition(b)[StateOf(details[u])]]
    /\ casts' = [casts EXCEPT ![u] = @ + 1]
    /\ UNCHANGED <<storage, lock, pc, msg, vote, conn, unlisted, spam>>

Publish(u, b) ==
    LET s == Transition(b)[StateOf(details[u])]
    IN  /\ queue' = Append(queue,
                      [user |-> u, direction |-> s, button |-> b, id |-> casts[u] + 1])
        /\ last' = [last EXCEPT ![u] = s]

\* Mutant of CastVote: no update_vote_lookups.
CastVoteUnseen(u, b) ==
    /\ Settled(u)
    /\ casts[u] < MaxCasts
    /\ StateOf(details[u]) \in DOMAIN Transition(b)
    /\ Publish(u, b)
    /\ casts' = [casts EXCEPT ![u] = @ + 1]
    /\ UNCHANGED <<storage, pre, lock, pc, msg, vote, conn, unlisted, spam, faults>>

\* The voter waits for the earlier vote to be counted, or does not.
CastVote(u, b) ==
    /\ \/ Settled(u) /\ UNCHANGED faults
       \/ ~Settled(u) /\ Fault("pipelined")
    /\ Cast(u, b)
    /\ Publish(u, b)

\* The app server dies, or publishing fails, with the message in its worker.
CastVoteLost(u, b) ==
    /\ Settled(u)
    /\ Fault("lost")
    /\ Cast(u, b)
    /\ UNCHANGED <<queue, last>>

\* The "queuedvote" key reaches its TTL.
GraceEnds(u) ==
    /\ pre[u] # None
    /\ \/ Settled(u) /\ UNCHANGED faults
       \/ ~Settled(u) /\ Fault("slow")
    /\ pre' = [pre EXCEPT ![u] = None]
    /\ UNCHANGED <<storage, last, queue, lock, pc, msg, vote, conn, unlisted, spam, casts>>

-----------------------------------------------------------------------------
(* consume_link_vote_queue, consume_comment_vote_queue                     *)

Goto(c, label) == pc' = [pc EXCEPT ![c] = label]

\* The head of the queue, or with several consumers one that the others have
\* overtaken.
Deliver(c) ==
    /\ c \in setup.consumers
    /\ pc[c] = "idle"
    /\ \E i \in DOMAIN queue :
         /\ i = 1 \/ Cardinality(setup.consumers) > 1
         /\ msg' = [msg EXCEPT ![c] = queue[i]]
         /\ queue' = RemoveAt(queue, i)
    /\ Goto(c, IF Kind = "link" THEN "lock" ELSE "read")
    /\ UNCHANGED <<storage, pre, last, lock, vote, conn, unlisted, spam, counters>>

\* Mutant of Lock: two consumers in the block at a time.
LockAnyway(c) ==
    /\ pc[c] = "lock"
    /\ lock' = [lock EXCEPT ![msg[c].user] = c]
    /\ Goto(c, "read")
    /\ UNCHANGED <<storage, pre, last, queue, msg, vote, conn, unlisted, spam, counters>>

Lock(c) ==
    /\ pc[c] = "lock"
    /\ lock[msg[c].user] = None
    /\ lock' = [lock EXCEPT ![msg[c].user] = c]
    /\ Goto(c, "read")
    /\ UNCHANGED <<storage, pre, last, queue, msg, vote, conn, unlisted, spam, counters>>

\* Mutant of Die: the message was acknowledged on delivery.
DieAcked(c) ==
    /\ lock' = [u \in Users |-> IF lock[u] = c THEN "dead" ELSE lock[u]]
    /\ msg' = [msg EXCEPT ![c] = None]
    /\ vote' = [vote EXCEPT ![c] = NoDraft]
    /\ conn' = [conn EXCEPT ![c] = TRUE]
    /\ Goto(c, "idle")
    /\ UNCHANGED <<storage, pre, last, queue, unlisted, spam, casts>>

\* The process ends and is started again.  consume_items acknowledges after
\* the callback, so the broker delivers the message once more; the entry of a
\* lock stays in memcached.
Die(c) ==
    /\ queue' = IF conn[c] THEN <<msg[c]>> \o queue ELSE queue
    /\ lock' = [u \in Users |-> IF lock[u] = c THEN "dead" ELSE lock[u]]
    /\ msg' = [msg EXCEPT ![c] = None]
    /\ vote' = [vote EXCEPT ![c] = NoDraft]
    /\ conn' = [conn EXCEPT ![c] = TRUE]
    /\ Goto(c, "idle")
    /\ UNCHANGED <<storage, pre, last, unlisted, spam, casts>>

\* make_lock's timeout passes; nothing catches the exception.
TimeoutExpired(c) ==
    /\ pc[c] = "lock"
    /\ lock[msg[c].user] # None
    /\ Die(c)
    /\ UNCHANGED faults

\* Mutant of AffectsScore: the automatic vote counts like any other.
AffectsScoreInitial(u, prev) ==
    /\ ~(prev # None /\ ~prev.score /\ ~AllowSelfVote)
    /\ u \notin spam

\* VoteEffects.determine_affects_score: not the automatic vote, not one after
\* a vote without effect unless self votes are allowed, not a shadowbanned one.
AffectsScore(u, prev) ==
    /\ ~(u = Author /\ prev = None)
    /\ ~(prev # None /\ ~prev.score /\ ~AllowSelfVote)
    /\ u \notin spam

\* Mutant of AffectsKarma: forget whether the previous vote gave karma.
AffectsKarmaFresh(u, prev) == AffectsScore(u, prev)

AffectsKarma(u, prev) ==
    /\ AffectsScore(u, prev)
    /\ ~(prev # None /\ ~prev.karma)

\* Where process_message goes on after vote.commit().
AfterCommit == IF Kind = "link" THEN "liked" ELSE "notify"

\* Mutant of AfterRead: a repeated vote is dropped altogether.
AfterReadDrop(again) ==
    CASE ~again -> "score"
      [] again /\ Kind = "link" -> "unlock"
      [] OTHER -> "notify"

\* commit() returns early for a vote equal to the previous one.
AfterRead(again) == IF again THEN AfterCommit ELSE "score"

\* Vote.__init__ looks up the previous vote and determines the effects.
ReadPrevious(c) ==
    LET u == msg[c].user
        prev == details[u]
        again == prev # None /\ prev.direction = msg[c].direction
    IN  /\ pc[c] = "read"
        /\ vote' = [vote EXCEPT ![c] =
                      [known |-> prev # None,
                       again |-> again,
                       score |-> AffectsScore(u, prev),
                       karma |-> AffectsKarma(u, prev)]]
        /\ Goto(c, AfterRead(again))
        /\ UNCHANGED <<storage, pre, last, queue, lock, msg, conn, unlisted, spam, counters>>

\* apply_effects: the two counters.
ApplyScore(c) ==
    LET b == msg[c].button
        add == vote[c].score
        remove == vote[c].score /\ vote[c].known
    IN  /\ pc[c] = "score"
        /\ ups' = ups + (IF add /\ b = "up" THEN 1 ELSE 0)
                      - (IF remove /\ b = "unup" THEN 1 ELSE 0)
        /\ downs' = downs + (IF add /\ b = "down" THEN 1 ELSE 0)
                          - (IF remove /\ b = "undown" THEN 1 ELSE 0)
        /\ unlisted' = (unlisted \/ ups' # ups \/ downs' # downs)
        /\ Goto(c, "karma")
        /\ UNCHANGED <<details, rel, karma, liked, disliked>>
        /\ UNCHANGED <<pre, last, queue, lock, msg, vote, conn, spam, counters>>

KarmaChange(b) ==
    CASE b = "up" -> 2 [] b = "down" -> 1 [] b = "unup" -> -2 [] b = "undown" -> -1

\* Mutant of ReadKarma: always assigns.
ReadKarmaSet(c) ==
    /\ pc[c] = "karma"
    /\ Goto(c, IF vote[c].karma THEN "setkarma" ELSE "writerel")
    /\ UNCHANGED <<storage, pre, last, queue, lock, msg, vote, conn, unlisted, spam, counters>>

\* Account.incr_karma: is there an attribute for the subreddit yet?
ReadKarma(c) ==
    /\ pc[c] = "karma"
    /\ Goto(c, IF ~vote[c].karma THEN "writerel"
               ELSE IF karma = Unset THEN "setkarma" ELSE "incrkarma")
    /\ UNCHANGED <<storage, pre, last, queue, lock, msg, vote, conn, unlisted, spam, counters>>

ChangeKarma(c, from, value) ==
    /\ pc[c] = from
    /\ karma' = value
    /\ Goto(c, "writerel")
    /\ UNCHANGED <<details, rel, ups, downs, liked, disliked>>
    /\ UNCHANGED <<pre, last, queue, lock, msg, vote, conn, unlisted, spam, counters>>

SetKarma(c) == ChangeKarma(c, "setkarma", DefaultKarma + KarmaChange(msg[c].button))

IncrKarma(c) == ChangeKarma(c, "incrkarma", karma + KarmaChange(msg[c].button))

\* write_vote: the column of the relation, then its view.
WriteRel(c) ==
    /\ pc[c] = "writerel"
    /\ rel' = [rel EXCEPT ![msg[c].user] = msg[c].direction]
    /\ Goto(c, "writedetails")
    /\ UNCHANGED <<details, ups, downs, karma, liked, disliked>>
    /\ UNCHANGED <<pre, last, queue, lock, msg, vote, conn, unlisted, spam, counters>>

WriteDetails(c) ==
    /\ pc[c] = "writedetails"
    /\ details' = [details EXCEPT ![msg[c].user] =
                     [direction |-> msg[c].direction,
                      score |-> vote[c].score, karma |-> vote[c].karma]]
    /\ Goto(c, AfterCommit)
    /\ UNCHANGED <<rel, ups, downs, karma, liked, disliked>>
    /\ UNCHANGED <<pre, last, queue, lock, msg, vote, conn, unlisted, spam, counters>>

\* update_user_liked, links only.
UpdateUserLiked(c) ==
    LET u == msg[c].user
        b == msg[c].button
    IN  /\ pc[c] = "liked"
        /\ liked' = (liked \ IF b = "unup" /\ vote[c].known THEN {u} ELSE {})
                      \cup (IF b = "up" THEN {u} ELSE {})
        /\ disliked' = (disliked \ IF b = "undown" /\ vote[c].known THEN {u} ELSE {})
                         \cup (IF b = "down" THEN {u} ELSE {})
        /\ Goto(c, "unlock")
        /\ UNCHANGED <<details, rel, ups, downs, karma>>
        /\ UNCHANGED <<pre, last, queue, lock, msg, vote, conn, unlisted, spam, counters>>

Unlock(c) ==
    /\ pc[c] = "unlock"
    /\ lock' = [lock EXCEPT ![msg[c].user] = IF @ = c THEN None ELSE @]
    /\ Goto(c, "notify")
    /\ UNCHANGED <<storage, pre, last, queue, msg, vote, conn, unlisted, spam, counters>>

\* Mutant of Notify: nothing to do for a vote that was there already.
NotifyNew(c) ==
    /\ pc[c] = "notify"
    /\ unlisted' = (unlisted /\ vote[c].again)
    /\ Goto(c, "ack")
    /\ UNCHANGED <<storage, pre, last, queue, lock, msg, vote, conn, spam, counters>>

\* add_to_*_query_q, add_queries: only for a valid vote.
Notify(c) ==
    LET automatic == msg[c].user = Author /\ ~vote[c].known
    IN  /\ pc[c] = "notify"
        /\ unlisted' = (unlisted /\ ~(automatic \/ vote[c].score))
        /\ Goto(c, "ack")
        /\ UNCHANGED <<storage, pre, last, queue, lock, msg, vote, conn, spam, counters>>

\* basic_ack; over a lost connection it raises and the process starts anew.
Ack(c) ==
    /\ pc[c] = "ack"
    /\ msg' = [msg EXCEPT ![c] = None]
    /\ vote' = [vote EXCEPT ![c] = NoDraft]
    /\ conn' = [conn EXCEPT ![c] = TRUE]
    /\ Goto(c, "idle")
    /\ UNCHANGED <<storage, pre, last, queue, lock, unlisted, spam, counters>>

-----------------------------------------------------------------------------
(* The environment                                                         *)

\* c has changed a counter and not stored the vote yet.
InWindow(c) == pc[c] \in {"karma", "setkarma", "incrkarma", "writerel", "writedetails"}

Crash(c) ==
    /\ pc[c] # "idle"
    /\ Fault(IF InWindow(c) THEN "windowcrash" ELSE "crash")
    /\ Die(c)

\* The broker loses the connection and requeues what c is still working on.
LostConn(c) ==
    /\ pc[c] # "idle"
    /\ conn[c]
    /\ Fault("lostconn")
    /\ conn' = [conn EXCEPT ![c] = FALSE]
    /\ queue' = <<msg[c]>> \o queue
    /\ UNCHANGED <<storage, pre, last, lock, pc, msg, vote, unlisted, spam, casts>>

\* A lock's entry reaches its TTL, its holder dead or still at work.
LockExpires(u) ==
    /\ lock[u] # None
    /\ \/ lock[u] = "dead" /\ UNCHANGED faults
       \/ lock[u] # "dead" /\ Fault("expire")
    /\ lock' = [lock EXCEPT ![u] = None]
    /\ UNCHANGED <<storage, pre, last, queue, pc, msg, vote, conn, unlisted, spam, casts>>

\* An admin shadowbans a user or lifts the ban.
SetSpam(u) ==
    /\ Fault("spam")
    /\ spam' = IF u \in spam THEN spam \ {u} ELSE spam \cup {u}
    /\ UNCHANGED <<storage, pre, last, queue, lock, pc, msg, vote, conn, unlisted, casts>>

ProcessMessage(c) ==
    \/ Lock(c) \/ TimeoutExpired(c)
    \/ ReadPrevious(c)
    \/ ApplyScore(c) \/ ReadKarma(c) \/ SetKarma(c) \/ IncrKarma(c)
    \/ WriteRel(c) \/ WriteDetails(c)
    \/ UpdateUserLiked(c) \/ Unlock(c)
    \/ Notify(c) \/ Ack(c)

Next ==
    /\ \/ \E u \in Users :
            \/ \E b \in Buttons : CastVote(u, b) \/ CastVoteLost(u, b)
            \/ GraceEnds(u)
            \/ LockExpires(u)
            \/ SetSpam(u)
       \/ \E c \in Consumers :
            \/ Deliver(c)
            \/ ProcessMessage(c)
            \/ Crash(c)
            \/ LostConn(c)
    /\ UNCHANGED setup

Spec == Init /\ [][Next]_<<setup, vars>>

\* Consumers run and are restarted; keys of memcached reach their TTL.
FairSpec ==
    /\ Spec
    /\ \A c \in Consumers : WF_vars(Deliver(c)) /\ WF_vars(ProcessMessage(c))
    /\ \A u \in Users : WF_vars(LockExpires(u)) /\ WF_vars(GraceEnds(u))

-----------------------------------------------------------------------------
(* Properties                                                              *)

NoneInWindow == \A c \in Consumers : ~InWindow(c)

(***************************************************************************)
(* Vote.apply_effects counts every vote once: but for a consumer between   *)
(* _incr and write_vote, _ups and _downs are the numbers of users whose    *)
(* stored state has that bit on, through redeliveries and crashes.         *)
(***************************************************************************)
TallyExact ==
    NoneInWindow => ups = UpTally(details) /\ downs = DownTally(details)

(***************************************************************************)
(* vote.py:204 "previous_vote accounted for in affects_karma": the author  *)
(* has two points for every "insightful" and one for every "funny" vote in *)
(* force, and none for votes of his own.                                   *)
(***************************************************************************)
KarmaExact ==
    NoneInWindow =>
        (IF karma = Unset THEN DefaultKarma ELSE karma)
          = (IF InitKarma = Unset THEN DefaultKarma ELSE InitKarma) + KarmaTally(details)

(***************************************************************************)
(* voting.py:211 "create the vote and update the voter's liked/disliked    *)
(* under lock so that the vote state and cached query are consistent": the *)
(* two agree whenever no vote of the user is on its way.                   *)
(***************************************************************************)
LikedMatchesVote ==
    Kind = "link" =>
      \A u \in Users :
         Settled(u) => /\ u \in liked <=> UpOn(details[u])
                       /\ u \in disliked <=> DownOn(details[u])

\* get_likes: the queued vote if there is one, else the stored relation.
Likes(u) == IF pre[u] # None THEN pre[u] ELSE rel[u]

(***************************************************************************)
(* voting.py:45 "set the vote in memcached so the UI gets updated          *)
(* immediately": a user sees the last vote he cast, before, while and      *)
(* after it is processed.                                                  *)
(***************************************************************************)
SeesOwnVote == \A u \in Users : Likes(u) = last[u]

(***************************************************************************)
(* All that a voter is shown of his vote agrees with it: the arrows        *)
(* (get_likes) and the lists of what he liked and disliked.                *)
(***************************************************************************)
VoterSeesVote == LikedMatchesVote /\ SeesOwnVote

(***************************************************************************)
(* No change of the score is forgotten by the listings: when all votes are *)
(* processed a refresh was queued after the last change, even if the       *)
(* consumer that made it died before it came to that.                      *)
(***************************************************************************)
ListingsFollow == (\A u \in Users : Settled(u)) => ~unlisted

(***************************************************************************)
(* Every vote that reached the queue is processed, whatever fails, and the *)
(* stored state becomes the one the user asked for last.                   *)
(***************************************************************************)
VotesLand ==
    <>[]\A u \in Users : Settled(u) /\ DirectionOf(details[u]) = last[u]

=============================================================================
