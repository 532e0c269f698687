------------------------------ MODULE MCVoting ------------------------------
(* Instances of Voting for TLC: a link, whose author may vote for it, with *)
(* two consumers, and a comment, whose author may not, with one.           *)
EXTENDS Voting

LinkCase == [kind |-> "link", selfvote |-> TRUE, consumers |-> Consumers, karma |-> 0,
             legacy |-> {"up", "down", "unvote"}]

\* Comment votes are not processed under a lock.
CommentCase == [kind |-> "comment", selfvote |-> FALSE,
                consumers |-> {CHOOSE c \in Consumers : TRUE}, karma |-> Unset,
                legacy |-> {}]

LinkAndComment == {LinkCase, CommentCase}
LinkOnly == {[LinkCase EXCEPT !.legacy = {}]}
NewInSubreddit == {[LinkCase EXCEPT !.karma = Unset, !.legacy = {}]}
=============================================================================
