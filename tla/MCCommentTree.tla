---------------------------- MODULE MCCommentTree ----------------------------
(* Instances of CommentTree for TLC: a top-level comment, a reply to it,   *)
(* and another top-level comment.                                          *)
EXTENDS CommentTree

CONSTANTS top, reply, other

Thread == [c \in Comments |-> IF c = reply THEN top ELSE None]
=============================================================================
