---------------------------- MODULE MCThingCommit ----------------------------
(* Instances of ThingCommit for TLC: a base counter (ups), a data counter  *)
(* (num_comments) and an assigned data property (flag).                    *)
EXTENDS ThingCommit, TLC

Zero == [q \in Props |-> 0]

\* The processes are alike.
Alike == Permutations(Procs)

\* Amounts votes and comment counts change by.
UpDown == {1, -1}
=============================================================================
