--------------------------- MODULE MCMemcacheLock ---------------------------
(* Instances of MemcacheLock for TLC. *)
EXTENDS MemcacheLock

\* Threads of different processes, or at different call sites.
DistinctNonces == [t \in Threads |-> t]

=============================================================================
