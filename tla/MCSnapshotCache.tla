---- MODULE MCSnapshotCache ----
(* A PostgreSQL caller, a MySQL caller with a live table count, and one    *)
(* that could not read the RAM.                                            *)
EXTENDS SnapshotCache

MCInputs == {[ram |-> 1, tables |-> NoCount], [ram |-> 3, tables |-> 2], [ram |-> 0, tables |-> 1]}
MCSummaries == {[tables |-> 1, size |-> 1], [tables |-> 2, size |-> 7]}
====
