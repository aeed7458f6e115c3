---- MODULE MCTaskLifecycle ----
(* Instances of TaskLifecycle for TLC.                                     *)
EXTENDS TaskLifecycle

LocalAndManaged ==
  {[instance |-> "local", execDDL |-> TRUE], [instance |-> "aws/rds", execDDL |-> FALSE]}
CloudSQL == {[instance |-> "gcp/cloudsql", execDDL |-> TRUE]}
====
