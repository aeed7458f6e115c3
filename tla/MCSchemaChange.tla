--------------------------- MODULE MCSchemaChange ---------------------------
(* Statements that differ from a plain native ALTER in what one decision of *)
(* the code looks at, alone and in pairs.                                   *)
EXTENDS SchemaChange

Plain ==
  [schema |-> "analysed", complete |-> TRUE, valid |-> TRUE, engine |-> "InnoDB",
   online |-> TRUE, ptosc |-> FALSE, backup |-> FALSE, pitr |-> TRUE, physical |-> FALSE,
   size |-> 10, kind |-> "alter", table |-> "same", objects |-> "one", references |-> TRUE,
   text |-> "plain", algorithm |-> "absent", lock |-> "absent", portable |-> TRUE]

Either == [Plain EXCEPT !.ptosc = TRUE]
Offline == [Plain EXCEPT !.ptosc = TRUE, !.online = FALSE, !.backup = TRUE, !.physical = TRUE]
Dumped == [Either EXCEPT !.backup = TRUE, !.table = "case"]

Variants ==
  {[Plain EXCEPT !.schema = ""], [Plain EXCEPT !.complete = FALSE],
   [Plain EXCEPT !.valid = FALSE], [Plain EXCEPT !.engine = ""],
   [Plain EXCEPT !.online = FALSE], [Dumped EXCEPT !.pitr = FALSE],
   [Plain EXCEPT !.kind = "other"], [Plain EXCEPT !.table = "other"],
   [Plain EXCEPT !.objects = "rename"], [Plain EXCEPT !.objects = "exchange", !.kind = "index"],
   [Plain EXCEPT !.references = FALSE], [Either EXCEPT !.text = "comment"],
   [Either EXCEPT !.algorithm = "blocking"], [Either EXCEPT !.lock = "blocking"],
   [Plain EXCEPT !.lock = "blocking"], [Either EXCEPT !.algorithm = "unknown"],
   [Either EXCEPT !.lock = "twice"], [Either EXCEPT !.algorithm = "blocking", !.portable = FALSE],
   [Offline EXCEPT !.portable = FALSE], [Offline EXCEPT !.size = 45],
   [Plain EXCEPT !.schema = "different", !.engine = "MyISAM"]}

MCTasks ==
  {<<>>} \cup {<<s>> : s \in Variants}
    \cup {<<s, t>> : s, t \in {Plain, Either, Offline, Dumped}}
    \cup {<<Either, Dumped, Plain>>}

MCServers ==
  {[checks |-> TRUE, shared |-> sh, total |-> 100, database |-> 20, buffer |-> 20,
    free |-> 50, room |-> 60, caseless |-> TRUE, scratch |-> TRUE] : sh \in BOOLEAN}
  \cup {[checks |-> FALSE, shared |-> FALSE, total |-> 100, database |-> 20, buffer |-> 20,
    free |-> 5, room |-> 5, caseless |-> FALSE, scratch |-> b] : b \in BOOLEAN}

=============================================================================
