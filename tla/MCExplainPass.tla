---- MODULE MCExplainPass ----
(* Three statements: two siblings in one database and one in another.      *)
EXTENDS ExplainPass, TLC

CONSTANTS d1, d2, d3, db1, db2

MCDatabaseOf == (d1 :> db1) @@ (d2 :> db1) @@ (d3 :> db2)
MCKeyOf == (d1 :> d1) @@ (d2 :> d1) @@ (d3 :> d3)
====
