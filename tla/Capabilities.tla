--------------------------- MODULE Capabilities ---------------------------
(***************************************************************************)
(* The agent's cache of what pg_stat_statements looks like                 *)
(* (metrics/postgresql/capabilities.go): which schema it is installed in   *)
(* and which columns it has.  Collectors resolve it under a read-write     *)
(* mutex, build their queries from the snapshot they get, and drop the     *)
(* cached one when a query names something the server does not know.      *)
(* Meanwhile the extension is moved, upgraded or dropped by others.       *)
(***************************************************************************)
EXTENDS Naturals

CONSTANTS
  Collectors,   \* collections that may run at the same time
  Schemas,      \* schemas the extension may be installed in
  Columns,      \* sets of columns it may have, none fit for the queries of another
  Found,        \* what an agent may find installed when it starts
  None,
  MaxChanges    \* bound: how often the extension changes

ASSUME ChangesAssumption == MaxChanges \in Nat
ASSUME FoundAssumption == Found \subseteq (Schemas \X Columns) \cup {None}
ASSUME NoneAssumption ==
  /\ None \notin Collectors \cup Schemas \cup (Schemas \X Columns)
  /\ None \notin [form : Schemas \X Columns, old : BOOLEAN]

VARIABLES
  installed,    \* <<schema, columns>> of the extension now, or None
  changes,      \* how often it changed
  cached,       \* the cached snapshot, or None
  lock,         \* the collector that holds the mutex for writing, or None
  at,           \* where in Resolve or after it each collector is
  sees          \* the snapshot it works on

capVars == <<installed, changes, cached, lock, at, sees>>

Forms == Schemas \X Columns
Steps == {"idle", "missed", "lookup", "columns", "using", "invalidate", "resolved"}

\* A snapshot; "old" once the cache was invalidated after its detection began.
Snapshots == [form : Forms, old : BOOLEAN]

CapInit ==
  /\ installed \in Found
  /\ changes = 0
  /\ cached = None
  /\ lock = None
  /\ at = [c \in Collectors |-> "idle"]
  /\ sees = [c \in Collectors |-> None]

\* Someone installs, moves, upgrades or drops the extension (external).
Change ==
  /\ changes < MaxChanges
  /\ changes' = changes + 1
  /\ installed' \in (Forms \cup {None}) \ {installed}
  /\ UNCHANGED <<cached, lock, at, sees>>

Gets(c, snapshot, step) ==
  /\ sees' = [sees EXCEPT ![c] = snapshot]
  /\ at' = [at EXCEPT ![c] = step]

\* Resolve, under the read lock: the cached snapshot, or a miss.
Resolve(c) ==
  /\ at[c] = "idle" /\ lock = None
  /\ IF cached = None THEN Gets(c, None, "missed") ELSE Gets(c, cached, "using")
  /\ UNCHANGED <<installed, changes, cached, lock>>

\* Resolve, having taken the write lock: another collector may have been
\* faster; else the detection begins, under the lock.
Lock(c) ==
  /\ at[c] = "missed" /\ lock = None
  /\ IF cached = None THEN lock' = c /\ Gets(c, None, "lookup")
                      ELSE lock' = lock /\ Gets(c, cached, "using")
  /\ UNCHANGED <<installed, changes, cached>>

\* A detection that fails is not cached, and the queries are left out.
DetectionFails(c) ==
  /\ at[c] \in {"lookup", "columns"}
  /\ lock' = None
  /\ Gets(c, None, "resolved")
  /\ UNCHANGED <<installed, changes, cached>>

\* The server version, which is asked once, and the schema of the extension.
Lookup(c) ==
  /\ at[c] = "lookup" /\ installed # None
  /\ Gets(c, [form |-> installed, old |-> FALSE], "columns")
  /\ UNCHANGED <<installed, changes, cached, lock>>

\* The columns of the relation in that schema; the snapshot is cached.
InspectColumns(c) ==
  /\ at[c] = "columns"
  /\ installed # None /\ installed[1] = sees[c].form[1]
  /\ Gets(c, [sees[c] EXCEPT !.form = installed], "using")
  /\ cached' = sees'[c]
  /\ lock' = None
  /\ UNCHANGED <<installed, changes>>

Fits(c) == sees[c].form = installed

\* Mutant: only a missing relation tells that the snapshot is wrong.
InvalidatingRelationOnly(c) == installed = None \/ installed[1] # sees[c].form[1]

\* undefined_table (42P01) and undefined_column (42703) drop the cache; any
\* other error, like a success, leaves it alone.
Invalidating(c) == ~Fits(c)
Query(c) ==
  /\ at[c] = "using"
  /\ at' = [at EXCEPT ![c] = IF Invalidating(c) THEN "invalidate" ELSE "resolved"]
  /\ UNCHANGED <<installed, changes, cached, lock, sees>>

\* Mutant: the cache is dropped without waiting for a detection under way.
MayInvalidateAnyTime(c) == at[c] = "invalidate"
MayInvalidate(c) == at[c] = "invalidate" /\ lock = None

Aged(snapshot) == IF snapshot = None THEN None ELSE [snapshot EXCEPT !.old = TRUE]
Invalidate(c) ==
  /\ MayInvalidate(c)
  /\ cached' = None
  /\ sees' = [d \in Collectors |-> Aged(sees[d])]
  /\ at' = [at EXCEPT ![c] = "resolved"]
  /\ UNCHANGED <<installed, changes, lock>>

CapStep(c) ==
  \/ Resolve(c) \/ Lock(c) \/ DetectionFails(c) \/ Lookup(c) \/ InspectColumns(c)
  \/ Query(c) \/ Invalidate(c)

CapTypeOK ==
  /\ installed \in Forms \cup {None}
  /\ changes \in 0..MaxChanges
  /\ cached \in Snapshots \cup {None}
  /\ lock \in Collectors \cup {None}
  /\ at \in [Collectors -> Steps]
  /\ sees \in [Collectors -> Snapshots \cup {None}]

\* What is cached was detected after the cache was last invalidated: a slow
\* detection never brings back what another collector has just found wrong.
NoInvalidatedSnapshot == cached # None => ~cached.old
=============================================================================
