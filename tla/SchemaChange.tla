---------------------------- MODULE SchemaChange ----------------------------
(***************************************************************************)
(* A task of type 6: tasks.ApplySchemaChanges and phase2.Executor.         *)
(*                                                                         *)
(* Every statement of the task is validated, backed up if the task asks    *)
(* for it, and applied natively (Online DDL, tried first on an empty clone *)
(* of the table, on one pinned connection whose lock_wait_timeout is       *)
(* shortened) or by pt-online-schema-change.  A command sent to the        *)
(* database is answered, answered with an error, or loses its connection;  *)
(* after a loss the database may still carry out what it was sent.  Other  *)
(* goroutines take connections from the same pool, and the agent may die   *)
(* at any step.                                                            *)
(*                                                                         *)
(* A statement is a record of what the code tells apart: the flags of the  *)
(* analysis and the form of its text.                                      *)
(***************************************************************************)
EXTENDS Integers, Sequences, FiniteSets

CONSTANTS
  Conns,       \* connections the pool models.DB may open
  NoConn,      \* no connection is pinned
  Tasks,       \* the tasks the server may send: sequences of statements
  Servers,     \* configurations and machines the agent may run with
  MaxLength    \* the longest task

StatementType ==
  [schema : {"", "analysed", "different"},     \* schema_name against the analysis
   complete : BOOLEAN,                         \* DDL text and analysed names present
   valid : BOOLEAN,                            \* syntax_valid
   engine : {"", "InnoDB", "MyISAM"},
   online : BOOLEAN, ptosc : BOOLEAN,          \* ok_online_ddl, ok_pt_osc
   backup : BOOLEAN, pitr : BOOLEAN, physical : BOOLEAN,
   size : Nat,                                 \* data and indexes of the table
   kind : {"alter", "index", "other"},
   table : {"same", "case", "other"},          \* table of the DDL against the target
   objects : {"one", "rename", "exchange"},    \* tables an ALTER touches
   references : BOOLEAN,                       \* REFERENCES can be read
   text : {"plain", "comment", "quote", "several"},
   algorithm : {"absent", "online", "blocking", "unknown", "twice"},
   lock : {"absent", "none", "blocking", "unknown", "twice"},
   portable : BOOLEAN]                         \* pt-osc can express it

ServerType ==
  [checks : BOOLEAN,          \* disable_space_checks is not set
   shared : BOOLEAN,          \* backup_dir is on the filesystem of the data
   total : Nat, database : Nat, buffer : Nat,
   free : Nat, room : Nat,    \* free at the start: data, backup filesystem
   caseless : BOOLEAN,        \* lower_case_table_names is 1 or 2
   scratch : BOOLEAN]         \* online_ddl_test_schema is not blank

ASSUME SchemaAssumption ==
  /\ NoConn \notin Conns
  /\ MaxLength \in Nat
  /\ Servers \subseteq ServerType
  /\ \A t \in Tasks : t \in Seq(StatementType) /\ Len(t) <= MaxLength

Indices == 1..MaxLength

VARIABLES
  task, server,   \* what the run was given
  pc, at,         \* the next step, and the statement it is about
  failure,        \* how the session on the pinned connection failed
  session,        \* the pinned connection
  broken,         \* it was lost, or discarded with driver.ErrBadConn
  place, wait,    \* per connection: where it is, its lock_wait_timeout
  applied,        \* how often the change of a statement took effect
  pending,        \* statements whose lost DDL the database still works on
  scratch,        \* clones that exist, named by their statement
  backup,         \* "none", "partial" or "complete", per statement
  free, room,     \* free space: of the data, of the backups
  outcome,        \* exit code and status of the task
  reported,       \* how many statements are reported as successful
  warned,         \* statements whose result carries a clean-up warning
  doubtful        \* history: statements that lost a connection or a clean-up

input == <<task, server>>
pool == <<session, broken, place, wait>>
tables == <<applied, pending>>
space == <<backup, free, room>>
verdict == <<outcome, reported>>
notes == <<warned, doubtful>>
vars == <<input, pc, at, failure, pool, tables, scratch, space, verdict, notes>>

Statement == task[at]
Running == pc \notin {"end", "dead"}

-----------------------------------------------------------------------------
(* What the code decides from the text and the flags of a statement.       *)

(* parseTaskDetails: what a statement lacks.  The schema name is required, *)
(* but is not compared with the one of the analysis.                       *)
Malformed(s) == s.schema = "" \/ ~s.complete

(* The exit code with which a statement is refused; 0 lets it pass.        *)
Refusal(s) ==
  CASE ~s.valid -> 4
    [] s.valid /\ s.engine = "" -> 5
    [] s.valid /\ s.engine # "" /\ ~s.online /\ ~s.ptosc -> 5
    [] s.valid /\ s.engine # "" /\ (s.online \/ s.ptosc) /\ s.backup /\ ~s.pitr -> 6
    [] OTHER -> 0

BackupMethod(s) ==
  IF ~s.backup THEN "none" ELSE IF s.physical THEN "xtrabackup" ELSE "mysqldump"

(* rejectUnsafeMultiObjectAlter: other tables than the target.             *)
SingleObject(s) == s.kind = "alter" => s.objects = "one"

(* validateDDLTarget, when the server answers.                             *)
TargetMatches(s, lower) ==
  /\ s.kind # "other"
  /\ s.table = "same" \/ (s.table = "case" /\ lower)
  /\ SingleObject(s)
  /\ s.references

(* Mutant: LOCK clauses are not looked at.                                 *)
BrokenBuildOnlineDDL(s) ==
  CASE s.text # "plain" \/ s.kind = "other" -> "invalid"
    [] s.text = "plain" /\ s.algorithm = "blocking" -> "unsupported"
    [] OTHER -> "ok"

(* buildOnlineDDLSQL: the native statement, or why there is none.          *)
BuildOnlineDDL(s) ==
  IF \/ s.text # "plain" \/ s.kind = "other"
     \/ s.algorithm = "twice" \/ s.lock = "twice"
  THEN "invalid"
  ELSE IF s.algorithm \in {"blocking", "unknown"}
       THEN IF s.algorithm = "blocking" THEN "unsupported" ELSE "invalid"
       ELSE IF s.lock \in {"blocking", "unknown"}
            THEN IF s.lock = "blocking" THEN "unsupported" ELSE "invalid"
            ELSE "ok"

(* buildPTOSCAlterSQL: whether pt-osc can make the same change.            *)
BuildPTOSC(s) == s.text = "plain" /\ s.kind # "other" /\ s.portable

(* validateExecutionPlan: some method has a statement to run.              *)
PlanIsValid(s) ==
  \/ s.online /\ BuildOnlineDDL(s) = "ok"
  \/ s.online /\ BuildOnlineDDL(s) = "unsupported" /\ s.ptosc /\ BuildPTOSC(s)
  \/ ~s.online /\ s.ptosc /\ BuildPTOSC(s)

(* checkDataDirFilesystemCapacity: over a tenth of the data filesystem is  *)
(* free, and with another copy of the table at most nine tenths are used.  *)
DataDirFits(s, srv, unused) ==
  /\ unused * 10 > srv.total
  /\ (srv.total - unused + s.size) * 10 <= srv.total * 9

(* estimateMysqldumpSize, estimateXtrabackupSize.                          *)
EstimatedSize(s, srv) ==
  IF BackupMethod(s) = "mysqldump" THEN 2 * s.size ELSE (srv.database * 12) \div 10

(* checkDiskSpace: the estimate and its buffer.                            *)
BackupFits(s, srv, unused) ==
  EstimatedSize(s, srv) + (EstimatedSize(s, srv) * srv.buffer) \div 100 <= unused

-----------------------------------------------------------------------------
(* The end of a run: ApplySchemaChanges' fail, and its last return.        *)

Fail(code) ==
  /\ pc' = "end"
  /\ outcome' = [code |-> code, status |-> 4]
  /\ UNCHANGED reported

Goto(p) == pc' = p /\ UNCHANGED verdict

Init ==
  /\ task \in Tasks
  /\ server \in Servers
  /\ pc = "parse"
  /\ at = 1
  /\ failure = "none"
  /\ session = NoConn
  /\ broken = FALSE
  /\ place = [c \in Conns |-> "unopened"]
  /\ wait = [c \in Conns |-> "server"]
  /\ applied = [i \in Indices |-> 0]
  /\ pending = {}
  /\ scratch = {}
  /\ backup = [i \in Indices |-> "none"]
  /\ free = server.free
  /\ room = IF server.shared THEN server.free ELSE server.room
  /\ outcome = [code |-> 0, status |-> 3]
  /\ reported = 0
  /\ warned = {}
  /\ doubtful = {}

(* The whole payload is checked before the first statement is looked at.   *)
Parse ==
  /\ pc = "parse"
  /\ IF \E i \in 1..Len(task) : Malformed(task[i])
       THEN Fail(2)
       ELSE IF Len(task) = 0 THEN Fail(3) ELSE Goto("check")
  /\ UNCHANGED <<input, at, failure, pool, tables, scratch, space, notes>>

Check ==
  /\ pc = "check"
  /\ IF Refusal(Statement) # 0 THEN Fail(Refusal(Statement)) ELSE Goto("validate")
  /\ UNCHANGED <<input, at, failure, pool, tables, scratch, space, notes>>

(* The server is asked for lower_case_table_names when only the case of    *)
(* the names differs, and may not answer.                                  *)
Validate ==
  /\ pc = "validate"
  /\ \/ Statement.table = "case" /\ Fail(7)
     \/ /\ TargetMatches(Statement, server.caseless) /\ PlanIsValid(Statement)
        /\ Goto("capacity")
     \/ /\ ~(TargetMatches(Statement, server.caseless) /\ PlanIsValid(Statement))
        /\ Fail(7)
  /\ UNCHANGED <<input, at, failure, pool, tables, scratch, space, notes>>

CheckCapacity ==
  /\ pc = "capacity"
  /\ \/ ~server.checks /\ Goto("backup")
     \/ server.checks /\ DataDirFits(Statement, server, free) /\ Goto("backup")
     \/ server.checks /\ ~DataDirFits(Statement, server, free) /\ Fail(7)
     \/ server.checks /\ Fail(7)     \* a query or the file system fails
  /\ UNCHANGED <<input, at, failure, pool, tables, scratch, space, notes>>

(* performBackup up to the external command.                               *)
PrepareBackup ==
  /\ pc = "backup"
  /\ \/ BackupMethod(Statement) = "none" /\ Goto("method")
     \/ BackupMethod(Statement) # "none" /\ Fail(7)   \* directory, usage, estimate
     \/ /\ BackupMethod(Statement) # "none"
        /\ server.checks /\ ~BackupFits(Statement, server, room)
        /\ Fail(7)
     \/ /\ BackupMethod(Statement) # "none"
        /\ server.checks => BackupFits(Statement, server, room)
        /\ Goto(IF BackupMethod(Statement) = "mysqldump" THEN "dump" ELSE "copy")
  /\ UNCHANGED <<input, at, failure, pool, tables, scratch, space, notes>>

Less(a, b) == IF b <= a THEN a - b ELSE 0

(* The external command writes a backup of the estimated size.             *)
Writes(state) ==
  /\ backup' = [backup EXCEPT ![at] = state]
  /\ room' = Less(room, EstimatedSize(Statement, server))
  /\ free' = IF server.shared THEN Less(free, EstimatedSize(Statement, server)) ELSE free

(* backupWithMysqldump.                                                    *)
Dump ==
  /\ pc = "dump"
  /\ \/ Writes("complete") /\ Goto("method")
     \/ Writes("partial") /\ Fail(7)
  /\ UNCHANGED <<input, at, failure, pool, tables, scratch, notes>>

(* Mutant: the copy is taken for a backup.                                 *)
BrokenCopy ==
  /\ pc = "copy"
  /\ \/ Writes("partial") /\ Goto("method")
     \/ Writes("partial") /\ Fail(7)
  /\ UNCHANGED <<input, at, failure, pool, tables, scratch, notes>>

(* backupWithXtrabackup: the copy, of no use before it is prepared.        *)
Copy ==
  /\ pc = "copy"
  /\ \/ Writes("partial") /\ Goto("prepare")
     \/ Writes("partial") /\ Fail(7)
  /\ UNCHANGED <<input, at, failure, pool, tables, scratch, notes>>

Prepare ==
  /\ pc = "prepare"
  /\ \/ backup' = [backup EXCEPT ![at] = "complete"] /\ Goto("method")
     \/ UNCHANGED backup /\ Fail(7)
  /\ UNCHANGED <<input, at, failure, pool, tables, scratch, free, room, notes>>

(* Execute's choice, and executeWithOnlineDDL up to the first command.     *)
ChooseMethod ==
  /\ pc = "method"
  /\ LET sql == BuildOnlineDDL(Statement) IN
       \/ ~Statement.online /\ Goto("dryrun")
       \/ Statement.online /\ server.scratch /\ sql = "ok" /\ Goto("pin")
       \/ /\ Statement.online /\ server.scratch
          /\ sql = "unsupported" /\ Statement.ptosc
          /\ Goto("dryrun")
       \/ /\ Statement.online
          /\ ~server.scratch \/ sql = "invalid" \/ (sql = "unsupported" /\ ~Statement.ptosc)
          /\ Fail(7)
  /\ UNCHANGED <<input, at, failure, pool, tables, scratch, space, notes>>

-----------------------------------------------------------------------------
(* The session: withPinnedLockWaitTimeout and its callback.                *)

(* database/sql hands out an idle connection, or opens one when there is   *)
(* none.                                                                   *)
Available(c) ==
  \/ place[c] = "idle"
  \/ place[c] = "unopened" /\ \A d \in Conns : place[d] # "idle"

(* The session answers, and goes on to step p.                             *)
Answers(p) == ~broken /\ Goto(p) /\ UNCHANGED <<failure, broken, doubtful>>

(* The command ends with an error of the server, of kind k; p is where the *)
(* deferred functions registered so far begin.                             *)
Refuses(k, p) ==
  /\ ~broken
  /\ failure' = k
  /\ Goto(p)
  /\ UNCHANGED <<broken, doubtful>>

(* Mutant: a lost command is sent again on the same connection.            *)
BrokenLoses(p) ==
  /\ failure' = "other"
  /\ broken' = TRUE
  /\ doubtful' = doubtful \cup {at}
  /\ Goto(pc)

(* The connection is lost under the command, or was lost before it.        *)
Loses(p) ==
  /\ failure' = "other"
  /\ broken' = TRUE
  /\ doubtful' = doubtful \cup {at}
  /\ Goto(p)

Pin ==
  /\ pc = "pin"
  /\ \/ Fail(7) /\ UNCHANGED <<session, place>>
     \/ \E c \in Conns :
          /\ Available(c)
          /\ session' = c
          /\ place' = [place EXCEPT ![c] = "pinned"]
          /\ Goto("read")
  /\ UNCHANGED <<input, at, failure, broken, wait, tables, scratch, space, notes>>

ReadTimeout ==
  /\ pc = "read"
  /\ Answers("shorten") \/ Refuses("other", "close") \/ Loses("close")
  /\ UNCHANGED <<input, at, session, place, wait, tables, scratch, space, warned>>

ShortenTimeout ==
  /\ pc = "shorten"
  /\ \/ Answers("schema") /\ wait' = [wait EXCEPT ![session] = "short"]
     \/ Refuses("other", "close") /\ UNCHANGED wait
     \/ Loses("close") /\ wait' \in {wait, [wait EXCEPT ![session] = "short"]}
  /\ UNCHANGED <<input, at, session, place, tables, scratch, space, warned>>

CreateSchema ==
  /\ pc = "schema"
  /\ Answers("clone") \/ Refuses("other", "restore") \/ Loses("restore")
  /\ UNCHANGED <<input, at, session, place, wait, tables, scratch, space, warned>>

(* CREATE TABLE ... LIKE.  The clean-up is deferred only once it answered. *)
CreateClone ==
  /\ pc = "clone"
  /\ \/ Answers("preflight") /\ scratch' = scratch \cup {at}
     \/ Refuses("other", "restore") /\ UNCHANGED scratch
     \/ Loses("restore") /\ scratch' \in {scratch, scratch \cup {at}}
  /\ UNCHANGED <<input, at, session, place, wait, tables, space, warned>>

(* Mutant: the clone is dropped after a successful preflight only.         *)
BrokenPreflight ==
  /\ pc = "preflight"
  /\ \/ Answers("production")
     \/ \E k \in {"unsupported", "other"} : Refuses(k, "restore")
     \/ Loses("restore")
  /\ UNCHANGED <<input, at, session, place, wait, tables, scratch, space, warned>>

Preflight ==
  /\ pc = "preflight"
  /\ \/ Answers("production")
     \/ \E k \in {"unsupported", "other"} : Refuses(k, "drop")
     \/ Loses("drop")
  /\ UNCHANGED <<input, at, session, place, wait, tables, scratch, space, warned>>

(* The DDL on the table itself.  Without an answer the database may have   *)
(* made the change, may never make it, or may still be at it.              *)
Production ==
  /\ pc = "production"
  /\ \/ /\ Answers("drop")
        /\ applied' = [applied EXCEPT ![at] = @ + 1]
        /\ UNCHANGED pending
     \/ /\ \E k \in {"unsupported", "other"} : Refuses(k, "drop")
        /\ UNCHANGED tables
     \/ /\ Loses("drop")
        /\ pending' = pending \cup {at}
        /\ UNCHANGED applied
  /\ UNCHANGED <<input, at, session, place, wait, scratch, space, warned>>

(* cleanupOnlineDDLTestTable.  After the time-out the session is           *)
(* discarded, and the database may drop the clone all the same.            *)
DropClone ==
  /\ pc = "drop"
  /\ \/ /\ ~broken
        /\ scratch' = scratch \ {at}
        /\ UNCHANGED <<broken, notes>>
     \/ /\ ~broken
        /\ UNCHANGED <<scratch, broken>>
        /\ warned' = warned \cup {at}
        /\ doubtful' = doubtful \cup {at}
     \/ /\ scratch' \in (IF broken THEN {scratch} ELSE {scratch, scratch \ {at}})
        /\ broken' = TRUE
        /\ warned' = warned \cup {at}
        /\ doubtful' = doubtful \cup {at}
  /\ Goto("restore")
  /\ UNCHANGED <<input, at, failure, session, place, wait, tables, space>>

(* Mutant: the session is not discarded.                                   *)
BrokenRestoreTimeout ==
  /\ pc = "restore"
  /\ \/ /\ ~broken
        /\ wait' = [wait EXCEPT ![session] = "server"]
        /\ UNCHANGED <<broken, warned>>
     \/ /\ UNCHANGED <<wait, broken>>
        /\ warned' = warned \cup {at}
  /\ Goto("close")
  /\ UNCHANGED <<input, at, failure, session, place, tables, scratch, space, doubtful>>

(* The deferred restoration: a session whose time-out could not be         *)
(* restored is marked bad.                                                 *)
RestoreTimeout ==
  /\ pc = "restore"
  /\ \/ /\ ~broken
        /\ wait' = [wait EXCEPT ![session] = "server"]
        /\ UNCHANGED <<broken, warned>>
     \/ /\ broken' = TRUE
        /\ warned' = warned \cup {at}
        /\ UNCHANGED wait
  /\ Goto("close")
  /\ UNCHANGED <<input, at, failure, session, place, tables, scratch, space, doubtful>>

(* Mutant: any failure falls back.                                         *)
BrokenFallsBack(s) == s.ptosc /\ failure # "none"

(* isOnlineDDLUnsupported, and that pt-osc is allowed.                     *)
FallsBack(s) == s.ptosc /\ failure = "unsupported"

(* conn.Close, and what Execute makes of the error.  The warnings of a     *)
(* failed statement are dropped with its result.                           *)
CloseSession ==
  /\ pc = "close"
  /\ place' = [place EXCEPT ![session] = IF broken THEN "gone" ELSE "idle"]
  /\ session' = NoConn
  /\ broken' = FALSE
  /\ failure' = "none"
  /\ \/ failure = "none" /\ Goto("next") /\ UNCHANGED warned
     \/ failure # "none" /\ FallsBack(Statement) /\ Goto("dryrun") /\ UNCHANGED warned
     \/ /\ failure # "none" /\ ~FallsBack(Statement)
        /\ Fail(7)
        /\ warned' = warned \ {at}
  /\ UNCHANGED <<input, at, wait, tables, scratch, space, doubtful>>

-----------------------------------------------------------------------------
(* executeWithPTOSC: an external process.                                  *)

DryRun ==
  /\ pc = "dryrun"
  /\ \/ BuildPTOSC(Statement) /\ Goto("execute")
     \/ Fail(7)
  /\ UNCHANGED <<input, at, failure, pool, tables, scratch, space, notes>>

(* pt-osc may fail after it has swapped the tables.                        *)
ExecutePTOSC ==
  /\ pc = "execute"
  /\ \/ applied' = [applied EXCEPT ![at] = @ + 1] /\ Goto("next")
     \/ applied' \in {applied, [applied EXCEPT ![at] = @ + 1]} /\ Fail(7)
  /\ UNCHANGED <<input, at, failure, pool, pending, scratch, space, notes>>

(* The end of an iteration of ApplySchemaChanges.                          *)
NextStatement ==
  /\ pc = "next"
  /\ reported' = at
  /\ at' = at + 1
  /\ pc' = IF at = Len(task) THEN "succeed" ELSE "check"
  /\ UNCHANGED <<input, failure, pool, tables, scratch, space, outcome, notes>>

Succeed ==
  /\ pc = "succeed"
  /\ pc' = "end"
  /\ outcome' = [code |-> 0, status |-> 1]
  /\ UNCHANGED <<input, at, failure, pool, tables, scratch, space, reported, notes>>

-----------------------------------------------------------------------------
(* Everybody else.                                                         *)

(* The database ends a DDL whose connection is gone, in either way.        *)
ServerFinishes(i) ==
  /\ i \in pending
  /\ pending' = pending \ {i}
  /\ applied' \in {applied, [applied EXCEPT ![i] = @ + 1]}
  /\ UNCHANGED <<input, pc, at, failure, pool, scratch, space, verdict, notes>>

(* A gatherer takes a connection from the same pool and gives it back.     *)
Borrow(c) ==
  /\ Running
  /\ Available(c)
  /\ place' = [place EXCEPT ![c] = "lent"]
  /\ UNCHANGED <<input, pc, at, failure, session, broken, wait,
                 tables, scratch, space, verdict, notes>>

GiveBack(c) ==
  /\ place[c] = "lent"
  /\ place' = [place EXCEPT ![c] = "idle"]
  /\ UNCHANGED <<input, pc, at, failure, session, broken, wait,
                 tables, scratch, space, verdict, notes>>

(* The agent dies.  Connections go; what was sent may still be carried     *)
(* out; pt-osc is a process of its own.                                    *)
Crash ==
  /\ Running
  /\ pc' = "dead"
  /\ place' = [c \in Conns |-> "gone"]
  /\ pending' \in IF pc \in {"production", "execute"}
                  THEN {pending, pending \cup {at}} ELSE {pending}
  /\ scratch' \in IF pc = "clone" THEN {scratch, scratch \cup {at}}
                  ELSE IF pc = "drop" THEN {scratch, scratch \ {at}} ELSE {scratch}
  /\ doubtful' = doubtful \cup ({at} \cap Indices)
  /\ UNCHANGED <<input, at, failure, session, broken, wait, applied, space,
                 verdict, warned>>

Run ==
  \/ Parse \/ Check \/ Validate \/ CheckCapacity
  \/ PrepareBackup \/ Dump \/ Copy \/ Prepare \/ ChooseMethod
  \/ Pin \/ ReadTimeout \/ ShortenTimeout \/ CreateSchema \/ CreateClone
  \/ Preflight \/ Production \/ DropClone \/ RestoreTimeout \/ CloseSession
  \/ DryRun \/ ExecutePTOSC \/ NextStatement \/ Succeed

Next ==
  \/ Run
  \/ \E i \in Indices : ServerFinishes(i)
  \/ \E c \in Conns : Borrow(c) \/ GiveBack(c)
  \/ Crash

Spec == Init /\ [][Next]_vars

(* The run is one goroutine; its clean-up commands have a time-out of five *)
(* seconds, native DDL a lock_wait_timeout, and the external commands end. *)
(* Gatherers give back what they borrow.                                   *)
FairSpec ==
  /\ Spec
  /\ WF_vars(Run)
  /\ \A c \in Conns : WF_vars(GiveBack(c))

-----------------------------------------------------------------------------
(* Properties.                                                             *)

TypeOK ==
  /\ task \in Tasks /\ server \in Servers
  /\ pc \in {"parse", "check", "validate", "capacity", "backup", "dump", "copy",
             "prepare", "method", "pin", "read", "shorten", "schema", "clone",
             "preflight", "production", "drop", "restore", "close", "dryrun",
             "execute", "next", "succeed", "end", "dead"}
  /\ at \in 1..MaxLength + 1
  /\ failure \in {"none", "unsupported", "other"}
  /\ session \in Conns \cup {NoConn}
  /\ broken \in BOOLEAN
  /\ place \in [Conns -> {"unopened", "idle", "pinned", "lent", "gone"}]
  /\ wait \in [Conns -> {"server", "short"}]
  /\ applied \in [Indices -> Nat]
  /\ pending \subseteq Indices /\ scratch \subseteq Indices
  /\ backup \in [Indices -> {"none", "partial", "complete"}]
  /\ free \in Nat /\ room \in Nat
  /\ outcome \in [code : 0..7, status : {1, 3, 4}]
  /\ reported \in 0..MaxLength
  /\ warned \subseteq Indices /\ doubtful \subseteq Indices

(* The change of a statement takes effect at most once, also when its      *)
(* connection is lost under the DDL, or pt-osc takes over from a native    *)
(* attempt.                                                                *)
Doubt(i) == IF i \in pending THEN 1 ELSE 0
AppliedAtMostOnce == \A i \in Indices : applied[i] + Doubt(i) <= 1

(* A table whose change asked for a backup is touched only after the       *)
(* backup of that statement was completed, not merely begun.               *)
BackedUpFirst ==
  \A i \in Indices :
    (applied[i] > 0 \/ i \in pending) /\ task[i].backup => backup[i] = "complete"

(* Nobody else ever finds a connection in the pool that gives up waiting   *)
(* for a lock after twenty seconds.                                        *)
PooledSessionsUntouched ==
  \A c \in Conns : place[c] \in {"idle", "lent"} => wait[c] = "server"

(* A clone outlives its statement only if a connection was lost, a DROP    *)
(* failed, or the agent died; and the one that a statement reported as     *)
(* successful left behind is reported with it.                             *)
ClonesAreDropped ==
  \A i \in scratch :
    /\ i \in doubtful \/ (i = at /\ pc \in {"preflight", "production", "drop"})
    /\ i <= reported => i \in warned

(* Production DDL never carries a blocking clause, hidden commands or a    *)
(* second table, and pt-osc runs only where the analysis allows it and     *)
(* can express the change, whichever way the step was reached.             *)
OnlyAllowedMethods ==
  /\ pc = "production" =>
       /\ Statement.online /\ Statement.text = "plain" /\ SingleObject(Statement)
       /\ Statement.algorithm \in {"absent", "online"}
       /\ Statement.lock \in {"absent", "none"}
  /\ pc = "execute" => Statement.ptosc /\ SingleObject(Statement) /\ BuildPTOSC(Statement)

(* The changes of the task are made in order, each known to be made before *)
(* the next is begun; a failure stops the task, and only the statement     *)
(* that failed is in doubt. A change made twice is none of the changes.    *)
Result ==
  IF Running THEN "running"
  ELSE IF pc = "end" /\ outcome.status = 1 THEN "succeeded" ELSE "failed"

Ordered == INSTANCE OrderedChanges WITH
  Lengths <- {Len(t) : t \in Tasks},
  length <- Len(task),
  made <- {i \in Indices : applied[i] = 1},
  known <- reported,
  result <- Result

ImplementsOrderedChanges == Ordered!Spec

(* The doc: "The Agent rejects an inconsistent payload before starting     *)
(* backup or execution", a payload whose schema_name is not spelled like   *)
(* the analysed one.                                                       *)
InconsistentPayloadRejected ==
  \A i \in Indices :
    applied[i] > 0 \/ i \in pending \/ backup[i] # "none" => task[i].schema = "analysed"

(* The run of a task ends, or the agent dies.                              *)
TaskEnds == <>(pc \in {"end", "dead"})

=============================================================================
