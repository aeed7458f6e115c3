---- MODULE TaskLifecycle ----
(***************************************************************************)
(* The worker's hand-over of a task and ProcessTask (metrics/runner.go,    *)
(* tasks/tasks.go).  A metrics response "Task" arms a timer; five seconds  *)
(* later a goroutine (a "run") asks the server for the task, reports that  *)
(* it started, executes it and reports how it ended.  Nothing serialises   *)
(* the runs: while one restarts a database server, the next metrics tick   *)
(* arms another.  Requests are lost, answered late or answered into the    *)
(* void, and the agent may die at any step.                                *)
(***************************************************************************)
EXTENDS Naturals

CONSTANTS
  Tasks,         \* task identifiers of the server
  TypeIDs,       \* the task_type_id values the server uses
  Runs,          \* goroutines that may execute ProcessTask at the same time
  Agents,        \* configurations of the agent: InstanceType and EnableExecDDL
  CommandExits   \* exit codes of releem.sh and of the agent run as a command

ASSUME TypesAssumption == TypeIDs \subseteq Nat
ASSUME AgentsAssumption ==
  Agents \subseteq [instance : {"local", "aws/rds", "gcp/cloudsql", "azure/mysql"},
                    execDDL : BOOLEAN]
ASSUME ExitsAssumption == CommandExits \subseteq Nat

VARIABLES
  up,      \* the agent process is alive
  type,    \* the server's tasks: their task_type_id
  agent,   \* the agent's configuration, the same for its whole life
  heard,   \* the last status the server received for each task, 0 if none
  late,    \* status requests the agent gave up on that may still arrive
  runs     \* ProcessTask goroutines

vars == <<up, type, agent, heard, late, runs>>

----------------------------------------------------------------------------
(* What a run has done.  "did" collects the effects of its own requests    *)
(* and commands; exit and status are TaskStruct.ExitCode and Status.       *)

Effects == {"recommendations", "file", "touched", "configured", "rolledback",
            "variables", "cloud", "schema", "explained", "delivered"}
Steps == {"armed", "got", "recommend", "download", "configure", "rollback",
          "variables", "cloud", "schema", "explain", "send", "settle"}
Over == {"free", "reported", "panicked", "lost"}

NoRun(t) == [pc |-> "free", task |-> t, exit |-> 0, status |-> 0, did |-> {}]
Fresh(pc, t) == [NoRun(t) EXCEPT !.pc = pc]
Live(r, pc) == up /\ runs[r].pc = pc
TypeOf(r) == type[runs[r].task]

Init ==
  /\ up = TRUE
  /\ type \in [Tasks -> TypeIDs]
  /\ agent \in Agents
  /\ heard = [t \in Tasks |-> 0]
  /\ late = {}
  /\ \E t \in Tasks : runs = [r \in Runs |-> NoRun(t)]

(* The server offers a task it has heard nothing about (external).         *)
Offered(t) == heard[t] = 0

(* One status request.  The server receives it, with or without its answer *)
(* reaching the agent, or the agent gives up first and the server may      *)
(* still receive it, after later requests, or never.                       *)
SendStatus(t, s) ==
  \/ /\ heard' = [heard EXCEPT ![t] = s]
     /\ UNCHANGED late
  \/ /\ late' = late \cup {<<t, s>>}
     /\ UNCHANGED heard

ReceiveLate(m) ==
  /\ m \in late
  /\ heard' = [heard EXCEPT ![m[1]] = m[2]]
  /\ late' = late \ {m}
  /\ UNCHANGED <<up, type, agent, runs>>

----------------------------------------------------------------------------
(* runner.go: a metrics response "Task" arms ProcessTask.                  *)
Notice(r) ==
  /\ up /\ runs[r].pc \in Over
  /\ \E t \in Tasks : Offered(t) /\ runs' = [runs EXCEPT ![r] = Fresh("armed", t)]
  /\ UNCHANGED <<up, type, agent, heard, late>>

(* ProcessTask up to the envelope checks: no metrics, a failed request or  *)
(* an answer that is no task end the run without a status.                 *)
GetTask(r) ==
  /\ Live(r, "armed")
  /\ \/ \E t \in Tasks : Offered(t) /\ runs' = [runs EXCEPT ![r] = Fresh("got", t)]
     \/ runs' = [runs EXCEPT ![r] = NoRun(runs[r].task)]
  /\ UNCHANGED <<up, type, agent, heard, late>>

(* The switch over TypeID and instance type.                               *)
FirstStep(id, inst) ==
  CASE id \in {0, 5, 8} /\ (id = 0 \/ inst = "local") -> "download"
    [] id \in {1, 2, 3} -> "configure"
    [] id = 4 /\ inst = "local" -> "recommend"
    [] id \in {4, 5, 8} /\ inst # "local" -> "cloud"
    [] id = 6 -> "schema"
    [] id = 7 -> "explain"
    [] OTHER -> "settle"

(* An unknown type settles at once with exit code 4.                       *)
Begun(run, id, inst) ==
  [run EXCEPT !.pc = FirstStep(id, inst),
              !.exit = IF id > 8 THEN 4 ELSE 0,
              !.status = IF id > 8 THEN 4 ELSE 0]

(* A failure to report the start is logged and the task executed anyway.   *)
ReportStart(r) ==
  /\ Live(r, "got")
  /\ SendStatus(runs[r].task, 3)
  /\ runs' = [runs EXCEPT ![r] = Begun(@, TypeOf(r), agent.instance)]
  /\ UNCHANGED <<up, type, agent>>

----------------------------------------------------------------------------
(* Executing.  Settled(run, e, s, d) has exit code e, status s, effects d. *)

Settled(run, e, s, d) ==
  [run EXCEPT !.pc = "settle", !.exit = e, !.status = s, !.did = @ \cup d]
Moved(run, pc, d) == [run EXCEPT !.pc = pc, !.did = @ \cup d]
Executes(r, run) == runs' = [runs EXCEPT ![r] = run] /\ UNCHANGED <<up, type, agent, heard, late>>

(* fetchLocalRecommendations: the JSON request of a type 4 task.           *)
Recommend(r) ==
  /\ Live(r, "recommend")
  /\ \/ Executes(r, Moved(runs[r], "download", {"recommendations"}))
     \/ Executes(r, Settled(runs[r], 1, 4, {}))

(* DownloadConfigurationFile: bad details, a failed request, an empty body *)
(* or a failed write settle the task before the configurer runs.           *)
Download(r) ==
  /\ Live(r, "download")
  /\ \/ Executes(r, Moved(runs[r], "configure", {"file"}))
     \/ Executes(r, Settled(runs[r], 1, 4, {}))

(* execTaskCommand: status 1 only for exit code 0.                         *)
CommandStatus(e) == IF e = 0 THEN 1 ELSE 4

(* The configurer, or the command of types 1 to 3.  Exit code 7 rolls a    *)
(* full application back; a dynamic one goes on to SET GLOBAL on success.  *)
AfterConfigure(id, e) ==
  CASE e = 0 /\ id = 4 -> "variables"
    [] e = 7 /\ id \in {0, 5, 8} -> "rollback"
    [] OTHER -> "settle"
Configure(r) ==
  /\ Live(r, "configure")
  /\ \E e \in CommandExits :
       Executes(r, [Settled(runs[r], e, CommandStatus(e),
                      {"touched"} \cup (IF e = 0 THEN {"configured"} ELSE {}))
                    EXCEPT !.pc = AfterConfigure(TypeOf(r), e)])

(* Broken: the rollback's outcome assigned to the task.                    *)
RollBackReplaces(r) ==
  /\ Live(r, "rollback")
  /\ \E e \in CommandExits :
       Executes(r, Settled(runs[r], e, CommandStatus(e),
                           IF e = 0 THEN {"rolledback"} ELSE {}))

(* rollBackConfigurationTask supplements the failed application.           *)
RollBack(r) ==
  /\ Live(r, "rollback")
  /\ \E e \in CommandExits :
       Executes(r, Moved(runs[r], "settle", IF e = 0 THEN {"rolledback"} ELSE {}))

(* applyLocalRecommendations: every variable is tried; the worst result    *)
(* decides.  A variable that needs a restart still counts as success.      *)
VariableResults == {"applied", "restart", "privileges", "error"}
VariableExit(seen) ==
  CASE "error" \in seen -> 8
    [] "privileges" \in seen /\ "error" \notin seen -> 9
    [] "restart" \in seen /\ seen \cap {"error", "privileges"} = {} -> 10
    [] OTHER -> 0
SetVariables(r) ==
  /\ Live(r, "variables")
  /\ \E seen \in SUBSET VariableResults :
       LET e == VariableExit(seen) IN
       Executes(r, Settled(runs[r], e, IF e \in {8, 9} THEN 4 ELSE 1,
                           IF e = 0 THEN {"variables"} ELSE {}))

(* The managed services.  Cloud SQL asserts that every changed value is a  *)
(* string: a numeric recommendation panics, and HandlePanic ends the run.  *)
CloudFailures == {1, 8, 9, 10}
CloudApply(r) ==
  /\ Live(r, "cloud")
  /\ \/ Executes(r, Settled(runs[r], 0, 1, {"cloud"}))
     \/ \E e \in CloudFailures : Executes(r, Settled(runs[r], e, 4, {}))
     \/ /\ agent.instance = "gcp/cloudsql"
        /\ Executes(r, Fresh("panicked", runs[r].task))

(* ApplySchemaChanges, or the refusal when DDL execution is disabled.      *)
SchemaFailures == 2..8
SchemaChange(r) ==
  /\ Live(r, "schema")
  /\ \/ ~agent.execDDL /\ Executes(r, Settled(runs[r], 10, 4, {}))
     \/ agent.execDDL /\ Executes(r, Settled(runs[r], 0, 1, {"schema"}))
     \/ agent.execDDL /\ \E e \in SchemaFailures : Executes(r, Settled(runs[r], e, 4, {}))

(* ProcessQueryExplainTask, then the request that carries its result.      *)
ExplainFailures == 2..7
Explain(r) ==
  /\ Live(r, "explain")
  /\ \/ Executes(r, [Settled(runs[r], 0, 1, {"explained"}) EXCEPT !.pc = "send"])
     \/ \E e \in ExplainFailures : Executes(r, Settled(runs[r], e, 4, {}))

(* Broken: the failed request only logged.                                 *)
SendResultLogged(r) ==
  /\ Live(r, "send")
  /\ \/ Executes(r, Moved(runs[r], "settle", {"delivered"}))
     \/ Executes(r, Moved(runs[r], "settle", {}))

SendResult(r) ==
  /\ Live(r, "send")
  /\ \/ Executes(r, Moved(runs[r], "settle", {"delivered"}))
     \/ Executes(r, Settled(runs[r], 1, 4, {}))

----------------------------------------------------------------------------
(* Broken: the end of a run giving up without a second snapshot.      *)
FinishWithMetrics(r) ==
  /\ Live(r, "settle")
  /\ \/ /\ SendStatus(runs[r].task, runs[r].status)
        /\ runs' = [runs EXCEPT ![r].pc = "reported"]
        /\ UNCHANGED <<up, type, agent>>
     \/ Executes(r, [runs[r] EXCEPT !.pc = "free"])

(* The end: ten seconds later metrics are collected again; without them    *)
(* the first snapshot is reused.  The final status is sent once.           *)
Finish(r) ==
  /\ Live(r, "settle")
  /\ SendStatus(runs[r].task, runs[r].status)
  /\ runs' = [runs EXCEPT ![r].pc = "reported"]
  /\ UNCHANGED <<up, type, agent>>

(* The process dies, for example while its own update restarts it, and is  *)
(* started again.  Tasks live in memory only.                              *)
Crash ==
  /\ up /\ up' = FALSE
  /\ runs' = [r \in Runs |-> IF runs[r].pc \in Over THEN runs[r]
                             ELSE Fresh("lost", runs[r].task)]
  /\ UNCHANGED <<type, agent, heard, late>>
Restart == ~up /\ up' = TRUE /\ UNCHANGED <<type, agent, heard, late, runs>>

RunStep(r) ==
  \/ GetTask(r) \/ ReportStart(r) \/ Recommend(r) \/ Download(r) \/ Configure(r)
  \/ RollBack(r) \/ SetVariables(r) \/ CloudApply(r) \/ SchemaChange(r)
  \/ Explain(r) \/ SendResult(r) \/ Finish(r)
Next ==
  \/ \E r \in Runs : Notice(r) \/ RunStep(r)
  \/ \E m \in late : ReceiveLate(m)
  \/ Crash \/ Restart

Spec == Init /\ [][Next]_vars

(* A goroutine that can go on does: HTTP requests time out after ten       *)
(* minutes and releem.sh bounds its own waits.  That a cloud operation or  *)
(* a schema change ends at all is assumed of the services.                 *)
FairSpec == Spec /\ \A r \in Runs : WF_vars(RunStep(r))

----------------------------------------------------------------------------
(* The types of the state.                                                 *)
RunRecords == [pc : Steps \cup Over, task : Tasks, exit : Nat,
               status : {0, 1, 4}, did : SUBSET Effects]
TypeOK ==
  /\ up \in BOOLEAN
  /\ type \in [Tasks -> TypeIDs]
  /\ agent \in Agents
  /\ heard \in [Tasks -> {0, 1, 3, 4}]
  /\ late \subseteq Tasks \X {0, 1, 3, 4}
  /\ runs \in [Runs -> RunRecords]

(* What a task of each type must have done to report exit code 0, and, for *)
(* a local dynamic application that needs a restart, exit code 10.         *)
Required(id, inst) ==
  CASE id = 0 -> {"file", "configured"}
    [] id \in {1, 2, 3} -> {"configured"}
    [] id = 4 /\ inst = "local" ->
         {"recommendations", "file", "configured", "variables"}
    [] id \in {5, 8} /\ inst = "local" -> {"file", "configured"}
    [] id \in {4, 5, 8} /\ inst # "local" -> {"cloud"}
    [] id = 6 -> {"schema"}
    [] id = 7 -> {"explained", "delivered"}
    [] OTHER -> {"never"}
RequiredAt(id, exit, inst) ==
  CASE exit = 0 -> Required(id, inst)
    [] exit = 10 /\ id = 4 /\ inst = "local" -> Required(id, inst) \ {"variables"}
    [] OTHER -> {"never"}

(* A run reports success (status 1) only when every step of its task took  *)
(* effect, across the early returns of the handlers of ten task types; of  *)
(* the non-zero exit codes only "restart required" may pass as success.    *)
SuccessIsEarned ==
  \A r \in Runs : runs[r].pc = "reported" /\ runs[r].status = 1 =>
                    RequiredAt(TypeOf(r), runs[r].exit, agent.instance) \subseteq runs[r].did

(* A configuration that was rolled back is never reported as applied: the  *)
(* rollback supplements the failure and does not replace its outcome.      *)
RolledBackIsFailure ==
  \A r \in Runs : "rolledback" \in runs[r].did =>
                    runs[r].exit = 7 /\ runs[r].status = 4

(* The configurer touches the live configuration only after every request  *)
(* the task needs succeeded (comment of applyDynamicConfigurationLocal).   *)
UntouchedUntilFetched ==
  \A r \in Runs : "touched" \in runs[r].did =>
    /\ TypeOf(r) \in {0, 4, 5, 8} => "file" \in runs[r].did
    /\ TypeOf(r) = 4 => "recommendations" \in runs[r].did

(* A run that got a task sends its final status, whatever fails on the     *)
(* way and even when the database never comes back, unless the agent dies  *)
(* (comment at tasks.go:189).                                              *)
StartedIsReported ==
  \A r \in Runs : (runs[r].pc = "got") ~> (runs[r].pc \in {"reported", "lost"})
====
