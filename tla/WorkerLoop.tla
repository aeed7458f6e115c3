---------------------------- MODULE WorkerLoop ----------------------------
(***************************************************************************)
(* The agent process from its command line to its exit code (main.go) and  *)
(* its worker (metrics/runner.go): a select loop that starts collections   *)
(* on timers, each in a goroutine of its own, and ends with the result of  *)
(* the one collection it was started for, or with a signal.  Collections   *)
(* of a PostgreSQL server go through Capabilities, those of a MySQL server *)
(* through the map of sample queries.  A task the server hands over with   *)
(* its answer to a metrics report is TaskLifecycle's.                      *)
(***************************************************************************)
EXTENDS Capabilities, Sequences

CONSTANT Words   \* what may follow the flags: "", an apply mode, a command

ASSUME ExitAssumption ==
  /\ None \notin {0, 1, 2, 143}
  /\ None \notin {"nil", "error", "stopped", "recovered"}

VARIABLES
  mode,         \* what the worker is told to do
  launched,     \* how main runs it: "oneshot", "daemon", or "" (not yet, or not at all)
  loop,         \* "off", "setup", "select" or "returned"
  result,       \* nil or an error, and where the nil came from
  signalled,    \* SIGINT or SIGTERM waits in the terminator channel
  armed,        \* GenerateTimer is running
  done,         \* the channel configurationDone
  jobs,         \* the collections
  env,          \* the database type and QueryOptimization
  samples,      \* whether sample queries are collected, and some were found
  report,       \* the collection of a one-shot run the repeater accepted
  exit          \* the exit code, or None

launchVars == <<mode, launched, env>>
loopVars == <<loop, result, signalled, armed, done>>
jobVars == <<jobs, samples, report>>
vars == <<capVars, launchVars, loopVars, jobVars, exit>>

Jobs == Collectors
Idle == [kind |-> "none", pc |-> "idle", err |-> TRUE, asked |-> FALSE, seen |-> FALSE]
NoReport == [accepted |-> FALSE, asked |-> FALSE, seen |-> FALSE]
Mode(name, type) == [name |-> name, type |-> type]
ByName == Mode("TaskByName", "queries_optimization")

\* QueryOptimization makes no difference here to a PostgreSQL server.
Configurations == {e \in [mysql : BOOLEAN, optimize : BOOLEAN] : e.mysql \/ e.optimize}

Init ==
  /\ CapInit
  /\ mode = Mode("Configurations", "Default") /\ launched = ""
  /\ env \in Configurations
  /\ loop = "off" /\ result = None /\ signalled = FALSE /\ armed = FALSE /\ done = <<>>
  /\ jobs = [j \in Jobs |-> Idle]
  /\ samples = [on |-> FALSE, found |-> FALSE]
  /\ report = NoReport
  /\ exit = None

----------------------------------------------------------------------------
(* main.go                                                                 *)

CommandLines ==
  [f : BOOLEAN, c : BOOLEAN, initial : BOOLEAN, event : BOOLEAN,
   task : {"", "queries_optimization", "apply_config"}, word : Words]

\* parseConfigurationApplyMode: after -c only an apply mode is allowed.
UsageError(cl) == cl.c /\ cl.word \notin {"", "dynamic", "full"}
Command(cl) == IF cl.c THEN "" ELSE cl.word

RunsOneShot(cl) ==
  Command(cl) = "" /\ (cl.f \/ cl.c \/ cl.initial \/ cl.event \/ cl.task # "")

SelectedMode(cl) ==
  IF cl.event THEN Mode("Event", "any")
  ELSE IF cl.task # "" THEN Mode("TaskByName", cl.task)
  ELSE Mode("Configurations", IF cl.f THEN "Set" ELSE IF cl.initial THEN "GetInitial"
                              ELSE IF cl.c THEN "Get" ELSE "Default")

\* A wrong command line, a command for the service manager, or a run.
Launch ==
  /\ loop = "off" /\ exit = None
  /\ \E cl \in CommandLines :
       \/ /\ UsageError(cl) /\ exit' = 2
          /\ UNCHANGED <<mode, launched, loop>>
       \/ /\ ~UsageError(cl) /\ Command(cl) # "" /\ exit' \in {0, 1}
          /\ UNCHANGED <<mode, launched, loop>>
       \/ /\ ~UsageError(cl) /\ Command(cl) = ""
          /\ mode' = SelectedMode(cl)
          /\ launched' = IF RunsOneShot(cl) THEN "oneshot" ELSE "daemon"
          /\ loop' = "setup" /\ exit' = exit
  /\ UNCHANGED <<capVars, env, result, signalled, armed, done, jobVars>>

\* No configuration, cloud instance or database: exitRunWithError; a signal
\* finds no handler yet.
StartFails ==
  /\ loop = "setup" /\ exit = None
  /\ exit' \in {1, 143}
  /\ UNCHANGED <<capVars, launchVars, loopVars, jobVars>>

\* RunWorker returns, and main with it: whatever collections still run, the
\* process exits.
ExitCode(r) == IF r = "error" THEN 1 ELSE 0
Return(r) ==
  /\ loop' = "returned" /\ result' = r
  /\ exit' = ExitCode(r)

\* HandlePanic recovers (main.go:90, metrics/runner.go:31): Programm.run, or
\* RunWorker, returns nil.
StartPanics ==
  /\ loop = "setup" /\ exit = None
  /\ Return("recovered")
  /\ UNCHANGED <<capVars, launchVars, signalled, armed, done, jobVars>>

----------------------------------------------------------------------------
(* RunWorker                                                               *)

OneShot ==
  \/ mode.name = "Configurations" /\ mode.type # "Default"
  \/ mode.name = "Event"
  \/ mode.name = "TaskByName"

\* GetStrategyCollectionSampleQueries: with query optimization the consumers
\* of a MySQL server are counted, or the count stays as it is.
Strategy ==
  IF env.mysql /\ env.optimize THEN samples' \in [on : BOOLEAN, found : {samples.found}]
                               ELSE samples' = samples

EnterLoop ==
  /\ loop = "setup" /\ exit = None
  /\ loop' = "select" /\ armed' = TRUE
  /\ Strategy
  /\ UNCHANGED <<capVars, launchVars, result, signalled, done, jobs, report, exit>>

Selecting == loop = "select"

Signal ==
  /\ Selecting /\ ~signalled
  /\ signalled' = TRUE
  /\ UNCHANGED <<capVars, launchVars, loop, result, armed, done, jobVars, exit>>

\* Mutant: the loop first waits for its collections.
MayTerminateIdle == Selecting /\ signalled /\ \A j \in Jobs : jobs[j] = Idle
MayTerminate == Selecting /\ signalled
Terminate ==
  /\ MayTerminate
  /\ Return("stopped") /\ signalled' = FALSE
  /\ UNCHANGED <<capVars, launchVars, armed, done, jobVars>>

TakeResult ==
  /\ Selecting /\ done # <<>>
  /\ done' = Tail(done)
  /\ IF OneShot THEN Return(Head(done)) ELSE UNCHANGED <<loop, result, exit>>
  /\ UNCHANGED <<capVars, launchVars, signalled, armed, jobVars>>

\* PostgreSQL has no sample query gatherer: that timer does nothing there.
Armed(kind) ==
  \/ kind = "configuration" /\ armed
  \/ kind \in {"metrics", "queries"} /\ ~OneShot
  \/ kind = "samples" /\ ~OneShot /\ env.optimize /\ env.mysql

\* Mutant: the samples are left to the timer.
FirstStepUnsampled(kind) == IF kind = "samples" THEN "samples" ELSE "gather"
FirstStep(kind) ==
  IF kind = "samples" \/ (kind = "configuration" /\ mode = ByName /\ env.optimize)
  THEN "samples" ELSE "gather"

\* Mutant: no news is good news.
PresetNil == FALSE
\* The error a collection is to report when it does not get to its end.
Preset == TRUE

\* A timer fires: a collection starts.  GenerateTimer fires once in a one-shot run.
Tick(kind, j) ==
  /\ Selecting /\ jobs[j] = Idle /\ Armed(kind)
  /\ jobs' = [jobs EXCEPT ![j] = [Idle EXCEPT !.kind = kind, !.pc = FirstStep(kind),
                                              !.err = Preset]]
  /\ armed' = (armed /\ (kind # "configuration" \/ ~OneShot))
  /\ UNCHANGED <<capVars, launchVars, loop, result, signalled, done, samples, report, exit>>

----------------------------------------------------------------------------
(* A collection                                                            *)

At(j, pc) == jobs[j].pc = pc /\ exit = None
Once == launched = "oneshot"
IsConfiguration(j) == jobs[j].kind = "configuration"
Becomes(j, job) == jobs' = [jobs EXCEPT ![j] = job]

\* A collection that stops half way: the deferred send reports it.
Gone(j) == IF IsConfiguration(j) THEN [jobs[j] EXCEPT !.pc = "report"] ELSE Idle

\* The sample query gatherer, whose failure nobody looks at; PostgreSQL has none.
CollectSamples(j) ==
  /\ At(j, "samples")
  /\ samples' \in [on : {samples.on},
                   found : {samples.found} \cup (IF env.mysql /\ samples.on THEN {TRUE} ELSE {})]
  /\ Becomes(j, IF IsConfiguration(j) THEN [jobs[j] EXCEPT !.pc = "gather", !.asked = TRUE] ELSE Idle)
  /\ UNCHANGED <<capVars, launchVars, loopVars, report, exit>>

\* The gatherers that need the capabilities of a PostgreSQL server.
GatherCapabilities(j) ==
  /\ At(j, "gather") /\ ~env.mysql
  /\ CapStep(j)
  /\ UNCHANGED <<launchVars, loopVars, jobVars, exit>>

\* CollectMetrics; a gatherer that panics has handled that itself.
Gathered(j) == IF env.mysql THEN at[j] = "idle" ELSE at[j] = "resolved"
EndCapabilities(j) ==
  /\ at' = [at EXCEPT ![j] = "idle"]
  /\ sees' = [sees EXCEPT ![j] = None]
  /\ UNCHANGED <<installed, changes, cached, lock>>
Gather(j) ==
  /\ At(j, "gather") /\ Gathered(j)
  /\ Becomes(j, [jobs[j] EXCEPT !.pc = IF jobs[j].kind = "queries" THEN "send" ELSE "strategy",
                                !.seen = Once /\ samples.found])
  /\ EndCapabilities(j)
  /\ UNCHANGED <<launchVars, loopVars, samples, report, exit>>

\* A gatherer fails, or CollectMetrics itself panics: there are no metrics.
GatherFails(j) ==
  /\ At(j, "gather") /\ at[j] \in {"idle", "resolved"}
  /\ Becomes(j, Gone(j))
  /\ EndCapabilities(j)
  /\ UNCHANGED <<launchVars, loopVars, samples, report, exit>>

ChooseStrategy(j) ==
  /\ At(j, "strategy")
  /\ Strategy
  /\ Becomes(j, [jobs[j] EXCEPT !.pc = "send"])
  /\ UNCHANGED <<capVars, launchVars, loopVars, report, exit>>

\* Outside the gatherers and the repeater a panic ends the goroutine.
Panics(j) ==
  /\ At(j, "strategy")
  /\ Becomes(j, Gone(j))
  /\ UNCHANGED <<capVars, launchVars, loopVars, samples, report, exit>>

SentResult(j, ok) == [jobs[j] EXCEPT !.pc = "report", !.err = ~ok]

\* ProcessRepeaters: the repeater succeeds, or it fails, panics, or answers
\* a configuration with nothing.
Send(j) ==
  /\ At(j, "send")
  /\ \E ok \in BOOLEAN :
       IF IsConfiguration(j)
       THEN /\ Becomes(j, SentResult(j, ok))
            /\ report' = IF ok /\ Once
                         THEN [accepted |-> TRUE, asked |-> jobs[j].asked, seen |-> jobs[j].seen]
                         ELSE report
       ELSE Becomes(j, Idle) /\ report' = report
  /\ UNCHANGED <<capVars, launchVars, loopVars, samples, exit>>

HasRoom == done = <<>>

\* The deferred send; the channel holds one result.
Report(j) ==
  /\ At(j, "report") /\ HasRoom
  /\ done' = Append(done, IF jobs[j].err THEN "error" ELSE "nil")
  /\ Becomes(j, Idle)
  /\ UNCHANGED <<capVars, launchVars, loop, result, signalled, armed, samples, report, exit>>

JobStep(j) ==
  \/ CollectSamples(j) \/ GatherCapabilities(j) \/ Gather(j) \/ GatherFails(j)
  \/ ChooseStrategy(j) \/ Panics(j) \/ Send(j) \/ Report(j)

Ticks == \E kind \in {"configuration", "metrics", "queries", "samples"}, j \in Jobs : Tick(kind, j)
MainStep == Launch \/ StartFails \/ StartPanics \/ EnterLoop
ServerStep == Change /\ exit = None /\ ~env.mysql /\ UNCHANGED <<launchVars, loopVars, jobVars, exit>>

Next ==
  \/ MainStep \/ Signal \/ Terminate \/ TakeResult \/ Ticks
  \/ ServerStep
  \/ \E j \in Jobs : JobStep(j)

\* The scheduler runs every goroutine, database and server answer, select
\* does not pass over a ready case for ever, and GenerateTimer fires.
Fairness ==
  /\ WF_vars(MainStep) /\ WF_vars(Terminate) /\ WF_vars(TakeResult)
  /\ WF_vars(\E j \in Jobs : Tick("configuration", j))
  /\ \A j \in Jobs : WF_vars(JobStep(j))

Spec == Init /\ [][Next]_vars /\ Fairness

----------------------------------------------------------------------------
TypeOK ==
  /\ CapTypeOK
  /\ mode \in [name : {"Configurations", "Event", "TaskByName"},
               type : {"Default", "Set", "Get", "GetInitial", "any", "queries_optimization", "apply_config"}]
  /\ launched \in {"", "oneshot", "daemon"}
  /\ env \in Configurations
  /\ loop \in {"off", "setup", "select", "returned"}
  /\ result \in {None, "nil", "error", "stopped", "recovered"}
  /\ signalled \in BOOLEAN /\ armed \in BOOLEAN
  /\ done \in {<<>>, <<"nil">>, <<"error">>}
  /\ jobs \in [Jobs -> [kind : {"none", "configuration", "metrics", "queries", "samples"},
                        pc : {"idle", "samples", "gather", "strategy", "send", "report"},
                        err : BOOLEAN, asked : BOOLEAN, seen : BOOLEAN]]
  /\ samples \in [on : BOOLEAN, found : BOOLEAN]
  /\ report \in [accepted : BOOLEAN, asked : BOOLEAN, seen : BOOLEAN]
  /\ exit \in {None, 0, 1, 2, 143}

\* What the exit code of a one-shot run tells releem.sh, which branches on it.
\* An accepted collection is success. The converse has two exceptions: code 0
\* without one also follows a signal the worker caught and a panic at start-up,
\* which HandlePanic recovers in main.run or in RunWorker, so that nil is
\* returned with nothing collected. Any other way to fail, at start-up, in a
\* gatherer, in the request or by a panic half way, shows.
ExitIsHonest ==
  launched = "oneshot" /\ exit # None =>
    /\ report.accepted => exit = 0
    /\ exit = 0 => report.accepted \/ result \in {"stopped", "recovered"}

\* A daemon's worker returns for a signal, or a recovered panic of its start,
\* whatever its collections end in.
DaemonStays == launched = "daemon" /\ loop = "returned" => result \in {"stopped", "recovered"}

\* The report of the named task queries_optimization was gathered after the
\* sample queries were asked for, and with all that were found.
SamplesReachReport ==
  mode = ByName /\ report.accepted /\ env.optimize =>
    report.asked /\ (samples.found => report.seen)

\* What main starts as a one-shot run ends, also when the collection panics;
\* a signal the worker caught ends any run, however busy the loop is.
RunEnds ==
  /\ launched = "oneshot" ~> exit # None
  /\ signalled ~> exit # None

\* Once the extension stays as it is, collectors stop asking it for what it
\* no longer has: one failure of a query is enough to look again.
CapabilitiesHeal ==
  <>[](exit = None => \A j \in Jobs : at[j] = "using" => Fits(j))
=============================================================================
