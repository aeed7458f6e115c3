-------------------------- MODULE WorkerLoopProofs --------------------------
(***************************************************************************)
(* Proofs about WorkerLoop and the Capabilities it uses, for any number of *)
(* collections, any forms of the extension and any commands.               *)
(***************************************************************************)
EXTENDS WorkerLoop, TLAPS

-----------------------------------------------------------------------------
(* The capabilities. A detection is under the lock, so that nothing can be *)
(* invalidated while it is under way.                                      *)
CapTracked ==
  /\ NoInvalidatedSnapshot
  /\ \A c \in Collectors : at[c] \in {"lookup", "columns"} => lock = c
  /\ \A c \in Collectors :
       at[c] \in {"columns", "using", "invalidate"} => sees[c] \in Snapshots
  /\ \A c \in Collectors : at[c] = "columns" => ~sees[c].old
CapInv == CapTypeOK /\ CapTracked

(* The cache has its types, and holds nothing invalidated, after any step  *)
(* of a collector.                                                         *)
LEMMA CapStepKeeps ==
  ASSUME CapInv, NEW c \in Collectors, CapStep(c)
  PROVE CapInv'
<1> USE NoneAssumption DEF CapInv, CapTypeOK, CapTracked, NoInvalidatedSnapshot, Steps, Gets
<1>s. None \notin Snapshots
  BY DEF Snapshots, Forms
<1>1. CASE Resolve(c)
  BY <1>1, <1>s DEF Resolve
<1>2. CASE Lock(c)
  BY <1>2, <1>s DEF Lock
<1>3. CASE DetectionFails(c)
  BY <1>3 DEF DetectionFails
<1>4. CASE Lookup(c)
  <2>1. [form |-> installed, old |-> FALSE] \in Snapshots
    BY <1>4 DEF Lookup, Snapshots
  <2>2. QED BY <1>4, <2>1 DEF Lookup
<1>5. CASE InspectColumns(c)
  <2>1. sees[c] \in Snapshots /\ ~sees[c].old /\ installed \in Forms
    BY <1>5 DEF InspectColumns
  <2>2. [sees[c] EXCEPT !.form = installed] \in Snapshots
        /\ ~[sees[c] EXCEPT !.form = installed].old
    BY <2>1 DEF Snapshots
  <2>3. QED BY <1>5, <2>1, <2>2 DEF InspectColumns
<1>6. CASE Query(c)
  BY <1>6 DEF Query
<1>7. CASE Invalidate(c)
  <2>1. \A d \in Collectors : at[d] \notin {"lookup", "columns"}
    BY <1>7 DEF Invalidate, MayInvalidate
  <2>2. \A d \in Collectors : sees[d] # None => Aged(sees[d]) \in Snapshots
    <3>1. \A x \in Snapshots : [x EXCEPT !.old = TRUE] \in Snapshots
      BY DEF Snapshots
    <3>2. QED BY <3>1, <1>s DEF Aged
  <2>3. sees' \in [Collectors -> Snapshots \cup {None}]
    BY <1>7, <2>2 DEF Invalidate, Aged
  <2>4. \A d \in Collectors : sees[d] \in Snapshots => sees'[d] \in Snapshots
    BY <1>7, <2>2, <1>s DEF Invalidate
  <2>5. QED BY <1>7, <2>1, <2>3, <2>4 DEF Invalidate
<1>8. QED BY <1>1, <1>2, <1>3, <1>4, <1>5, <1>6, <1>7 DEF CapStep

LEMMA CapSame == ASSUME CapInv, UNCHANGED capVars PROVE CapInv'
  BY DEF capVars, CapInv, CapTypeOK, CapTracked, NoInvalidatedSnapshot

LEMMA CapKeeps == CapInv /\ [Next]_vars => CapInv'
<1> SUFFICES ASSUME CapInv, [Next]_vars PROVE CapInv'
  OBVIOUS
<1> USE DEF Jobs
<1>1. CASE Launch
  BY <1>1, CapSame DEF Launch
<1>2. CASE StartFails
  BY <1>2, CapSame DEF StartFails
<1>3. CASE StartPanics
  BY <1>3, CapSame DEF StartPanics
<1>4. CASE EnterLoop
  BY <1>4, CapSame DEF EnterLoop
<1>5. CASE Signal
  BY <1>5, CapSame DEF Signal
<1>6. CASE Terminate
  BY <1>6, CapSame DEF Terminate
<1>7. CASE TakeResult
  BY <1>7, CapSame DEF TakeResult
<1>8. CASE Ticks
  BY <1>8, CapSame DEF Ticks, Tick
<1>9. CASE ServerStep
  BY <1>9, ChangesAssumption DEF ServerStep, Change, CapInv, CapTypeOK, CapTracked, NoInvalidatedSnapshot
<1>10. CASE \E j \in Jobs : CollectSamples(j)
  BY <1>10, CapSame DEF CollectSamples
<1>11. CASE \E j \in Jobs : GatherCapabilities(j)
  BY <1>11, CapStepKeeps DEF GatherCapabilities, Jobs
<1>12. CASE \E j \in Jobs : Gather(j)
  BY <1>12 DEF Gather, EndCapabilities, Steps,
    CapInv, CapTypeOK, CapTracked, NoInvalidatedSnapshot
<1>13. CASE \E j \in Jobs : GatherFails(j)
  BY <1>13 DEF GatherFails, EndCapabilities, Steps,
    CapInv, CapTypeOK, CapTracked, NoInvalidatedSnapshot
<1>14. CASE \E j \in Jobs : ChooseStrategy(j)
  BY <1>14, CapSame DEF ChooseStrategy
<1>15. CASE \E j \in Jobs : Panics(j)
  BY <1>15, CapSame DEF Panics
<1>16. CASE \E j \in Jobs : Send(j)
  BY <1>16, CapSame DEF Send
<1>17. CASE \E j \in Jobs : Report(j)
  BY <1>17, CapSame DEF Report
<1>18. CASE UNCHANGED vars
  BY <1>18, CapSame DEF vars
<1>99. QED BY <1>1, <1>2, <1>3, <1>4, <1>5, <1>6, <1>7, <1>8, <1>9, <1>10,
  <1>11, <1>12, <1>13, <1>14, <1>15, <1>16, <1>17, <1>18 DEF Next, MainStep,
  JobStep

LEMMA CapStarts == Init => CapInv
<1> SUFFICES ASSUME Init PROVE CapInv
  OBVIOUS
<1> USE DEF Init, CapInit
<1>1. installed \in Forms \cup {None}
  BY FoundAssumption DEF Forms
<1>a. 0 \in 0 .. MaxChanges
  BY ONLY ChangesAssumption
<1>2. changes \in 0 .. MaxChanges
  BY <1>a
<1>3. CapTypeOK
  BY <1>1, <1>2 DEF CapTypeOK, Steps
<1>4. CapTracked
  BY DEF CapTracked, NoInvalidatedSnapshot
<1>5. QED BY <1>3, <1>4 DEF CapInv

-----------------------------------------------------------------------------
(* The worker.                                                             *)
JobType == [kind : {"none", "configuration", "metrics", "queries", "samples"},
            pc : {"idle", "samples", "gather", "strategy", "send", "report"},
            err : BOOLEAN, asked : BOOLEAN, seen : BOOLEAN]
LaunchTypes ==
  /\ mode \in [name : {"Configurations", "Event", "TaskByName"},
               type : {"Default", "Set", "Get", "GetInitial", "any",
                       "queries_optimization", "apply_config"}]
  /\ launched \in {"", "oneshot", "daemon"}
  /\ env \in Configurations
LoopTypes ==
  /\ loop \in {"off", "setup", "select", "returned"}
  /\ result \in {None, "nil", "error", "stopped", "recovered"}
  /\ signalled \in BOOLEAN /\ armed \in BOOLEAN
  /\ done \in {<<>>, <<"nil">>, <<"error">>}
  /\ exit \in {None, 0, 1, 2, 143}
JobTypes ==
  /\ jobs \in [Jobs -> JobType]
  /\ samples \in [on : BOOLEAN, found : BOOLEAN]
  /\ report \in [accepted : BOOLEAN, asked : BOOLEAN, seen : BOOLEAN]
WorkerTypes == LaunchTypes /\ LoopTypes /\ JobTypes

(* The channel of one result.                                              *)
LEMMA Channel ==
  ASSUME NEW x
  PROVE Head(<<x>>) = x /\ Tail(<<x>>) = <<>> /\ Append(<<>>, x) = <<x>> /\ <<x>> # <<>>
  OBVIOUS

LEMMA LaunchKeeps == LaunchTypes /\ [Next]_vars => LaunchTypes'
<1> SUFFICES ASSUME LaunchTypes, [Next]_vars PROVE LaunchTypes'
  OBVIOUS
<1> USE DEF LaunchTypes, launchVars, loopVars, jobVars
<1>1. CASE Launch
  <2>1. PICK cl \in CommandLines :
          \/ UNCHANGED <<mode, launched>>
          \/ mode' = SelectedMode(cl) /\ launched' \in {"oneshot", "daemon"}
    BY <1>1 DEF Launch
  <2>3. cl.task \in {"", "queries_optimization", "apply_config"}
    BY <2>1 DEF CommandLines
  <2>4. SelectedMode(cl) \in
          [name : {"Configurations", "Event", "TaskByName"},
           type : {"Default", "Set", "Get", "GetInitial", "any",
                   "queries_optimization", "apply_config"}]
    BY <2>3 DEF SelectedMode, Mode
  <2>5. env' = env
    BY <1>1 DEF Launch
  <2>6. QED BY <2>1, <2>4, <2>5
<1>2. CASE StartFails
  BY <1>2 DEF StartFails
<1>3. CASE StartPanics
  BY <1>3 DEF StartPanics, Return, ExitCode
<1>4. CASE EnterLoop
  BY <1>4 DEF EnterLoop, Strategy
<1>5. CASE Signal
  BY <1>5 DEF Signal, Selecting
<1>6. CASE Terminate
  BY <1>6 DEF Terminate, MayTerminate, Selecting, Return, ExitCode
<1>7. CASE TakeResult
  BY <1>7 DEF TakeResult, Selecting, Return, ExitCode
<1>8. CASE Ticks
  BY <1>8 DEF Ticks, Tick, Selecting, Armed, FirstStep, Preset
<1>9. CASE ServerStep
  BY <1>9 DEF ServerStep
<1>10. CASE \E j \in Jobs : CollectSamples(j)
  BY <1>10 DEF CollectSamples, At, Becomes, IsConfiguration
<1>11. CASE \E j \in Jobs : GatherCapabilities(j)
  BY <1>11 DEF GatherCapabilities, At
<1>12. CASE \E j \in Jobs : Gather(j)
  BY <1>12 DEF Gather, At, Becomes, Gathered
<1>13. CASE \E j \in Jobs : GatherFails(j)
  BY <1>13 DEF GatherFails, At, Becomes, Gone, IsConfiguration
<1>14. CASE \E j \in Jobs : ChooseStrategy(j)
  BY <1>14 DEF ChooseStrategy, At, Becomes, Strategy
<1>15. CASE \E j \in Jobs : Panics(j)
  BY <1>15 DEF Panics, At, Becomes, Gone, IsConfiguration
<1>16. CASE \E j \in Jobs : Send(j)
  BY <1>16 DEF Send, At, Becomes, SentResult, IsConfiguration, Once
<1>17. CASE \E j \in Jobs : Report(j)
  BY <1>17 DEF Report, At, Becomes, HasRoom
<1>18. CASE UNCHANGED vars
  BY <1>18 DEF vars
<1>99. QED BY <1>1, <1>2, <1>3, <1>4, <1>5, <1>6, <1>7, <1>8, <1>9, <1>10,
  <1>11, <1>12, <1>13, <1>14, <1>15, <1>16, <1>17, <1>18 DEF Next, MainStep,
  JobStep

LEMMA LoopKeeps == LoopTypes /\ [Next]_vars => LoopTypes'
<1> SUFFICES ASSUME LoopTypes, [Next]_vars PROVE LoopTypes'
  OBVIOUS
<1> USE DEF LoopTypes, launchVars, loopVars, jobVars
<1>1. CASE Launch
  <2>1. loop' \in {loop, "setup"} /\ exit' \in {exit, 0, 1, 2}
    BY <1>1 DEF Launch
  <2>2. UNCHANGED <<result, signalled, armed, done>>
    BY <1>1 DEF Launch
  <2>3. QED BY <2>1, <2>2
<1>2. CASE StartFails
  BY <1>2 DEF StartFails
<1>3. CASE StartPanics
  BY <1>3 DEF StartPanics, Return, ExitCode
<1>4. CASE EnterLoop
  BY <1>4 DEF EnterLoop, Strategy
<1>5. CASE Signal
  BY <1>5 DEF Signal, Selecting
<1>6. CASE Terminate
  BY <1>6 DEF Terminate, MayTerminate, Selecting, Return, ExitCode
<1>7. CASE TakeResult
  <2>1. done \in {<<"nil">>, <<"error">>}
    BY <1>7 DEF TakeResult
  <2>2. done' = <<>> /\ Head(done) \in {"nil", "error"}
    BY <1>7, <2>1, Channel DEF TakeResult
  <2>3. QED BY <1>7, <2>2 DEF TakeResult, Return, ExitCode
<1>8. CASE Ticks
  BY <1>8 DEF Ticks, Tick, Selecting, Armed, FirstStep, Preset
<1>9. CASE ServerStep
  BY <1>9 DEF ServerStep
<1>10. CASE \E j \in Jobs : CollectSamples(j)
  BY <1>10 DEF CollectSamples, At, Becomes, IsConfiguration
<1>11. CASE \E j \in Jobs : GatherCapabilities(j)
  BY <1>11 DEF GatherCapabilities, At
<1>12. CASE \E j \in Jobs : Gather(j)
  BY <1>12 DEF Gather, At, Becomes, Gathered
<1>13. CASE \E j \in Jobs : GatherFails(j)
  BY <1>13 DEF GatherFails, At, Becomes, Gone, IsConfiguration
<1>14. CASE \E j \in Jobs : ChooseStrategy(j)
  BY <1>14 DEF ChooseStrategy, At, Becomes, Strategy
<1>15. CASE \E j \in Jobs : Panics(j)
  BY <1>15 DEF Panics, At, Becomes, Gone, IsConfiguration
<1>16. CASE \E j \in Jobs : Send(j)
  BY <1>16 DEF Send, At, Becomes, SentResult, IsConfiguration, Once
<1>17. CASE \E j \in Jobs : Report(j)
  BY <1>17, Channel DEF Report, HasRoom
<1>18. CASE UNCHANGED vars
  BY <1>18 DEF vars
<1>99. QED BY <1>1, <1>2, <1>3, <1>4, <1>5, <1>6, <1>7, <1>8, <1>9, <1>10,
  <1>11, <1>12, <1>13, <1>14, <1>15, <1>16, <1>17, <1>18 DEF Next, MainStep,
  JobStep

LEMMA JobsKeep == JobTypes /\ [Next]_vars => JobTypes'
<1> SUFFICES ASSUME JobTypes, [Next]_vars PROVE JobTypes'
  OBVIOUS
<1> USE DEF JobTypes, launchVars, loopVars, jobVars
<1>1. CASE Launch
  BY <1>1 DEF Launch
<1>2. CASE StartFails
  BY <1>2 DEF StartFails
<1>3. CASE StartPanics
  BY <1>3 DEF StartPanics, Return, ExitCode
<1>4. CASE EnterLoop
  BY <1>4 DEF EnterLoop, Strategy
<1>5. CASE Signal
  BY <1>5 DEF Signal, Selecting
<1>6. CASE Terminate
  BY <1>6 DEF Terminate, MayTerminate, Selecting, Return, ExitCode
<1>7. CASE TakeResult
  BY <1>7 DEF TakeResult, Selecting, Return, ExitCode
<1>8. CASE Ticks
  <2>1. PICK kind \in {"configuration", "metrics", "queries", "samples"}, j \in Jobs : Tick(kind, j)
    BY <1>8 DEF Ticks
  <2>2. [Idle EXCEPT !.kind = kind, !.pc = FirstStep(kind), !.err = Preset] \in JobType
    BY DEF Idle, FirstStep, Preset, JobType
  <2>3. QED BY <2>1, <2>2 DEF Tick
<1>9. CASE ServerStep
  BY <1>9 DEF ServerStep
<1>10. CASE \E j \in Jobs : CollectSamples(j)
  <2>1. PICK j \in Jobs : CollectSamples(j)
    BY <1>10
  <2>2. jobs[j] \in JobType
    OBVIOUS
  <2>3. jobs'[j] \in JobType /\ jobs' = [jobs EXCEPT ![j] = jobs'[j]]
    BY <2>1, <2>2 DEF CollectSamples, Becomes, JobType, Idle, IsConfiguration
  <2>4. QED BY <2>1, <2>3 DEF CollectSamples, At
<1>11. CASE \E j \in Jobs : GatherCapabilities(j)
  BY <1>11 DEF GatherCapabilities, At
<1>12. CASE \E j \in Jobs : Gather(j)
  <2>1. PICK j \in Jobs : Gather(j)
    BY <1>12
  <2>2. jobs[j] \in JobType
    OBVIOUS
  <2>3. jobs'[j] \in JobType /\ jobs' = [jobs EXCEPT ![j] = jobs'[j]]
    BY <2>1, <2>2 DEF Gather, Becomes, JobType, Idle, IsConfiguration, Once
  <2>4. QED BY <2>1, <2>3 DEF Gather, At
<1>13. CASE \E j \in Jobs : GatherFails(j)
  <2>1. PICK j \in Jobs : GatherFails(j)
    BY <1>13
  <2>2. jobs[j] \in JobType
    OBVIOUS
  <2>3. jobs'[j] \in JobType /\ jobs' = [jobs EXCEPT ![j] = jobs'[j]]
    BY <2>1, <2>2 DEF GatherFails, Becomes, JobType, Idle, IsConfiguration, Gone
  <2>4. QED BY <2>1, <2>3 DEF GatherFails, At
<1>14. CASE \E j \in Jobs : ChooseStrategy(j)
  <2>1. PICK j \in Jobs : ChooseStrategy(j)
    BY <1>14
  <2>2. jobs[j] \in JobType
    OBVIOUS
  <2>3. jobs'[j] \in JobType /\ jobs' = [jobs EXCEPT ![j] = jobs'[j]]
    BY <2>1, <2>2 DEF ChooseStrategy, Becomes, JobType, Idle, IsConfiguration
  <2>4. QED BY <2>1, <2>3 DEF ChooseStrategy, At, Strategy
<1>15. CASE \E j \in Jobs : Panics(j)
  <2>1. PICK j \in Jobs : Panics(j)
    BY <1>15
  <2>2. jobs[j] \in JobType
    OBVIOUS
  <2>3. jobs'[j] \in JobType /\ jobs' = [jobs EXCEPT ![j] = jobs'[j]]
    BY <2>1, <2>2 DEF Panics, Becomes, JobType, Idle, IsConfiguration, Gone
  <2>4. QED BY <2>1, <2>3 DEF Panics, At
<1>16. CASE \E j \in Jobs : Send(j)
  <2>1. PICK j \in Jobs : Send(j)
    BY <1>16
  <2>2. jobs[j] \in JobType
    OBVIOUS
  <2>a. [jobs[j] EXCEPT !.pc = "report", !.err = TRUE] \in JobType
        /\ [jobs[j] EXCEPT !.pc = "report", !.err = FALSE] \in JobType /\ Idle \in JobType
    BY <2>2 DEF JobType, Idle
  <2>b. PICK ok \in BOOLEAN :
          IF IsConfiguration(j)
          THEN /\ Becomes(j, SentResult(j, ok))
               /\ report' = IF ok /\ Once
                            THEN [accepted |-> TRUE, asked |-> jobs[j].asked, seen |-> jobs[j].seen]
                            ELSE report
          ELSE Becomes(j, Idle) /\ report' = report
    BY <2>1 DEF Send
  <2>3. jobs' \in [Jobs -> JobType]
    BY <2>a, <2>b DEF Becomes, SentResult
  <2>4. report' \in [accepted : BOOLEAN, asked : BOOLEAN, seen : BOOLEAN]
    <3>1. jobs[j].asked \in BOOLEAN /\ jobs[j].seen \in BOOLEAN
      BY <2>2 DEF JobType
    <3>2. report' = report \/
          report' = [accepted |-> TRUE, asked |-> jobs[j].asked, seen |-> jobs[j].seen]
      BY <2>b
    <3>a. \A a, b \in BOOLEAN : [accepted |-> TRUE, asked |-> a, seen |-> b]
                                \in [accepted : BOOLEAN, asked : BOOLEAN, seen : BOOLEAN]
      OBVIOUS
    <3>b. [accepted |-> TRUE, asked |-> jobs[j].asked, seen |-> jobs[j].seen]
            \in [accepted : BOOLEAN, asked : BOOLEAN, seen : BOOLEAN]
      BY ONLY <3>1, <3>a
    <3>3. QED BY <3>b, <3>2
  <2>5. QED BY <2>1, <2>3, <2>4 DEF Send
<1>17. CASE \E j \in Jobs : Report(j)
  <2>1. PICK j \in Jobs : Report(j)
    BY <1>17
  <2>2. jobs[j] \in JobType
    OBVIOUS
  <2>3. jobs'[j] \in JobType /\ jobs' = [jobs EXCEPT ![j] = jobs'[j]]
    BY <2>1, <2>2 DEF Report, Becomes, JobType, Idle, IsConfiguration
  <2>4. QED BY <2>1, <2>3 DEF Report, At
<1>18. CASE UNCHANGED vars
  BY <1>18 DEF vars
<1>99. QED BY <1>1, <1>2, <1>3, <1>4, <1>5, <1>6, <1>7, <1>8, <1>9, <1>10,
  <1>11, <1>12, <1>13, <1>14, <1>15, <1>16, <1>17, <1>18 DEF Next, MainStep,
  JobStep

LEMMA StartTypes == Init => WorkerTypes
<1> SUFFICES ASSUME Init PROVE WorkerTypes
  OBVIOUS
<1>1. Idle \in JobType
  BY DEF Idle, JobType
<1>2. LaunchTypes /\ LoopTypes /\ JobTypes
  BY <1>1 DEF Init, LaunchTypes, LoopTypes, JobTypes, Mode, NoReport
<1>3. QED BY <1>2 DEF WorkerTypes

(* The state of the worker and of the cache has its types, for any         *)
(* commands and any number of collections.                                 *)
THEOREM WorkerTypesHold == Spec => []TypeOK
<1> DEFINE Inv == WorkerTypes /\ CapInv
<1>1. Init => Inv
  BY CapStarts, StartTypes
<1>2. Inv /\ [Next]_vars => Inv'
  BY CapKeeps, LaunchKeeps, LoopKeeps, JobsKeep DEF WorkerTypes
<1>3. Inv => TypeOK
  BY DEF WorkerTypes, LaunchTypes, LoopTypes, JobTypes, JobType, CapInv, TypeOK
<1>4. QED BY <1>1, <1>2, <1>3, PTL DEF Spec

(* No collector brings back what another one has just found wrong.         *)
THEOREM NothingInvalidatedIsCached == Spec => []NoInvalidatedSnapshot
<1>1. Init => CapInv
  BY CapStarts
<1>2. CapInv /\ [Next]_vars => CapInv'
  BY CapKeeps
<1>3. CapInv => NoInvalidatedSnapshot
  BY DEF CapInv, CapTracked
<1>4. QED BY <1>1, <1>2, <1>3, PTL DEF Spec

-----------------------------------------------------------------------------
(* A one-shot run has one configuration: its timer is armed, or it is      *)
(* under way, or its result is in the channel, or the worker has returned. *)
(* Only the last two know whether the repeater accepted it.                *)
OneCollection ==
  /\ \A j \in Jobs : jobs[j].kind \in {"none", "configuration"}
  /\ \A j, k \in Jobs :
       jobs[j].kind = "configuration" /\ jobs[k].kind = "configuration" => j = k
  /\ armed => /\ \A j \in Jobs : jobs[j].kind = "none"
              /\ done = <<>> /\ ~report.accepted
  /\ \A j \in Jobs : jobs[j].kind = "configuration" =>
       /\ done = <<>>
       /\ jobs[j].pc \in {"samples", "gather", "strategy", "send", "report"}
       /\ jobs[j].err <=> ~report.accepted
       /\ report.accepted => jobs[j].pc = "report"
  /\ done # <<>> => (done = <<"nil">> <=> report.accepted)
RunTracked ==
  /\ loop = "select" => exit = None /\ result = None
  /\ launched = "oneshot" => OneShot
  /\ launched = "daemon" => ~OneShot
  /\ mode = ByName => launched = "oneshot"
  /\ loop \in {"off", "setup"} =>
       /\ done = <<>> /\ ~report.accepted /\ ~armed
       /\ \A j \in Jobs : jobs[j] = Idle
       /\ result = None
  /\ \A j \in Jobs : jobs[j].kind = "none" => jobs[j] = Idle
  /\ launched = "oneshot" /\ loop = "select" => OneCollection
  /\ result \in {"nil", "error"} =>
       /\ loop = "returned" /\ exit # None
       /\ launched # "daemon"
       /\ launched = "oneshot" => (exit = 0 <=> report.accepted)
  /\ loop = "returned" => exit # None
  /\ loop = "returned" => result # None

(* A step of a collection that neither starts nor ends it.                 *)
LEMMA JobMoves ==
  ASSUME RunTracked, jobs \in [Jobs -> JobType], NEW j \in Jobs,
         jobs[j].pc \notin {"idle", "report"},
         NEW job, jobs' = [jobs EXCEPT ![j] = job],
         \/ job = Idle /\ jobs[j].kind # "configuration"
         \/ /\ job.kind = jobs[j].kind /\ job.err = jobs[j].err
            /\ job.pc \in {"gather", "strategy", "send", "report"},
         UNCHANGED <<launchVars, loopVars, report, exit>>
  PROVE RunTracked'
<1> USE DEF launchVars, loopVars
<1>1. jobs'[j] = job /\ \A k \in Jobs : k # j => jobs'[k] = jobs[k]
  OBVIOUS
<1>2. jobs[j] # Idle
  BY DEF Idle
<1>3. jobs[j].kind # "none" /\ loop \notin {"off", "setup"}
  BY <1>2 DEF RunTracked
<1>4. \A k \in Jobs : jobs'[k].kind = "none" => jobs'[k] = Idle
  BY <1>1, <1>3 DEF RunTracked
<1>5. \A k \in Jobs : jobs'[k].kind = "configuration" =>
        jobs[k].kind = "configuration" /\ jobs'[k].err = jobs[k].err
  BY <1>1 DEF Idle
<1>6. OneCollection => OneCollection'
  <2> SUFFICES ASSUME OneCollection PROVE OneCollection'
    OBVIOUS
  <2>1. \A k \in Jobs : jobs'[k].kind \in {"none", "configuration"}
    BY <1>1 DEF OneCollection, Idle
  <2>2. ~armed /\ done = <<>> /\ ~report.accepted
    BY <1>3 DEF OneCollection
  <2>3. \A k \in Jobs : jobs'[k].kind = "configuration" =>
          jobs'[k].pc \in {"samples", "gather", "strategy", "send", "report"}
    BY <1>1, <1>5 DEF OneCollection, Idle
  <2>4. QED BY <1>5, <2>1, <2>2, <2>3 DEF OneCollection
<1>7. OneShot' = OneShot
  BY DEF OneShot
<1>8. QED BY <1>3, <1>4, <1>6, <1>7 DEF RunTracked

LEMMA RunKeeps == WorkerTypes /\ RunTracked /\ [Next]_vars => RunTracked'
<1> SUFFICES ASSUME WorkerTypes /\ RunTracked, [Next]_vars PROVE RunTracked'
  OBVIOUS
<1> USE DEF RunTracked, OneCollection, OneShot, Idle, launchVars, loopVars,
    jobVars
<1>t. jobs \in [Jobs -> JobType] /\ report.accepted \in BOOLEAN
  BY DEF WorkerTypes, JobTypes
<1>d. done \in {<<>>, <<"nil">>, <<"error">>} /\ None \notin {"nil", "error", "stopped", "recovered", 0, 1, 2, 143}
  BY ExitAssumption DEF WorkerTypes, LoopTypes
<1>1. CASE Launch
  <2>1. UNCHANGED <<result, armed, done, jobs, report>> /\ loop = "off" /\ exit = None
        /\ loop' \in {"off", "setup"}
    BY <1>1 DEF Launch
  <2>2. CASE UNCHANGED <<mode, launched>>
    BY <2>1, <2>2, <1>d
  <2>3. CASE \E cl \in CommandLines :
               /\ Command(cl) = "" /\ mode' = SelectedMode(cl)
               /\ launched' = IF RunsOneShot(cl) THEN "oneshot" ELSE "daemon"
    <3>1. PICK cl \in CommandLines :
               /\ Command(cl) = "" /\ mode' = SelectedMode(cl)
               /\ launched' = IF RunsOneShot(cl) THEN "oneshot" ELSE "daemon"
      BY <2>3
    <3>2. CASE RunsOneShot(cl)
      <4>1. OneShot'
        BY <3>1, <3>2 DEF SelectedMode, Mode, RunsOneShot
      <4>2. QED BY <2>1, <3>1, <3>2, <4>1, <1>d
    <3>3. CASE ~RunsOneShot(cl)
      <4>1. mode' = Mode("Configurations", "Default")
        BY <3>1, <3>3 DEF SelectedMode, RunsOneShot
      <4>2. ~OneShot' /\ mode' # ByName
        BY <4>1 DEF Mode, ByName
      <4>3. QED BY <2>1, <3>1, <3>3, <4>2, <1>d
    <3>4. QED BY <3>2, <3>3
  <2>4. QED BY <1>1, <2>2, <2>3 DEF Launch
<1>2. CASE StartFails
  BY <1>2, ExitAssumption DEF StartFails
<1>3. CASE StartPanics
  BY <1>3, ExitAssumption DEF StartPanics, Return, ExitCode
<1>4. CASE EnterLoop
  BY <1>4, <1>t, <1>d DEF EnterLoop, Strategy
<1>5. CASE Signal
  BY <1>5, <1>t, <1>d DEF Signal, Selecting
<1>6. CASE Terminate
  BY <1>6, ExitAssumption DEF Terminate, MayTerminate, Selecting, Return, ExitCode
<1>7. CASE TakeResult
  <2>1. done \in {<<"nil">>, <<"error">>}
    BY <1>7, <1>d DEF TakeResult
  <2>2. Head(done) = (IF done = <<"nil">> THEN "nil" ELSE "error") /\ done' = <<>>
    BY <1>7, <2>1, Channel DEF TakeResult
  <2>3. CASE OneShot
    BY <1>7, <2>2, <2>3, ExitAssumption DEF TakeResult, Return, ExitCode, Selecting
  <2>4. CASE ~OneShot
    BY <1>7, <2>2, <2>4 DEF TakeResult, Selecting
  <2>5. QED BY <2>3, <2>4
<1>8. CASE Ticks
  <2>1. PICK kind \in {"configuration", "metrics", "queries", "samples"}, j \in Jobs : Tick(kind, j)
    BY <1>8 DEF Ticks
  <2> DEFINE job == [Idle EXCEPT !.kind = kind, !.pc = FirstStep(kind), !.err = Preset]
  <2>2. job.kind = kind /\ job.pc \in {"samples", "gather"} /\ job.err = TRUE
    BY DEF FirstStep, Preset
  <2> HIDE DEF job
  <2>3. /\ jobs' = [jobs EXCEPT ![j] = job] /\ loop = "select" /\ Armed(kind)
        /\ UNCHANGED <<launchVars, loop, result, done, report, exit>>
        /\ armed' = (armed /\ (kind # "configuration" \/ ~OneShot))
    BY <2>1 DEF Tick, Selecting, job
  <2>4. jobs'[j] = job /\ \A k \in Jobs : k # j => jobs'[k] = jobs[k]
    BY <2>3, <1>t
  <2>5. CASE launched = "oneshot"
    <3>1. kind = "configuration" /\ armed /\ ~armed'
      BY <2>3, <2>5 DEF Armed
    <3>2. OneCollection'
      BY <2>2, <2>3, <2>4, <2>5, <3>1
    <3>3. QED BY <2>2, <2>3, <2>4, <2>5, <3>1, <3>2
  <2>6. CASE launched # "oneshot"
    BY <2>2, <2>3, <2>4, <2>6
  <2>7. QED BY <2>5, <2>6
<1>9. CASE ServerStep
  BY <1>9, <1>t, <1>d DEF ServerStep
<1>10. CASE \E j \in Jobs : CollectSamples(j)
  <2>1. PICK j \in Jobs : CollectSamples(j)
    BY <1>10
  <2> DEFINE job == IF IsConfiguration(j) THEN [jobs[j] EXCEPT !.pc = "gather", !.asked = TRUE] ELSE Idle
  <2>2. jobs' = [jobs EXCEPT ![j] = job] /\ jobs[j].pc \in {"samples", "gather", "strategy"}
        /\ UNCHANGED <<launchVars, loopVars, report, exit>>
    BY <2>1 DEF CollectSamples, At, Becomes
  <2>3. jobs[j] \in JobType
    BY <1>t
  <2>4. \/ job = Idle /\ jobs[j].kind # "configuration"
        \/ /\ job.kind = jobs[j].kind /\ job.err = jobs[j].err
           /\ job.pc \in {"gather", "strategy", "send", "report"}
    BY <2>3 DEF JobType, Gone, IsConfiguration
  <2> HIDE DEF job
  <2>5. QED BY ONLY <2>2, <2>4, <1>t, RunTracked, JobMoves
<1>11. CASE \E j \in Jobs : GatherCapabilities(j)
  BY <1>11, <1>t, <1>d DEF GatherCapabilities, At
<1>12. CASE \E j \in Jobs : Gather(j)
  <2>1. PICK j \in Jobs : Gather(j)
    BY <1>12
  <2> DEFINE job == [jobs[j] EXCEPT !.pc = IF jobs[j].kind = "queries" THEN "send" ELSE "strategy",
                                    !.seen = Once /\ samples.found]
  <2>2. jobs' = [jobs EXCEPT ![j] = job] /\ jobs[j].pc \in {"samples", "gather", "strategy"}
        /\ UNCHANGED <<launchVars, loopVars, report, exit>>
    BY <2>1 DEF Gather, At, Becomes
  <2>3. jobs[j] \in JobType
    BY <1>t
  <2>4. \/ job = Idle /\ jobs[j].kind # "configuration"
        \/ /\ job.kind = jobs[j].kind /\ job.err = jobs[j].err
           /\ job.pc \in {"gather", "strategy", "send", "report"}
    BY <2>3 DEF JobType, Gone, IsConfiguration
  <2> HIDE DEF job
  <2>5. QED BY ONLY <2>2, <2>4, <1>t, RunTracked, JobMoves
<1>13. CASE \E j \in Jobs : GatherFails(j)
  <2>1. PICK j \in Jobs : GatherFails(j)
    BY <1>13
  <2> DEFINE job == Gone(j)
  <2>2. jobs' = [jobs EXCEPT ![j] = job] /\ jobs[j].pc \in {"samples", "gather", "strategy"}
        /\ UNCHANGED <<launchVars, loopVars, report, exit>>
    BY <2>1 DEF GatherFails, At, Becomes
  <2>3. jobs[j] \in JobType
    BY <1>t
  <2>4. \/ job = Idle /\ jobs[j].kind # "configuration"
        \/ /\ job.kind = jobs[j].kind /\ job.err = jobs[j].err
           /\ job.pc \in {"gather", "strategy", "send", "report"}
    BY <2>3 DEF JobType, Gone, IsConfiguration
  <2> HIDE DEF job
  <2>5. QED BY ONLY <2>2, <2>4, <1>t, RunTracked, JobMoves
<1>14. CASE \E j \in Jobs : ChooseStrategy(j)
  <2>1. PICK j \in Jobs : ChooseStrategy(j)
    BY <1>14
  <2> DEFINE job == [jobs[j] EXCEPT !.pc = "send"]
  <2>2. jobs' = [jobs EXCEPT ![j] = job] /\ jobs[j].pc \in {"samples", "gather", "strategy"}
        /\ UNCHANGED <<launchVars, loopVars, report, exit>>
    BY <2>1 DEF ChooseStrategy, At, Becomes
  <2>3. jobs[j] \in JobType
    BY <1>t
  <2>4. \/ job = Idle /\ jobs[j].kind # "configuration"
        \/ /\ job.kind = jobs[j].kind /\ job.err = jobs[j].err
           /\ job.pc \in {"gather", "strategy", "send", "report"}
    BY <2>3 DEF JobType, Gone, IsConfiguration
  <2> HIDE DEF job
  <2>5. QED BY ONLY <2>2, <2>4, <1>t, RunTracked, JobMoves
<1>15. CASE \E j \in Jobs : Panics(j)
  <2>1. PICK j \in Jobs : Panics(j)
    BY <1>15
  <2> DEFINE job == Gone(j)
  <2>2. jobs' = [jobs EXCEPT ![j] = job] /\ jobs[j].pc \in {"samples", "gather", "strategy"}
        /\ UNCHANGED <<launchVars, loopVars, report, exit>>
    BY <2>1 DEF Panics, At, Becomes
  <2>3. jobs[j] \in JobType
    BY <1>t
  <2>4. \/ job = Idle /\ jobs[j].kind # "configuration"
        \/ /\ job.kind = jobs[j].kind /\ job.err = jobs[j].err
           /\ job.pc \in {"gather", "strategy", "send", "report"}
    BY <2>3 DEF JobType, Gone, IsConfiguration
  <2> HIDE DEF job
  <2>5. QED BY ONLY <2>2, <2>4, <1>t, RunTracked, JobMoves
<1>16. CASE \E j \in Jobs : Send(j)
  <2>1. PICK j \in Jobs : Send(j)
    BY <1>16
  <2>2. PICK ok \in BOOLEAN :
          IF IsConfiguration(j)
          THEN /\ Becomes(j, SentResult(j, ok))
               /\ report' = IF ok /\ Once
                            THEN [accepted |-> TRUE, asked |-> jobs[j].asked, seen |-> jobs[j].seen]
                            ELSE report
          ELSE Becomes(j, Idle) /\ report' = report
    BY <2>1 DEF Send
  <2>3. jobs[j].pc = "send" /\ exit = None /\ UNCHANGED <<launchVars, loopVars, exit>>
    BY <2>1 DEF Send, At
  <2>4. loop \notin {"off", "setup"} /\ jobs[j].kind # "none" /\ jobs[j] \in JobType
    BY <2>3, <1>t
  <2>5. CASE IsConfiguration(j)
    <3> DEFINE job == SentResult(j, ok)
    <3>1. job.kind = "configuration" /\ job.pc = "report" /\ job.err = ~ok
      BY <2>4, <2>5 DEF SentResult, IsConfiguration, JobType
    <3>2. jobs' = [jobs EXCEPT ![j] = job]
      BY <2>2, <2>5 DEF Becomes
    <3> HIDE DEF job
    <3>3. jobs'[j] = job /\ \A k \in Jobs : k # j => jobs'[k] = jobs[k]
      BY <3>2, <1>t
    <3>4. report'.accepted <=> ((ok /\ Once) \/ report.accepted)
      <4>1. CASE ok /\ Once
        <5>1. report' = [accepted |-> TRUE, asked |-> jobs[j].asked, seen |-> jobs[j].seen]
          BY <2>2, <2>5, <4>1
        <5>2. QED BY <4>1, <5>1
      <4>2. CASE ~(ok /\ Once)
        <5>1. report' = report
          BY <2>2, <2>5, <4>2
        <5>2. QED BY <4>2, <5>1
      <4>3. QED BY <4>1, <4>2
    <3>5. CASE launched = "oneshot" /\ loop = "select"
      <4>1. ~report.accepted /\ ~armed /\ done = <<>> /\ (report'.accepted <=> ok)
        BY <2>3, <2>5, <3>4, <3>5 DEF IsConfiguration, Once
      <4>2. OneCollection'
        BY <2>3, <2>5, <3>1, <3>3, <3>5, <4>1 DEF IsConfiguration
      <4>3. QED BY <2>3, <2>4, <3>1, <3>3, <3>5, <4>2
    <3>6. CASE ~(launched = "oneshot" /\ loop = "select")
      BY <2>3, <2>4, <2>5, <3>1, <3>3, <3>4, <3>6 DEF Once, IsConfiguration
    <3>7. QED BY <3>5, <3>6
  <2>6. CASE ~IsConfiguration(j)
    <3>1. report' = report /\ jobs' = [jobs EXCEPT ![j] = Idle]
      BY <2>2, <2>6 DEF Becomes
    <3>2. jobs'[j] = Idle /\ \A k \in Jobs : k # j => jobs'[k] = jobs[k]
      BY <3>1, <1>t
    <3>3. launched = "oneshot" /\ loop = "select" => OneCollection'
      BY <2>3, <2>6, <3>1, <3>2 DEF IsConfiguration
    <3>4. QED BY <2>3, <2>4, <3>1, <3>2, <3>3
  <2>7. QED BY <2>5, <2>6
<1>17. CASE \E j \in Jobs : Report(j)
  <2>1. PICK j \in Jobs : Report(j)
    BY <1>17
  <2>2. done' = <<IF jobs[j].err THEN "error" ELSE "nil">> /\ jobs' = [jobs EXCEPT ![j] = Idle]
    BY <2>1, Channel DEF Report, HasRoom, Becomes
  <2>3. done' \in {<<"nil">>, <<"error">>} /\ (done' = <<"nil">> <=> ~jobs[j].err) /\ done' # <<>>
    BY <2>2, Channel
  <2>4. jobs[j].pc = "report" /\ exit = None /\ done = <<>>
        /\ UNCHANGED <<launchVars, loop, result, armed, report, exit>>
    BY <2>1 DEF Report, At, HasRoom
  <2>5. jobs'[j] = Idle /\ \A k \in Jobs : k # j => jobs'[k] = jobs[k]
    BY <2>2, <1>t
  <2>6. loop \notin {"off", "setup"} /\ jobs[j].kind # "none"
    BY <2>4
  <2>7. launched = "oneshot" /\ loop = "select" => OneCollection'
    BY <2>3, <2>4, <2>5, <2>6
  <2>8. QED BY <2>4, <2>5, <2>6, <2>7
<1>18. CASE UNCHANGED vars
  BY <1>18, <1>t, <1>d DEF vars
<1>99. QED BY <1>1, <1>2, <1>3, <1>4, <1>5, <1>6, <1>7, <1>8, <1>9, <1>10,
  <1>11, <1>12, <1>13, <1>14, <1>15, <1>16, <1>17, <1>18 DEF Next, MainStep,
  JobStep

(* The exit codes of runs that end otherwise than with the result of a     *)
(* collection: none is 0 before the loop but for a recovered panic.        *)
EndTracked ==
  /\ loop = "off" => launched = ""
  /\ loop = "setup" => exit # 0
  /\ result \in {"stopped", "recovered"} => exit = 0

LEMMA EndKeeps == WorkerTypes /\ RunTracked /\ EndTracked /\ [Next]_vars => EndTracked'
<1> SUFFICES ASSUME WorkerTypes /\ RunTracked /\ EndTracked, [Next]_vars PROVE EndTracked'
  OBVIOUS
<1> USE DEF EndTracked, launchVars, loopVars
<1>d. done \in {<<>>, <<"nil">>, <<"error">>} /\ None \notin {"nil", "error", "stopped", "recovered", 0, 1, 2, 143}
  BY ExitAssumption DEF WorkerTypes, LoopTypes
<1>1. ASSUME UNCHANGED <<launched, loop, result, exit>> PROVE EndTracked'
  BY <1>1
<1>2. CASE Launch
  BY <1>2, <1>d DEF Launch
<1>3. CASE StartFails
  BY <1>3, <1>d DEF StartFails
<1>4. CASE StartPanics \/ Terminate
  BY <1>4 DEF StartPanics, Terminate, Return, ExitCode
<1>5. CASE EnterLoop
  BY <1>5 DEF EnterLoop
<1>6. CASE TakeResult
  <2>1. Head(done) \in {"nil", "error"}
    BY <1>6, <1>d, Channel DEF TakeResult
  <2>2. QED BY <1>6, <1>1, <2>1 DEF TakeResult, Return
<1>7. CASE Signal \/ Ticks
  BY <1>1, <1>7 DEF Signal, Ticks, Tick
<1>8. CASE ServerStep \/ UNCHANGED vars
  BY <1>1, <1>8 DEF ServerStep, vars
<1>9. CASE \E j \in Jobs : JobStep(j)
  BY <1>1, <1>9
  DEF JobStep, CollectSamples, GatherCapabilities, Gather, GatherFails, ChooseStrategy, Panics,
      Send, Report
<1>10. QED BY <1>2, <1>3, <1>4, <1>5, <1>6, <1>7, <1>8, <1>9 DEF Next, MainStep

-----------------------------------------------------------------------------
(* The named task queries_optimization: its collection asks for the sample *)
(* queries first, and no collection follows one that was accepted.         *)
SamplesTracked ==
  mode = ByName /\ env.optimize =>
    /\ \A j \in Jobs : jobs[j].kind = "configuration" /\ jobs[j].pc # "samples" => jobs[j].asked
    /\ \A j \in Jobs : jobs[j].pc \in {"strategy", "send"} => (samples.found => jobs[j].seen)
    /\ report.accepted => report.asked /\ (samples.found => report.seen)

(* While a collection of a one-shot run is under way no other one is.      *)
LEMMA OneJob ==
  ASSUME WorkerTypes, RunTracked, mode = ByName, exit = None,
         NEW j \in Jobs, jobs[j].pc # "idle"
  PROVE /\ jobs[j].kind = "configuration" /\ launched = "oneshot" /\ loop = "select"
        /\ \A k \in Jobs : k # j => jobs[k] = Idle
        /\ report.accepted => jobs[j].pc = "report"
<1>1. launched = "oneshot" /\ jobs[j] # Idle
  BY DEF RunTracked, Idle
<1>2. loop = "select"
  BY <1>1 DEF RunTracked, WorkerTypes, LoopTypes
<1>3. jobs[j].kind = "configuration"
  BY <1>1, <1>2 DEF RunTracked, OneCollection
<1>4. QED BY <1>1, <1>2, <1>3 DEF RunTracked, OneCollection

LEMMA SamplesKeep == WorkerTypes /\ RunTracked /\ SamplesTracked /\ [Next]_vars => SamplesTracked'
<1> SUFFICES ASSUME WorkerTypes /\ RunTracked /\ SamplesTracked, [Next]_vars PROVE SamplesTracked'
  OBVIOUS
<1> USE DEF SamplesTracked, launchVars, loopVars, jobVars
<1>t. jobs \in [Jobs -> JobType] /\ report \in [accepted : BOOLEAN, asked : BOOLEAN, seen : BOOLEAN]
  BY DEF WorkerTypes, JobTypes
<1>o. ByName.name = "TaskByName"
  BY DEF ByName, Mode
<1>1. CASE Launch
  <2>1. /\ UNCHANGED <<env, jobs, samples, report>>
        /\ ~report.accepted /\ \A j \in Jobs : jobs[j] = Idle
    BY <1>1 DEF Launch, RunTracked
  <2>2. QED BY <2>1 DEF Idle
<1>2. CASE StartFails
  BY <1>2 DEF StartFails
<1>3. CASE StartPanics
  BY <1>3 DEF StartPanics, Return, ExitCode
<1>4. CASE EnterLoop
  <2>1. UNCHANGED <<mode, env, jobs, report>> /\ ~report.accepted /\ \A j \in Jobs : jobs[j] = Idle
    BY <1>4 DEF EnterLoop, RunTracked
  <2>2. QED BY <2>1 DEF Idle
<1>5. CASE Signal
  BY <1>5 DEF Signal, Selecting
<1>6. CASE Terminate
  BY <1>6 DEF Terminate, MayTerminate, Selecting, Return, ExitCode
<1>7. CASE TakeResult
  BY <1>7 DEF TakeResult
<1>8. CASE Ticks
  <2>1. PICK kind \in {"configuration", "metrics", "queries", "samples"}, j \in Jobs : Tick(kind, j)
    BY <1>8 DEF Ticks
  <2>2. UNCHANGED <<mode, env, samples, report>>
    BY <2>1 DEF Tick
  <2>3. CASE mode = ByName /\ env.optimize
    <3>1. FirstStep(kind) = "samples"
      BY <2>1, <2>3, <1>o DEF Tick, Armed, OneShot, FirstStep
    <3>2. jobs'[j].pc = "samples" /\ \A k \in Jobs : k # j => jobs'[k] = jobs[k]
      BY <2>1, <3>1, <1>t DEF Tick, JobType, Idle
    <3>3. QED BY <2>2, <2>3, <3>2
  <2>4. QED BY <2>2, <2>3
<1>9. CASE ServerStep
  BY <1>9 DEF ServerStep
<1>10. CASE \E j \in Jobs : CollectSamples(j)
  <2>1. PICK j \in Jobs : CollectSamples(j)
    BY <1>10
  <2>2. UNCHANGED <<mode, env>> /\ exit = None /\ jobs[j].pc # "idle"
    BY <2>1 DEF CollectSamples, At
  <2>3. CASE mode = ByName /\ env.optimize
    <3>1. /\ jobs[j].kind = "configuration" /\ Once
          /\ \A k \in Jobs : k # j => jobs[k] = Idle
          /\ report.accepted => jobs[j].pc = "report"
      BY <2>2, <2>3, OneJob DEF Once
    <3>2. /\ \A k \in Jobs : k # j => jobs'[k] = Idle
          /\ jobs'[j].asked /\ jobs'[j].pc = "gather"
      BY <2>1, <3>1, <1>t DEF CollectSamples, At, Becomes, JobType, IsConfiguration
    <3>3. ~report.accepted /\ report' = report
      BY <2>1, <2>3, <3>1, <1>t DEF CollectSamples, At
    <3>4. QED BY <2>2, <2>3, <3>1, <3>2, <3>3 DEF Idle
  <2>4. QED BY <2>2, <2>3
<1>11. CASE \E j \in Jobs : GatherCapabilities(j)
  BY <1>11 DEF GatherCapabilities
<1>12. CASE \E j \in Jobs : Gather(j)
  <2>1. PICK j \in Jobs : Gather(j)
    BY <1>12
  <2>2. UNCHANGED <<mode, env>> /\ exit = None /\ jobs[j].pc # "idle"
    BY <2>1 DEF Gather, At
  <2>3. CASE mode = ByName /\ env.optimize
    <3>1. /\ jobs[j].kind = "configuration" /\ Once
          /\ \A k \in Jobs : k # j => jobs[k] = Idle
          /\ report.accepted => jobs[j].pc = "report"
      BY <2>2, <2>3, OneJob DEF Once
    <3>2. /\ \A k \in Jobs : k # j => jobs'[k] = Idle
          /\ jobs'[j].asked = jobs[j].asked /\ (jobs'[j].seen <=> samples.found)
      BY <2>1, <3>1, <1>t DEF Gather, At, Becomes, JobType, IsConfiguration
    <3>3. UNCHANGED <<samples, report>> /\ jobs[j].asked
      BY <2>1, <2>3, <3>1, <1>t DEF Gather, At
    <3>4. QED BY <2>2, <2>3, <3>1, <3>2, <3>3 DEF Idle
  <2>4. QED BY <2>2, <2>3
<1>13. CASE \E j \in Jobs : GatherFails(j)
  <2>1. PICK j \in Jobs : GatherFails(j)
    BY <1>13
  <2>2. UNCHANGED <<mode, env>> /\ exit = None /\ jobs[j].pc # "idle"
    BY <2>1 DEF GatherFails, At
  <2>3. CASE mode = ByName /\ env.optimize
    <3>1. /\ jobs[j].kind = "configuration" /\ Once
          /\ \A k \in Jobs : k # j => jobs[k] = Idle
          /\ report.accepted => jobs[j].pc = "report"
      BY <2>2, <2>3, OneJob DEF Once
    <3>2. /\ \A k \in Jobs : k # j => jobs'[k] = Idle
          /\ jobs'[j].asked = jobs[j].asked /\ jobs'[j].pc = "report"
      BY <2>1, <3>1, <1>t DEF GatherFails, At, Becomes, JobType, IsConfiguration, Gone
    <3>3. UNCHANGED <<samples, report>> /\ jobs[j].asked
      BY <2>1, <2>3, <3>1, <1>t DEF GatherFails, At
    <3>4. QED BY <2>2, <2>3, <3>1, <3>2, <3>3 DEF Idle
  <2>4. QED BY <2>2, <2>3
<1>14. CASE \E j \in Jobs : ChooseStrategy(j)
  <2>1. PICK j \in Jobs : ChooseStrategy(j)
    BY <1>14
  <2>2. UNCHANGED <<mode, env>> /\ exit = None /\ jobs[j].pc # "idle"
    BY <2>1 DEF ChooseStrategy, At
  <2>3. CASE mode = ByName /\ env.optimize
    <3>1. /\ jobs[j].kind = "configuration" /\ Once
          /\ \A k \in Jobs : k # j => jobs[k] = Idle
          /\ report.accepted => jobs[j].pc = "report"
      BY <2>2, <2>3, OneJob DEF Once
    <3>2. /\ \A k \in Jobs : k # j => jobs'[k] = Idle
          /\ jobs'[j].asked = jobs[j].asked /\ jobs'[j].seen = jobs[j].seen
      BY <2>1, <3>1, <1>t DEF ChooseStrategy, At, Becomes, JobType, IsConfiguration, Strategy
    <3>3. samples'.found = samples.found /\ report' = report /\ ~report.accepted
          /\ jobs[j].asked /\ (samples.found => jobs[j].seen)
      BY <2>1, <2>3, <3>1, <1>t DEF ChooseStrategy, At, Strategy
    <3>4. QED BY <2>2, <2>3, <3>1, <3>2, <3>3 DEF Idle
  <2>4. QED BY <2>2, <2>3
<1>15. CASE \E j \in Jobs : Panics(j)
  <2>1. PICK j \in Jobs : Panics(j)
    BY <1>15
  <2>2. UNCHANGED <<mode, env>> /\ exit = None /\ jobs[j].pc # "idle"
    BY <2>1 DEF Panics, At
  <2>3. CASE mode = ByName /\ env.optimize
    <3>1. /\ jobs[j].kind = "configuration" /\ Once
          /\ \A k \in Jobs : k # j => jobs[k] = Idle
          /\ report.accepted => jobs[j].pc = "report"
      BY <2>2, <2>3, OneJob DEF Once
    <3>2. /\ \A k \in Jobs : k # j => jobs'[k] = Idle
          /\ jobs'[j].asked = jobs[j].asked /\ jobs'[j].pc = "report"
      BY <2>1, <3>1, <1>t DEF Panics, At, Becomes, JobType, IsConfiguration, Gone
    <3>3. UNCHANGED <<samples, report>> /\ jobs[j].asked
      BY <2>1, <2>3, <3>1, <1>t DEF Panics, At
    <3>4. QED BY <2>2, <2>3, <3>1, <3>2, <3>3 DEF Idle
  <2>4. QED BY <2>2, <2>3
<1>16. CASE \E j \in Jobs : Send(j)
  <2>1. PICK j \in Jobs : Send(j)
    BY <1>16
  <2>2. UNCHANGED <<mode, env, samples>> /\ exit = None /\ jobs[j].pc = "send"
    BY <2>1 DEF Send, At
  <2>3. CASE mode = ByName /\ env.optimize
    <3>1. /\ jobs[j].kind = "configuration" /\ IsConfiguration(j)
          /\ \A k \in Jobs : k # j => jobs[k] = Idle
          /\ ~report.accepted
      BY <2>2, <2>3, OneJob DEF IsConfiguration
    <3>2. jobs[j].asked /\ (samples.found => jobs[j].seen)
      BY <2>2, <2>3, <3>1
    <3>3. PICK ok \in BOOLEAN :
            /\ jobs' = [jobs EXCEPT ![j] = [jobs[j] EXCEPT !.pc = "report", !.err = ~ok]]
            /\ \/ report' = report
               \/ report' = [accepted |-> TRUE, asked |-> jobs[j].asked, seen |-> jobs[j].seen]
      BY <2>1, <3>1 DEF Send, Becomes, SentResult
    <3>4. /\ \A k \in Jobs : k # j => jobs'[k] = Idle
          /\ jobs'[j].asked /\ jobs'[j].pc = "report"
      BY <3>1, <3>2, <3>3, <1>t DEF JobType
    <3> DEFINE Fine == report'.accepted => report'.asked /\ (samples.found => report'.seen)
               sent == [accepted |-> TRUE, asked |-> jobs[j].asked, seen |-> jobs[j].seen]
    <3>5. Fine
      <4>1. report' = report => Fine
        BY <3>1
      <4>2. report' = sent => Fine
        BY <3>2
      <4>3. report' = report \/ report' = sent
        BY <3>3
      <4> HIDE DEF Fine, sent
      <4>4. QED BY ONLY <4>1, <4>2, <4>3
    <3> HIDE DEF sent
    <3>6. \A k \in Jobs : jobs'[k].kind = "configuration" => jobs'[k].asked
      BY <3>2, <3>4 DEF Idle
    <3>7. \A k \in Jobs : jobs'[k].pc \notin {"strategy", "send"}
      BY <3>4 DEF Idle
    <3>8. QED BY <2>2, <3>5, <3>6, <3>7
  <2>4. QED BY <2>2, <2>3
<1>17. CASE \E j \in Jobs : Report(j)
  <2>1. PICK j \in Jobs : Report(j)
    BY <1>17
  <2>2. UNCHANGED <<mode, env>> /\ exit = None /\ jobs[j].pc # "idle"
    BY <2>1 DEF Report, At
  <2>3. CASE mode = ByName /\ env.optimize
    <3>1. /\ jobs[j].kind = "configuration" /\ Once
          /\ \A k \in Jobs : k # j => jobs[k] = Idle
          /\ report.accepted => jobs[j].pc = "report"
      BY <2>2, <2>3, OneJob DEF Once
    <3>2. /\ \A k \in Jobs : k # j => jobs'[k] = Idle
          /\ jobs'[j] = Idle
      BY <2>1, <3>1, <1>t DEF Report, At, Becomes, JobType, IsConfiguration
    <3>3. UNCHANGED <<samples, report>>
      BY <2>1, <2>3, <3>1, <1>t DEF Report, At
    <3>4. QED BY <2>2, <2>3, <3>1, <3>2, <3>3 DEF Idle
  <2>4. QED BY <2>2, <2>3
<1>18. CASE UNCHANGED vars
  BY <1>18 DEF vars
<1>99. QED BY <1>1, <1>2, <1>3, <1>4, <1>5, <1>6, <1>7, <1>8, <1>9, <1>10,
  <1>11, <1>12, <1>13, <1>14, <1>15, <1>16, <1>17, <1>18 DEF Next, MainStep,
  JobStep

-----------------------------------------------------------------------------
Everything == WorkerTypes /\ CapInv /\ RunTracked /\ EndTracked /\ SamplesTracked

LEMMA Tracked == Spec => []Everything
<1>1. Init => Everything
  <2> SUFFICES ASSUME Init PROVE Everything
    OBVIOUS
  <2>1. CapInv
    BY CapStarts
  <2>2. WorkerTypes
    BY StartTypes
  <2>3. RunTracked /\ EndTracked /\ SamplesTracked
    BY ExitAssumption DEF Init, RunTracked, EndTracked, SamplesTracked, ByName, Mode, Idle, NoReport
  <2>4. QED BY <2>1, <2>2, <2>3 DEF Everything
<1>2. Everything /\ [Next]_vars => Everything'
  BY CapKeeps, LaunchKeeps, LoopKeeps, JobsKeep, RunKeeps, EndKeeps, SamplesKeep DEF WorkerTypes, Everything
<1>3. QED BY <1>1, <1>2, PTL DEF Spec

(* A one-shot run whose collection was accepted exits with 0, and one that *)
(* exits with 0 without was stopped by a signal or panicked at its start   *)
(* (RunWorker, main, HandlePanic).                                         *)
THEOREM Honest == Spec => []ExitIsHonest
<1>1. ASSUME Everything PROVE ExitIsHonest
  <2> SUFFICES ASSUME launched = "oneshot", exit # None
               PROVE /\ report.accepted => exit = 0
                     /\ exit = 0 => report.accepted \/ result \in {"stopped", "recovered"}
    BY DEF ExitIsHonest
  <2>1. /\ RunTracked /\ loop \in {"off", "setup", "select", "returned"}
        /\ result \in {None, "nil", "error", "stopped", "recovered"}
    BY <1>1 DEF Everything, WorkerTypes, LoopTypes
  <2>2. loop \in {"setup", "returned"}
    BY <1>1, <2>1 DEF Everything, RunTracked, EndTracked
  <2>3. CASE loop = "setup"
    BY <1>1, <2>1, <2>3 DEF Everything, RunTracked, EndTracked
  <2>4. CASE loop = "returned"
    BY <1>1, <2>1, <2>4, ExitAssumption DEF Everything, RunTracked, EndTracked
  <2>5. QED BY <2>2, <2>3, <2>4
<1>2. QED BY <1>1, Tracked, PTL

(* A daemon's worker returns for a signal, or a recovered panic of its     *)
(* start, and never with the result of a collection (RunWorker).           *)
THEOREM Stays == Spec => []DaemonStays
<1>1. Everything => DaemonStays
  BY ExitAssumption DEF Everything, WorkerTypes, LoopTypes, RunTracked, DaemonStays
<1>2. QED BY <1>1, Tracked, PTL

(* What the named task queries_optimization reports was gathered after the *)
(* sample queries were asked for, with all that were found (RunWorker).    *)
THEOREM SamplesAreReported == Spec => []SamplesReachReport
<1>1. Everything => SamplesReachReport
  BY DEF Everything, SamplesTracked, SamplesReachReport
<1>2. QED BY <1>1, Tracked, PTL

=============================================================================
