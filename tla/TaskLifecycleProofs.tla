---- MODULE TaskLifecycleProofs ----
(***************************************************************************)
(* The safety properties of TaskLifecycle, for any number of tasks and     *)
(* runs, any mix of task types and any exit codes of the configurer.       *)
(***************************************************************************)
EXTENDS TaskLifecycle, TLAPS

(* What is known of a run of a task of type id at each of its steps.       *)
Idle(run) == run.did = {} /\ run.exit = 0 /\ run.status = 0
Fetched(run, id) ==
  /\ id \in {0, 4, 5, 8} => "file" \in run.did
  /\ id = 4 => "recommendations" \in run.did
Local(id, inst) == id \in {4, 5, 8} => inst = "local"
Configurable(id, inst) == id \in {0, 1, 2, 3, 4, 5, 8} /\ Local(id, inst)

RunInv(run, id, inst) ==
  /\ run.pc \in {"free", "armed", "got", "panicked", "lost"} => Idle(run)
  /\ run.pc = "recommend" => Idle(run) /\ id = 4 /\ Local(id, inst)
  /\ run.pc = "download" =>
       /\ id \in {0, 4, 5, 8} /\ Local(id, inst)
       /\ run.did \cap {"touched", "rolledback"} = {}
       /\ id = 4 => "recommendations" \in run.did
  /\ run.pc = "configure" =>
       /\ Configurable(id, inst) /\ Fetched(run, id)
       /\ run.did \cap {"touched", "rolledback"} = {}
  /\ run.pc = "rollback" => run.exit = 7 /\ run.status = 4 /\ id \in {0, 5, 8}
  /\ run.pc = "variables" =>
       /\ id = 4 /\ Local(id, inst) /\ Fetched(run, id) /\ "configured" \in run.did
       /\ "rolledback" \notin run.did
  /\ run.pc = "cloud" => Idle(run) /\ id \in {4, 5, 8} /\ inst # "local"
  /\ run.pc = "schema" => Idle(run) /\ id = 6
  /\ run.pc = "explain" => Idle(run) /\ id = 7
  /\ run.pc = "send" =>
       id = 7 /\ run.did = {"explained"} /\ run.exit = 0 /\ run.status = 1
  /\ run.pc \in {"settle", "reported"} /\ run.status = 1 =>
       RequiredAt(id, run.exit, inst) \subseteq run.did
  /\ "rolledback" \in run.did => run.exit = 7 /\ run.status = 4
  /\ "touched" \in run.did => Fetched(run, id)

IInv == TypeOK /\ \A r \in Runs : RunInv(runs[r], TypeOf(r), agent.instance)

(* Replacing one run by a record that fits keeps the invariant.            *)
LEMMA ReplaceRun ==
  ASSUME IInv, NEW r \in Runs, NEW run \in RunRecords,
         runs' = [runs EXCEPT ![r] = run], type' = type, agent' = agent,
         RunInv(run, type[run.task], agent.instance)
  PROVE  /\ runs' \in [Runs -> RunRecords]
         /\ \A q \in Runs : RunInv(runs'[q], type'[runs'[q].task], agent'.instance)
<1>1. runs \in [Runs -> RunRecords] BY DEF IInv, TypeOK
<1>2. runs' \in [Runs -> RunRecords] BY <1>1
<1>3. ASSUME NEW q \in Runs PROVE RunInv(runs'[q], type'[runs'[q].task], agent'.instance)
  <2>1. CASE q = r
    <3>1. runs'[q] = run BY <1>1, <2>1
    <3> QED BY <3>1
  <2>2. CASE q # r
    <3>1. runs'[q] = runs[q] BY <1>1, <2>2
    <3>2. RunInv(runs[q], type[runs[q].task], agent.instance) BY DEF IInv, TypeOf
    <3> QED BY <3>1, <3>2
  <2> QED BY <2>1, <2>2
<1> QED BY <1>2, <1>3

LEMMA ReplaceKeepsInvariant ==
  ASSUME IInv, NEW r \in Runs, NEW run \in RunRecords,
         Executes(r, run), RunInv(run, type[run.task], agent.instance)
  PROVE  IInv'
<1>1. runs' = [runs EXCEPT ![r] = run] /\ type' = type /\ agent' = agent BY DEF Executes
<1>2. /\ runs' \in [Runs -> RunRecords]
      /\ \A q \in Runs : RunInv(runs'[q], type'[runs'[q].task], agent'.instance)
  BY <1>1, ReplaceRun
<1>3. TypeOK' BY <1>2 DEF IInv, TypeOK, Executes
<1> QED BY <1>2, <1>3 DEF IInv, TypeOf

LEMMA ReplaceAndSend ==
  ASSUME IInv, NEW r \in Runs, NEW run \in RunRecords, NEW t \in Tasks,
         NEW s \in {0, 1, 3, 4}, SendStatus(t, s),
         runs' = [runs EXCEPT ![r] = run], UNCHANGED <<up, type, agent>>,
         RunInv(run, type[run.task], agent.instance)
  PROVE  IInv'
<1>2. /\ runs' \in [Runs -> RunRecords]
      /\ \A q \in Runs : RunInv(runs'[q], type'[runs'[q].task], agent'.instance)
  BY ReplaceRun
<1>3. heard' \in [Tasks -> {0, 1, 3, 4}] /\ late' \subseteq Tasks \X {0, 1, 3, 4}
  <2>1. CASE heard' = [heard EXCEPT ![t] = s] /\ UNCHANGED late
    BY <2>1 DEF IInv, TypeOK
  <2>2. CASE late' = late \cup {<<t, s>>} /\ UNCHANGED heard
    BY <2>2 DEF IInv, TypeOK
  <2> QED BY <2>1, <2>2 DEF SendStatus
<1>4. TypeOK' BY <1>2, <1>3 DEF IInv, TypeOK
<1> QED BY <1>2, <1>4 DEF IInv, TypeOf

----------------------------------------------------------------------------
(* Fields of the records the actions build.                                *)
LEMMA SettledFields ==
  ASSUME NEW run \in RunRecords, NEW e \in Nat, NEW s \in {0, 1, 4}, NEW d \in SUBSET Effects
  PROVE  /\ Settled(run, e, s, d) \in RunRecords
         /\ Settled(run, e, s, d).pc = "settle"
         /\ Settled(run, e, s, d).task = run.task
         /\ Settled(run, e, s, d).exit = e
         /\ Settled(run, e, s, d).status = s
         /\ Settled(run, e, s, d).did = run.did \cup d
BY DEF Settled, RunRecords, Steps

LEMMA FailedFields ==
  ASSUME NEW run \in RunRecords, NEW e \in Nat
  PROVE  /\ Settled(run, e, 4, {}) \in RunRecords
         /\ Settled(run, e, 4, {}).pc = "settle"
         /\ Settled(run, e, 4, {}).task = run.task
         /\ Settled(run, e, 4, {}).exit = e
         /\ Settled(run, e, 4, {}).status = 4
         /\ Settled(run, e, 4, {}).did = run.did
<1>1. run.did \cup {} = run.did BY DEF RunRecords
<1> QED BY <1>1 DEF Settled, RunRecords, Steps

LEMMA MovedFields ==
  ASSUME NEW run \in RunRecords, NEW pc \in Steps, NEW d \in SUBSET Effects
  PROVE  /\ Moved(run, pc, d) \in RunRecords
         /\ Moved(run, pc, d).pc = pc
         /\ Moved(run, pc, d).task = run.task
         /\ Moved(run, pc, d).exit = run.exit
         /\ Moved(run, pc, d).status = run.status
         /\ Moved(run, pc, d).did = run.did \cup d
BY DEF Moved, RunRecords

LEMMA FreshFields ==
  ASSUME NEW pc \in Steps \cup Over, NEW t \in Tasks
  PROVE  Fresh(pc, t) \in RunRecords /\ Fresh(pc, t).pc = pc /\ Idle(Fresh(pc, t))
         /\ Fresh(pc, t).task = t
BY DEF Fresh, NoRun, RunRecords, Idle

LEMMA FreshFits ==
  ASSUME NEW pc \in {"free", "armed", "got", "panicked", "lost"}, NEW t \in Tasks
  PROVE  Fresh(pc, t) \in RunRecords /\ RunInv(Fresh(pc, t), type[Fresh(pc, t).task], agent.instance)
<1>1. /\ Fresh(pc, t) \in RunRecords /\ Fresh(pc, t).pc = pc /\ Idle(Fresh(pc, t))
  BY FreshFields DEF Steps, Over
<1>2. /\ Fresh(pc, t).pc \in {"free", "armed", "got", "panicked", "lost"}
      /\ Fresh(pc, t).did = {} /\ Fresh(pc, t).status = 0
  BY <1>1 DEF Idle
<1> QED BY <1>1, <1>2 DEF RunInv

(* A run of the current state is a record that fits.                       *)
LEMMA RunFits ==
  ASSUME IInv, NEW r \in Runs
  PROVE  /\ runs[r] \in RunRecords /\ runs[r].task \in Tasks /\ TypeOf(r) \in Nat
         /\ RunInv(runs[r], TypeOf(r), agent.instance)
BY TypesAssumption DEF IInv, TypeOK, RunRecords, TypeOf

----------------------------------------------------------------------------
(* The actions.                                                            *)
LEMMA NoticeKeeps ==
  ASSUME IInv, NEW r \in Runs, Notice(r) PROVE IInv'
<1>1. PICK t \in Tasks : runs' = [runs EXCEPT ![r] = Fresh("armed", t)] BY DEF Notice
<1>2. Fresh("armed", t) \in RunRecords /\ RunInv(Fresh("armed", t), type[Fresh("armed", t).task], agent.instance)
  BY FreshFits
<1>3. Executes(r, Fresh("armed", t)) BY <1>1 DEF Notice, Executes
<1> QED BY <1>2, <1>3, ReplaceKeepsInvariant

LEMMA GetTaskKeeps ==
  ASSUME IInv, NEW r \in Runs, GetTask(r) PROVE IInv'
<1>1. CASE \E t \in Tasks : Offered(t) /\ runs' = [runs EXCEPT ![r] = Fresh("got", t)]
  <2>1. PICK t \in Tasks : runs' = [runs EXCEPT ![r] = Fresh("got", t)] BY <1>1
  <2>2. Fresh("got", t) \in RunRecords /\ RunInv(Fresh("got", t), type[Fresh("got", t).task], agent.instance)
    BY FreshFits
  <2>3. Executes(r, Fresh("got", t)) BY <2>1 DEF GetTask, Executes
  <2> QED BY <2>2, <2>3, ReplaceKeepsInvariant
<1>2. CASE runs' = [runs EXCEPT ![r] = NoRun(runs[r].task)]
  <2>1. PICK t \in Tasks : t = runs[r].task BY RunFits
  <2>2. NoRun(t) = Fresh("free", t) BY DEF NoRun, Fresh
  <2>3. Fresh("free", t) \in RunRecords /\ RunInv(Fresh("free", t), type[Fresh("free", t).task], agent.instance)
    BY FreshFits
  <2>4. Executes(r, Fresh("free", t)) BY <1>2, <2>1, <2>2 DEF GetTask, Executes
  <2> QED BY <2>3, <2>4, ReplaceKeepsInvariant
<1> QED BY <1>1, <1>2 DEF GetTask

LEMMA ReportStartKeeps ==
  ASSUME IInv, NEW r \in Runs, ReportStart(r) PROVE IInv'
<1>0. PICK run : run = runs[r] OBVIOUS
<1>1. PICK id : id = TypeOf(r) OBVIOUS
<1>2. /\ run \in RunRecords /\ run.task \in Tasks /\ id \in Nat /\ RunInv(run, id, agent.instance)
      /\ run.pc = "got" /\ type[run.task] = id
  BY <1>0, <1>1, RunFits DEF ReportStart, Live, TypeOf
<1>3. Idle(run) BY <1>2 DEF RunInv
<1>4. /\ Begun(run, id, agent.instance).pc = FirstStep(id, agent.instance) /\ Begun(run, id, agent.instance).task = run.task
      /\ Begun(run, id, agent.instance).did = {}
      /\ Begun(run, id, agent.instance).exit = IF id > 8 THEN 4 ELSE 0
      /\ Begun(run, id, agent.instance).status = IF id > 8 THEN 4 ELSE 0
  BY <1>2, <1>3 DEF Begun, RunRecords, Idle
<1>5. FirstStep(id, agent.instance) \in {"download", "configure", "recommend", "cloud", "schema", "explain", "settle"}
  BY <1>2 DEF FirstStep
<1>6. Begun(run, id, agent.instance) \in RunRecords
  BY <1>2, <1>5 DEF Begun, RunRecords, Steps
<1>7. RunInv(Begun(run, id, agent.instance), id, agent.instance)
  <2>1. FirstStep(id, agent.instance) = "download" => id \in {0, 5, 8} /\ Local(id, agent.instance)
    BY <1>2 DEF FirstStep, Local
  <2>2. FirstStep(id, agent.instance) = "configure" => id \in {1, 2, 3}
    BY <1>2 DEF FirstStep
  <2>3. FirstStep(id, agent.instance) = "recommend" => id = 4 /\ Local(id, agent.instance)
    BY <1>2 DEF FirstStep, Local
  <2>4. FirstStep(id, agent.instance) = "cloud" => id \in {4, 5, 8} /\ agent.instance # "local"
    BY <1>2 DEF FirstStep
  <2>5. (FirstStep(id, agent.instance) = "schema" => id = 6) /\ (FirstStep(id, agent.instance) = "explain" => id = 7)
    BY <1>2 DEF FirstStep
  <2>6. Begun(run, id, agent.instance).status # 1
    BY <1>2, <1>4
  <2>7. FirstStep(id, agent.instance) # "settle" => ~(id > 8)
    BY <1>2 DEF FirstStep
  <2> QED BY <1>2, <1>4, <1>5, <2>1, <2>2, <2>3, <2>4, <2>5, <2>6, <2>7
          DEF RunInv, Idle, Configurable, Local, Fetched
<1>8. /\ runs' = [runs EXCEPT ![r] = Begun(run, id, agent.instance)] /\ UNCHANGED <<up, type, agent>>
      /\ SendStatus(run.task, 3)
  BY <1>0, <1>1 DEF ReportStart
<1> QED BY <1>2, <1>4, <1>6, <1>7, <1>8, ReplaceAndSend

LEMMA RecommendKeeps ==
  ASSUME IInv, NEW r \in Runs, Recommend(r) PROVE IInv'
<1>0. PICK run : run = runs[r] OBVIOUS
<1>1. PICK id : id = TypeOf(r) OBVIOUS
<1>2. /\ run \in RunRecords /\ RunInv(run, id, agent.instance) /\ run.pc = "recommend" /\ type[run.task] = id
  BY <1>0, <1>1, RunFits DEF Recommend, Live, TypeOf
<1>3. Idle(run) /\ id = 4 /\ Local(id, agent.instance) BY <1>2 DEF RunInv
<1>4. CASE Executes(r, Moved(run, "download", {"recommendations"}))
  <2>1. PICK new : new = Moved(run, "download", {"recommendations"}) OBVIOUS
  <2>2. /\ new \in RunRecords /\ new.pc = "download" /\ new.task = run.task
        /\ new.did = {"recommendations"} /\ new.status = 0
    BY <1>2, <1>3, <2>1, MovedFields DEF Effects, Steps, Idle
  <2>3. RunInv(new, id, agent.instance) BY <1>3, <2>2 DEF RunInv, Idle
  <2> QED BY <1>2, <1>4, <2>1, <2>2, <2>3, ReplaceKeepsInvariant
<1>5. CASE Executes(r, Settled(run, 1, 4, {}))
  <2>1. PICK new : new = Settled(run, 1, 4, {}) OBVIOUS
  <2>2. /\ new \in RunRecords /\ new.pc = "settle" /\ new.task = run.task
        /\ new.did = {} /\ new.status = 4
    BY <1>2, <1>3, <2>1, FailedFields DEF Idle
  <2>3. RunInv(new, id, agent.instance) BY <2>2 DEF RunInv
  <2> QED BY <1>2, <1>5, <2>1, <2>2, <2>3, ReplaceKeepsInvariant
<1> QED BY <1>0, <1>4, <1>5 DEF Recommend

LEMMA DownloadKeeps ==
  ASSUME IInv, NEW r \in Runs, Download(r) PROVE IInv'
<1>0. PICK run : run = runs[r] OBVIOUS
<1>1. PICK id : id = TypeOf(r) OBVIOUS
<1>2. /\ run \in RunRecords /\ RunInv(run, id, agent.instance) /\ run.pc = "download" /\ type[run.task] = id
  BY <1>0, <1>1, RunFits DEF Download, Live, TypeOf
<1>3. /\ id \in {0, 4, 5, 8} /\ Local(id, agent.instance) /\ run.did \cap {"touched", "rolledback"} = {}
      /\ id = 4 => "recommendations" \in run.did
  BY <1>2 DEF RunInv
<1>4. CASE Executes(r, Moved(run, "configure", {"file"}))
  <2>1. PICK new : new = Moved(run, "configure", {"file"}) OBVIOUS
  <2>2. /\ new \in RunRecords /\ new.pc = "configure" /\ new.task = run.task
        /\ new.did = run.did \cup {"file"}
    BY <1>2, <2>1, MovedFields DEF Effects, Steps
  <2>3. Configurable(id, agent.instance) /\ Fetched(new, id) BY <1>3, <2>2 DEF Configurable, Fetched
  <2>4. RunInv(new, id, agent.instance) BY <1>3, <2>2, <2>3 DEF RunInv
  <2> QED BY <1>2, <1>4, <2>1, <2>2, <2>4, ReplaceKeepsInvariant
<1>5. CASE Executes(r, Settled(run, 1, 4, {}))
  <2>1. PICK new : new = Settled(run, 1, 4, {}) OBVIOUS
  <2>2. /\ new \in RunRecords /\ new.pc = "settle" /\ new.task = run.task
        /\ new.did = run.did /\ new.status = 4
    BY <1>2, <2>1, FailedFields
  <2>3. RunInv(new, id, agent.instance) BY <1>3, <2>2 DEF RunInv
  <2> QED BY <1>2, <1>5, <2>1, <2>2, <2>3, ReplaceKeepsInvariant
<1> QED BY <1>0, <1>4, <1>5 DEF Download

LEMMA ConfigureKeeps ==
  ASSUME IInv, NEW r \in Runs, Configure(r) PROVE IInv'
<1>0. PICK run : run = runs[r] OBVIOUS
<1>1. PICK id : id = TypeOf(r) OBVIOUS
<1>2. /\ run \in RunRecords /\ RunInv(run, id, agent.instance) /\ run.pc = "configure" /\ type[run.task] = id
  BY <1>0, <1>1, RunFits DEF Configure, Live, TypeOf
<1>3. /\ Configurable(id, agent.instance) /\ Fetched(run, id)
      /\ run.did \cap {"touched", "rolledback"} = {}
  BY <1>2 DEF RunInv
<1>4. PICK e \in CommandExits :
        Executes(r, [Settled(run, e, CommandStatus(e),
                       {"touched"} \cup (IF e = 0 THEN {"configured"} ELSE {}))
                     EXCEPT !.pc = AfterConfigure(id, e)])
  BY <1>0, <1>1 DEF Configure
<1>5. PICK d : d = {"touched"} \cup (IF e = 0 THEN {"configured"} ELSE {}) OBVIOUS
<1>6. d \in SUBSET Effects BY <1>5 DEF Effects
<1>7. e \in Nat BY ExitsAssumption
<1>8. CommandStatus(e) \in {0, 1, 4} /\ (CommandStatus(e) = 1 <=> e = 0)
      /\ (e # 0 => CommandStatus(e) = 4)
  BY <1>7 DEF CommandStatus
<1>9. PICK s : s = CommandStatus(e) OBVIOUS
<1>10. PICK pc : pc = AfterConfigure(id, e) OBVIOUS
<1>11. /\ pc \in {"variables", "rollback", "settle"}
       /\ pc = "variables" => e = 0 /\ id = 4
       /\ pc = "rollback" => e = 7 /\ id \in {0, 5, 8}
       /\ pc = "settle" /\ e = 0 => id # 4
  BY <1>7, <1>10 DEF AfterConfigure
<1>12. PICK new : new = [Settled(run, e, s, d) EXCEPT !.pc = pc] OBVIOUS
<1>13. Executes(r, new) BY <1>4, <1>5, <1>9, <1>10, <1>12
<1>14. /\ Settled(run, e, s, d) \in RunRecords /\ Settled(run, e, s, d).task = run.task
       /\ Settled(run, e, s, d).exit = e /\ Settled(run, e, s, d).status = s
       /\ Settled(run, e, s, d).did = run.did \cup d
  BY <1>2, <1>6, <1>7, <1>8, <1>9, SettledFields
<1>15. /\ new \in RunRecords /\ new.pc = pc /\ new.task = run.task /\ new.exit = e
       /\ new.status = s /\ new.did = run.did \cup d
  BY <1>11, <1>12, <1>14 DEF RunRecords, Steps
<1>16. Fetched(new, id) BY <1>3, <1>15 DEF Fetched
<1>17. "rolledback" \notin new.did /\ (e = 0 => "configured" \in new.did)
  BY <1>3, <1>5, <1>15
<1>18. pc = "settle" /\ e = 0 => RequiredAt(id, 0, agent.instance) \subseteq new.did
  <2> SUFFICES ASSUME pc = "settle", e = 0 PROVE RequiredAt(id, 0, agent.instance) \subseteq new.did
    OBVIOUS
  <2>1. id \in {0, 1, 2, 3, 5, 8} /\ (id \in {5, 8} => agent.instance = "local")
    BY <1>3, <1>11 DEF Configurable, Local
  <2>2. RequiredAt(id, 0, agent.instance) = Required(id, agent.instance) BY DEF RequiredAt
  <2>3. Required(id, agent.instance) \subseteq {"file", "configured"} /\ ("file" \in Required(id, agent.instance) => id \in {0, 5, 8})
    BY <2>1 DEF Required
  <2> QED BY <1>16, <1>17, <2>2, <2>3 DEF Fetched
<1>19. RunInv(new, id, agent.instance)
  BY <1>3, <1>8, <1>9, <1>11, <1>15, <1>16, <1>17, <1>18 DEF RunInv, Configurable
<1> QED BY <1>2, <1>13, <1>15, <1>19, ReplaceKeepsInvariant

LEMMA RollBackKeeps ==
  ASSUME IInv, NEW r \in Runs, RollBack(r) PROVE IInv'
<1>0. PICK run : run = runs[r] OBVIOUS
<1>1. PICK id : id = TypeOf(r) OBVIOUS
<1>2. /\ run \in RunRecords /\ RunInv(run, id, agent.instance) /\ run.pc = "rollback" /\ type[run.task] = id
  BY <1>0, <1>1, RunFits DEF RollBack, Live, TypeOf
<1>3. /\ run.exit = 7 /\ run.status = 4 /\ ("touched" \in run.did => Fetched(run, id))
  BY <1>2 DEF RunInv
<1>4. PICK e \in CommandExits :
        Executes(r, Moved(run, "settle", IF e = 0 THEN {"rolledback"} ELSE {}))
  BY <1>0 DEF RollBack
<1>5. PICK d : d = IF e = 0 THEN {"rolledback"} ELSE {} OBVIOUS
<1>6. PICK new : new = Moved(run, "settle", d) OBVIOUS
<1>7. d \in SUBSET Effects /\ "touched" \notin d BY <1>5 DEF Effects
<1>8. /\ new \in RunRecords /\ new.pc = "settle" /\ new.task = run.task /\ new.exit = run.exit
      /\ new.status = run.status /\ new.did = run.did \cup d
  BY <1>2, <1>6, <1>7, MovedFields DEF Steps
<1>9. "touched" \in new.did => Fetched(new, id) BY <1>3, <1>7, <1>8 DEF Fetched
<1>10. RunInv(new, id, agent.instance) BY <1>3, <1>8, <1>9 DEF RunInv
<1> QED BY <1>2, <1>4, <1>5, <1>6, <1>8, <1>10, ReplaceKeepsInvariant

LEMMA SetVariablesKeeps ==
  ASSUME IInv, NEW r \in Runs, SetVariables(r) PROVE IInv'
<1>0. PICK run : run = runs[r] OBVIOUS
<1>1. PICK id : id = TypeOf(r) OBVIOUS
<1>2. /\ run \in RunRecords /\ RunInv(run, id, agent.instance) /\ run.pc = "variables" /\ type[run.task] = id
  BY <1>0, <1>1, RunFits DEF SetVariables, Live, TypeOf
<1>3. /\ id = 4 /\ Local(id, agent.instance) /\ Fetched(run, id) /\ "configured" \in run.did
      /\ "rolledback" \notin run.did
  BY <1>2 DEF RunInv
<1>4. PICK seen \in SUBSET VariableResults :
        Executes(r, Settled(run, VariableExit(seen), IF VariableExit(seen) \in {8, 9} THEN 4 ELSE 1,
                            IF VariableExit(seen) = 0 THEN {"variables"} ELSE {}))
  BY <1>0 DEF SetVariables
<1>5. PICK e : e = VariableExit(seen) OBVIOUS
<1>6. e \in {0, 8, 9, 10} BY <1>5 DEF VariableExit
<1>7. PICK s : s = IF e \in {8, 9} THEN 4 ELSE 1 OBVIOUS
<1>8. PICK d : d = IF e = 0 THEN {"variables"} ELSE {} OBVIOUS
<1>9. PICK new : new = Settled(run, e, s, d) OBVIOUS
<1>10. d \in SUBSET Effects /\ d \subseteq {"variables"} BY <1>8 DEF Effects
<1>11. /\ new \in RunRecords /\ new.pc = "settle" /\ new.task = run.task /\ new.exit = e
       /\ new.status = s /\ new.did = run.did \cup d
  BY <1>2, <1>6, <1>7, <1>9, <1>10, SettledFields
<1>12. Fetched(new, id) /\ "rolledback" \notin new.did BY <1>3, <1>10, <1>11 DEF Fetched
<1>13. s = 1 => RequiredAt(id, e, agent.instance) \subseteq new.did
  <2>1. agent.instance = "local" BY <1>3 DEF Local
  <2>2. Required(id, agent.instance) = {"recommendations", "file", "configured", "variables"}
    BY <1>3, <2>1 DEF Required
  <2>3. CASE e = 0
    <3>1. RequiredAt(id, e, agent.instance) = Required(id, agent.instance) BY <2>3 DEF RequiredAt
    <3> QED BY <1>3, <1>8, <1>11, <1>12, <2>2, <2>3, <3>1 DEF Fetched
  <2>4. CASE e = 10
    <3>1. RequiredAt(id, e, agent.instance) = Required(id, agent.instance) \ {"variables"}
      BY <1>3, <2>1, <2>4 DEF RequiredAt
    <3> QED BY <1>3, <1>11, <1>12, <2>2, <3>1 DEF Fetched
  <2> QED BY <1>6, <1>7, <2>3, <2>4
<1>14. RunInv(new, id, agent.instance) BY <1>11, <1>12, <1>13 DEF RunInv
<1> QED BY <1>2, <1>4, <1>5, <1>7, <1>8, <1>9, <1>11, <1>14, ReplaceKeepsInvariant

(* A failure settles any run that was neither rolled back nor touched.     *)
LEMMA FailureKeeps ==
  ASSUME IInv, NEW r \in Runs, NEW e \in Nat, runs[r].did \cap {"touched", "rolledback"} = {},
         Executes(r, Settled(runs[r], e, 4, {}))
  PROVE  IInv'
<1>0. PICK run : run = runs[r] OBVIOUS
<1>1. PICK new : new = Settled(run, e, 4, {}) OBVIOUS
<1>2. run \in RunRecords BY <1>0, RunFits
<1>3. /\ new \in RunRecords /\ new.pc = "settle" /\ new.task = run.task
      /\ new.did = run.did /\ new.status = 4
  BY <1>1, <1>2, FailedFields
<1>4. RunInv(new, type[new.task], agent.instance) BY <1>0, <1>3 DEF RunInv
<1> QED BY <1>0, <1>1, <1>3, <1>4, ReplaceKeepsInvariant

(* A success settles or moves on a run that had done nothing before.       *)
LEMMA SuccessFields ==
  ASSUME NEW run \in RunRecords, NEW d \in SUBSET Effects, Idle(run)
  PROVE  /\ Settled(run, 0, 1, d) \in RunRecords /\ Settled(run, 0, 1, d).pc = "settle"
         /\ Settled(run, 0, 1, d).task = run.task /\ Settled(run, 0, 1, d).exit = 0
         /\ Settled(run, 0, 1, d).status = 1 /\ Settled(run, 0, 1, d).did = d
<1>1. run.did \cup d = d BY DEF Idle
<1> QED BY <1>1 DEF Settled, RunRecords, Steps

LEMMA CloudApplyKeeps ==
  ASSUME IInv, NEW r \in Runs, CloudApply(r) PROVE IInv'
<1>0. PICK run : run = runs[r] OBVIOUS
<1>1. PICK id : id = TypeOf(r) OBVIOUS
<1>2. /\ run \in RunRecords /\ RunInv(run, id, agent.instance) /\ run.pc = "cloud" /\ type[run.task] = id
      /\ run.task \in Tasks
  BY <1>0, <1>1, RunFits DEF CloudApply, Live, TypeOf
<1>3. /\ Idle(run) /\ id \in {4, 5, 8} /\ agent.instance # "local"
  BY <1>2 DEF RunInv
<1>4. CASE Executes(r, Settled(run, 0, 1, {"cloud"}))
  <2>1. PICK new : new = Settled(run, 0, 1, {"cloud"}) OBVIOUS
  <2>2. /\ new \in RunRecords /\ new.pc = "settle" /\ new.task = run.task
        /\ new.exit = 0 /\ new.did = {"cloud"}
    BY <1>2, <1>3, <2>1, SuccessFields DEF Effects
  <2>3. RequiredAt(id, 0, agent.instance) = {"cloud"} BY <1>3 DEF RequiredAt, Required
  <2>4. RunInv(new, id, agent.instance) BY <2>2, <2>3 DEF RunInv
  <2> QED BY <1>2, <1>4, <2>1, <2>2, <2>4, ReplaceKeepsInvariant
<1>5. CASE \E e \in CloudFailures : Executes(r, Settled(run, e, 4, {}))
  BY <1>0, <1>3, <1>5, FailureKeeps DEF CloudFailures, Idle
<1>6. CASE Executes(r, Fresh("panicked", run.task))
  BY <1>2, <1>6, FreshFits, ReplaceKeepsInvariant
<1> QED BY <1>0, <1>4, <1>5, <1>6 DEF CloudApply

LEMMA SchemaChangeKeeps ==
  ASSUME IInv, NEW r \in Runs, SchemaChange(r) PROVE IInv'
<1>0. PICK run : run = runs[r] OBVIOUS
<1>1. PICK id : id = TypeOf(r) OBVIOUS
<1>2. /\ run \in RunRecords /\ RunInv(run, id, agent.instance) /\ run.pc = "schema" /\ type[run.task] = id
  BY <1>0, <1>1, RunFits DEF SchemaChange, Live, TypeOf
<1>3. Idle(run) /\ id = 6 BY <1>2 DEF RunInv
<1>4. CASE Executes(r, Settled(run, 0, 1, {"schema"}))
  <2>1. PICK new : new = Settled(run, 0, 1, {"schema"}) OBVIOUS
  <2>2. /\ new \in RunRecords /\ new.pc = "settle" /\ new.task = run.task
        /\ new.exit = 0 /\ new.did = {"schema"}
    BY <1>2, <1>3, <2>1, SuccessFields DEF Effects
  <2>3. RequiredAt(id, 0, agent.instance) = {"schema"} BY <1>3 DEF RequiredAt, Required
  <2>4. RunInv(new, id, agent.instance) BY <2>2, <2>3 DEF RunInv
  <2> QED BY <1>2, <1>4, <2>1, <2>2, <2>4, ReplaceKeepsInvariant
<1>5. CASE \E e \in SchemaFailures \cup {10} : Executes(r, Settled(run, e, 4, {}))
  BY <1>0, <1>3, <1>5, FailureKeeps DEF SchemaFailures, Idle
<1> QED BY <1>0, <1>4, <1>5 DEF SchemaChange

LEMMA ExplainKeeps ==
  ASSUME IInv, NEW r \in Runs, Explain(r) PROVE IInv'
<1>0. PICK run : run = runs[r] OBVIOUS
<1>1. PICK id : id = TypeOf(r) OBVIOUS
<1>2. /\ run \in RunRecords /\ RunInv(run, id, agent.instance) /\ run.pc = "explain" /\ type[run.task] = id
  BY <1>0, <1>1, RunFits DEF Explain, Live, TypeOf
<1>3. Idle(run) /\ id = 7 BY <1>2 DEF RunInv
<1>4. CASE Executes(r, [Settled(run, 0, 1, {"explained"}) EXCEPT !.pc = "send"])
  <2>1. PICK done : done = Settled(run, 0, 1, {"explained"}) OBVIOUS
  <2>2. PICK new : new = [done EXCEPT !.pc = "send"] OBVIOUS
  <2>3. /\ done \in RunRecords /\ done.task = run.task /\ done.exit = 0
        /\ done.status = 1 /\ done.did = {"explained"}
    BY <1>2, <1>3, <2>1, SuccessFields DEF Effects
  <2>4. /\ new \in RunRecords /\ new.pc = "send" /\ new.task = run.task /\ new.exit = 0
        /\ new.status = 1 /\ new.did = {"explained"}
    BY <2>2, <2>3 DEF RunRecords, Steps
  <2>5. RunInv(new, id, agent.instance) BY <1>3, <2>4 DEF RunInv
  <2> QED BY <1>2, <1>4, <2>1, <2>2, <2>4, <2>5, ReplaceKeepsInvariant
<1>5. CASE \E e \in ExplainFailures : Executes(r, Settled(run, e, 4, {}))
  BY <1>0, <1>3, <1>5, FailureKeeps DEF ExplainFailures, Idle
<1> QED BY <1>0, <1>4, <1>5 DEF Explain

LEMMA SendResultKeeps ==
  ASSUME IInv, NEW r \in Runs, SendResult(r) PROVE IInv'
<1>0. PICK run : run = runs[r] OBVIOUS
<1>1. PICK id : id = TypeOf(r) OBVIOUS
<1>2. /\ run \in RunRecords /\ RunInv(run, id, agent.instance) /\ run.pc = "send" /\ type[run.task] = id
  BY <1>0, <1>1, RunFits DEF SendResult, Live, TypeOf
<1>3. id = 7 /\ run.did = {"explained"} /\ run.exit = 0 /\ run.status = 1
  BY <1>2 DEF RunInv
<1>4. CASE Executes(r, Moved(run, "settle", {"delivered"}))
  <2>1. PICK new : new = Moved(run, "settle", {"delivered"}) OBVIOUS
  <2>2. /\ new \in RunRecords /\ new.pc = "settle" /\ new.task = run.task
        /\ new.exit = 0 /\ new.did = {"explained", "delivered"}
    BY <1>2, <1>3, <2>1, MovedFields DEF Effects, Steps
  <2>3. RequiredAt(id, 0, agent.instance) = {"explained", "delivered"}
    BY <1>3 DEF RequiredAt, Required
  <2>4. RunInv(new, id, agent.instance) BY <2>2, <2>3 DEF RunInv
  <2> QED BY <1>2, <1>4, <2>1, <2>2, <2>4, ReplaceKeepsInvariant
<1>5. CASE Executes(r, Settled(run, 1, 4, {}))
  BY <1>0, <1>3, <1>5, FailureKeeps
<1> QED BY <1>0, <1>4, <1>5 DEF SendResult

LEMMA FinishKeeps ==
  ASSUME IInv, NEW r \in Runs, Finish(r) PROVE IInv'
<1>0. PICK run : run = runs[r] OBVIOUS
<1>1. PICK id : id = TypeOf(r) OBVIOUS
<1>2. /\ run \in RunRecords /\ RunInv(run, id, agent.instance) /\ run.pc = "settle" /\ type[run.task] = id
      /\ run.task \in Tasks
  BY <1>0, <1>1, RunFits DEF Finish, Live, TypeOf
<1>3. PICK new : new = [run EXCEPT !.pc = "reported"] OBVIOUS
<1>4. /\ new \in RunRecords /\ new.pc = "reported" /\ new.task = run.task /\ new.exit = run.exit
      /\ new.status = run.status /\ new.did = run.did
  BY <1>2, <1>3 DEF RunRecords, Over
<1>5. RunInv(new, id, agent.instance) BY <1>2, <1>4 DEF RunInv, Fetched
<1>6. runs \in [Runs -> RunRecords] BY DEF IInv, TypeOK
<1>7. runs' = [runs EXCEPT ![r] = new] BY <1>0, <1>3, <1>6 DEF Finish
<1>8. run.status \in {0, 1, 3, 4} BY <1>2 DEF RunRecords
<1>9. SendStatus(run.task, run.status) /\ UNCHANGED <<up, type, agent>> BY <1>0 DEF Finish
<1> QED BY <1>2, <1>4, <1>5, <1>7, <1>8, <1>9, ReplaceAndSend

LEMMA EnvironmentKeeps ==
  ASSUME IInv, Crash \/ Restart \/ (\E m \in late : ReceiveLate(m)) PROVE IInv'
<1>1. CASE Crash
  <2>1. ASSUME NEW q \in Runs
        PROVE  runs'[q] \in RunRecords /\ RunInv(runs'[q], type[runs'[q].task], agent.instance)
    <3>1. PICK t \in Tasks : t = runs[q].task BY RunFits
    <3>2. runs'[q] = runs[q] \/ runs'[q] = Fresh("lost", t)
      BY <1>1, <3>1 DEF Crash
    <3> QED BY <3>2, FreshFits, RunFits DEF TypeOf
  <2>2. runs' \in [Runs -> RunRecords]
    <3>1. runs' = [q \in Runs |-> runs'[q]] BY <1>1 DEF Crash
    <3> QED BY <2>1, <3>1
  <2>3. TypeOK' BY <1>1, <2>2 DEF Crash, IInv, TypeOK
  <2> QED BY <1>1, <2>1, <2>3 DEF Crash, IInv, TypeOf
<1>2. CASE Restart BY <1>2 DEF Restart, IInv, TypeOK, TypeOf
<1>3. CASE \E m \in late : ReceiveLate(m)
  <2>1. PICK m \in late : ReceiveLate(m) BY <1>3
  <2>2. m[1] \in Tasks /\ m[2] \in {0, 1, 3, 4} BY DEF IInv, TypeOK
  <2>3. heard' \in [Tasks -> {0, 1, 3, 4}] /\ late' \subseteq Tasks \X {0, 1, 3, 4}
    BY <2>1, <2>2 DEF ReceiveLate, IInv, TypeOK
  <2> QED BY <2>1, <2>3 DEF ReceiveLate, IInv, TypeOK, TypeOf
<1> QED BY <1>1, <1>2, <1>3

----------------------------------------------------------------------------
LEMMA InitEstablishes == Init => IInv
<1> SUFFICES ASSUME Init PROVE IInv OBVIOUS
<1>1. PICK t \in Tasks : runs = [r \in Runs |-> NoRun(t)] BY DEF Init
<1>2. NoRun(t) = Fresh("free", t) BY DEF NoRun, Fresh
<1>3. NoRun(t) \in RunRecords /\ RunInv(NoRun(t), type[NoRun(t).task], agent.instance)
  BY <1>2, FreshFits
<1>4. TypeOK BY <1>1, <1>3 DEF Init, TypeOK
<1> QED BY <1>1, <1>3, <1>4 DEF IInv, TypeOf

LEMMA NextKeeps == IInv /\ [Next]_vars => IInv'
<1> SUFFICES ASSUME IInv, [Next]_vars PROVE IInv' OBVIOUS
<1>1. ASSUME NEW r \in Runs, Notice(r) PROVE IInv' BY <1>1, NoticeKeeps
<1>2. ASSUME NEW r \in Runs, RunStep(r) PROVE IInv'
  BY <1>2, GetTaskKeeps, ReportStartKeeps, RecommendKeeps, DownloadKeeps, ConfigureKeeps,
     RollBackKeeps, SetVariablesKeeps, CloudApplyKeeps, SchemaChangeKeeps, ExplainKeeps,
     SendResultKeeps, FinishKeeps DEF RunStep
<1>3. CASE UNCHANGED vars BY <1>3 DEF vars, IInv, TypeOK, TypeOf
<1> QED BY <1>1, <1>2, <1>3, EnvironmentKeeps DEF Next

(* The strengthened invariant holds in every reachable state.              *)
THEOREM TaskInvariant == Spec => []IInv
BY InitEstablishes, NextKeeps, PTL DEF Spec

(* Every variable keeps its type (tasks/tasks.go, ProcessTask).            *)
THEOREM TaskTypes == Spec => []TypeOK
<1>1. IInv => TypeOK BY DEF IInv
<1> QED BY <1>1, TaskInvariant, PTL

(* A success is reported only for work that was done, in every handler.    *)
THEOREM SuccessEarned == Spec => []SuccessIsEarned
<1>1. IInv => SuccessIsEarned BY DEF IInv, SuccessIsEarned, RunInv
<1> QED BY <1>1, TaskInvariant, PTL

(* A rollback never turns a failed application into a reported success.    *)
THEOREM RollBackNeverHides == Spec => []RolledBackIsFailure
<1>1. IInv => RolledBackIsFailure BY DEF IInv, RolledBackIsFailure, RunInv
<1> QED BY <1>1, TaskInvariant, PTL

(* The live configuration is touched only after every request succeeded.   *)
THEOREM FetchedFirst == Spec => []UntouchedUntilFetched
<1>1. IInv => UntouchedUntilFetched
  BY DEF IInv, UntouchedUntilFetched, RunInv, Fetched
<1> QED BY <1>1, TaskInvariant, PTL
====
