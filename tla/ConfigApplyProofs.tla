---- MODULE ConfigApplyProofs ----
(***************************************************************************)
(* ConfigApply for any set of configurations: no failure of an application *)
(* loses the file it replaces, a rollback restores it, and a task that     *)
(* succeeds installed what it was told to.                                 *)
(***************************************************************************)
EXTENDS ConfigApply, TLAPS

USE DistinctAssumption

----------------------------------------------------------------------------
(* Types.  The ways a step changes the record of the run come first.       *)
LEMMA GoesType ==
  ASSUME run \in Runs, NEW pc \in Steps, Goes(pc) PROVE run' \in Runs
  BY DEF Goes, Runs
LEMMA ExitsType ==
  ASSUME run \in Runs, NEW pc \in Steps, NEW e \in ExitCodes, Exits(pc, e) PROVE run' \in Runs
  BY DEF Exits, Runs
LEMMA FailsMarkedType ==
  ASSUME run \in Runs, NEW m \in Marks, NEW e \in ExitCodes, FailsMarked(m, e) PROVE run' \in Runs
  BY DEF FailsMarked, Runs, Steps, Ended
LEMMA MarkedType ==
  ASSUME run \in Runs, NEW m \in Marks, Marked(m) PROVE run' \in Runs
  BY DEF Marked, Runs
LEMMA ReplacesType ==
  ASSUME run \in Runs, live \in Files, NEW pc \in Steps, Replaces(pc) PROVE run' \in Runs
  BY DEF Replaces, Runs, Marks
LEMMA RestoredType ==
  ASSUME run \in Runs, RestoreEnd
  PROVE  /\ run' \in Runs /\ run'.pc = "rbrestart" /\ run'.before = run.before
         /\ \/ live' = bkp /\ run'.marks = run.marks \ {"restore"}
            \/ live' = live /\ run'.marks = run.marks \cup {"restore"}
PROOF
  <1>1. CASE live' = bkp /\ run' = [run EXCEPT !.pc = "rbrestart", !.marks = @ \ {"restore"}]
    <2>1. run.marks \ {"restore"} \in SUBSET Marks /\ "rbrestart" \in Steps
      BY DEF Runs, Marks, Steps, RollingBack
    <2> QED BY <1>1, <2>1 DEF Runs
  <1>2. CASE live' = live /\ run' = [run EXCEPT !.pc = "rbrestart", !.marks = @ \cup {"restore"}]
    <2>1. run.marks \cup {"restore"} \in SUBSET Marks /\ "rbrestart" \in Steps
      BY DEF Runs, Marks, Steps, RollingBack
    <2> QED BY <1>2, <2>1 DEF Runs
  <1> QED BY <1>1, <1>2 DEF RestoreEnd
LEMMA BegunType ==
  ASSUME run \in Runs, NEW mode \in Modes \cup {"rollback"},
         NEW c \in Files, NEW task \in BOOLEAN, NEW pc \in Steps
  PROVE  Begun(mode, c, task, pc) \in Runs
PROOF
  <1>1. (IF Succeeded THEN None ELSE run.before) \in Files BY DEF Runs, Files
  <1>2. (IF Succeeded THEN {} ELSE run.marks \ {"stale"})
             \cup (IF mode = "rollback" THEN {"hand"} ELSE {}) \in SUBSET Marks
    BY DEF Runs, Marks
  <1>3. 0 \in ExitCodes BY DEF ExitCodes
  <1> QED BY <1>1, <1>2, <1>3 DEF Begun, Runs

LEMMA AllSteps ==
  /\ \A pc \in {"idle", "applied", "skipped", "failed", "rolledback"} : pc \in Steps
  /\ \A pc \in {"check", "backup", "backingup", "copy", "copying", "restart"} : pc \in Steps
  /\ \A pc \in {"remove", "restore", "restoring", "rbrestart", "download"} : pc \in Steps
  BY DEF Steps, Ended, Applying, RollingBack

LEMMA StartType ==
  ASSUME TypeOK, Start PROVE run' \in Runs
PROOF
  <1> USE AllSteps, BegunType DEF TypeOK
  <1>1. CASE DownloadBegin
    <2>1. PICK mode \in Modes, c \in Contents : run' = Begun(mode, c, TRUE, "download")
      BY <1>1 DEF DownloadBegin
    <2> QED BY <2>1 DEF Files
  <1>2. CASE StartByHand
    <2>1. PICK mode \in Modes : run' = Begun(mode, staging, FALSE, "check")
      BY <1>2 DEF StartByHand
    <2> QED BY <2>1
  <1>3. CASE RollBackByHand BY <1>3 DEF RollBackByHand, Files
  <1> QED BY <1>1, <1>2, <1>3 DEF Start

(* Every step keeps the types.                                             *)
LEMMA TypeStep == ASSUME TypeOK, [Next]_vars PROVE TypeOK'
PROOF
  <1> USE GoesType, ExitsType, AllSteps DEF TypeOK, ExitCodes, Files
  <1>1. CASE UNCHANGED vars BY <1>1 DEF vars
  <1>2. CASE GenerateBegin \/ GenerateEnd
    BY <1>2, MarkedType DEF GenerateBegin, GenerateEnd, Marks
  <1>3. CASE Start
    BY <1>3, StartType DEF Start, DownloadBegin, StartByHand, RollBackByHand
  <1>4. CASE DownloadEnd BY <1>4 DEF DownloadEnd, Runs
  <1>5. CASE Refuse \/ Skip \/ Proceed BY <1>5 DEF Refuse, Refusals, Skip, Proceed
  <1>6. CASE BackupBegin BY <1>6, ReplacesType DEF BackupBegin
  <1>7. CASE BackupEnd BY <1>7, FailsMarkedType DEF BackupEnd, Marks
  <1>8. CASE CopyBegin \/ CopyEnd BY <1>8 DEF CopyBegin, CopyEnd
  <1>9. CASE Restart BY <1>9 DEF Restart, RestartCodes, ServerAfter
  <1>10. CASE NoCommand \/ NoRestart BY <1>10 DEF NoCommand, Restarting, NoRestart
  <1>11. CASE RefuseRollBack \/ Remove BY <1>11 DEF RefuseRollBack, Remove
  <1>12. CASE RestoreBegin BY <1>12 DEF RestoreBegin
  <1>13. CASE RestoreEnd BY <1>13, RestoredType DEF RestoreEnd
  <1>14. CASE RollBackRestart BY <1>14 DEF RollBackRestart, RestartCodes, ServerAfter
  <1>15. CASE Kill
    <2>0. server' \in Files \cup {Down} BY <1>15 DEF Kill, ServerAfter
    <2>1. CASE At("backingup")
      <3>1. run.exit \in ExitCodes BY DEF Runs
      <3>2. FailsMarked("backup", run.exit) BY <1>15, <2>1 DEF Kill
      <3>3. run' \in Runs BY <3>1, <3>2, FailsMarkedType DEF Marks
      <3> QED BY <1>15, <2>0, <3>3 DEF Kill
    <2>2. CASE ~At("backingup") BY <1>15, <2>0, <2>2 DEF Kill
    <2> QED BY <2>1, <2>2
  <1> QED BY <1>1, <1>2, <1>3, <1>4, <1>5, <1>6, <1>7, <1>8, <1>9, <1>10, <1>11, <1>12, <1>13,
             <1>14, <1>15 DEF Next, RunStep

LEMMA InitTypes == Init => TypeOK
  BY AllSteps DEF Init, TypeOK, Runs, Files, ExitCodes, Modes

(* Every file is absent, cut short or one of the configurations, and every *)
(* exit code is one of releem.sh's own.                                    *)
THEOREM ConfigTypes == Spec => []TypeOK
  BY InitTypes, TypeStep, PTL DEF Spec

----------------------------------------------------------------------------
(* Where the replaced file is at each step.  While the live file is being  *)
(* replaced the backup is the file.  Afterwards, until a success, it still *)
(* is, unless the copy that makes it was cut short: then the live file is, *)
(* and only a rollback by hand can lose it.                                *)
Forfeited == {"backup", "hand"} \subseteq run.marks
Whereabouts ==
  /\ run.pc \in Steps
  /\ run.pc = "backingup" => run.before = live /\ run.marks \subseteq {"stale"}
  /\ run.pc \in {"copy", "copying", "restart"} => run.before = bkp
  /\ run.pc \in RollingBack => run.before = bkp \/ Forfeited
  /\ ~Succeeded => run.before \in {live, bkp} \/ Forfeited
  /\ Succeeded => bkp = None
  /\ ~Succeeded /\ run.pc # "backingup" /\ "backup" \notin run.marks => run.before = bkp

LEMMA InitWhereabouts == Init => Whereabouts
  BY DEF Init, Whereabouts, Steps, Ended, RollingBack, Succeeded

LEMMA StartWhereabouts == ASSUME TypeOK, Whereabouts, Start PROVE Whereabouts'
PROOF
  <1>0. PICK r \in Runs : r = run BY DEF TypeOK
  <1>1. live' = live /\ bkp' = bkp BY DEF Start, DownloadBegin, StartByHand, RollBackByHand
  <1>2. run.pc \in Ended BY DEF Start, DownloadBegin, StartByHand, RollBackByHand
  <1>3. run'.pc \in {"download", "check", "remove"}
    BY DEF Start, DownloadBegin, StartByHand, RollBackByHand, Begun
  <1>4. run'.before = IF Succeeded THEN None ELSE run.before
    BY DEF Start, DownloadBegin, StartByHand, RollBackByHand, Begun
  <1>5. "backup" \in run'.marks <=> ~Succeeded /\ "backup" \in run.marks
    BY DEF Start, DownloadBegin, StartByHand, RollBackByHand, Begun
  <1>6. ~Succeeded /\ "hand" \in run.marks => "hand" \in run'.marks
    BY DEF Start, DownloadBegin, StartByHand, RollBackByHand, Begun
  <1>7. run'.pc = "remove" => "hand" \in run'.marks
    BY DEF Start, DownloadBegin, StartByHand, RollBackByHand, Begun
  <1>8. ~Succeeded' BY <1>3 DEF Succeeded
  <1>9. "backup" \notin run'.marks => run'.before = bkp
    BY <1>2, <1>4, <1>5 DEF Whereabouts, Ended
  <1>10. run'.pc = "remove" => run'.before = bkp \/ Forfeited'
    BY <1>7, <1>9 DEF Forfeited
  <1>11. run'.before \in {live, bkp} \/ Forfeited'
    BY <1>4, <1>5, <1>6, <1>9 DEF Whereabouts, Forfeited
  <1> QED BY <1>1, <1>3, <1>8, <1>9, <1>10, <1>11
        DEF Whereabouts, Steps, Ended, Applying, RollingBack

LEMMA GenerateWhereabouts ==
  ASSUME TypeOK, Whereabouts, GenerateBegin \/ GenerateEnd \/ UNCHANGED vars PROVE Whereabouts'
PROOF
  <1>1. CASE UNCHANGED vars BY <1>1 DEF Whereabouts, vars, Succeeded, Forfeited
  <1>2. CASE GenerateBegin \/ GenerateEnd
    <2>1. live' = live /\ bkp' = bkp BY <1>2 DEF GenerateBegin, GenerateEnd
    <2>2. /\ run'.pc = run.pc /\ run'.before = run.before
          /\ run'.marks = run.marks \cup {"stale"}
      BY <1>2 DEF GenerateBegin, GenerateEnd, Marked, TypeOK, Runs
    <2> QED BY <2>1, <2>2 DEF Whereabouts, Succeeded, Forfeited
  <1> QED BY <1>1, <1>2

(* A step that only moves the run, touching no file but the live one.      *)
LEMMA Moves ==
  ASSUME TypeOK, NEW pc, Goes(pc) \/ \E e \in ExitCodes : Exits(pc, e)
  PROVE  run'.pc = pc /\ run'.before = run.before /\ run'.marks = run.marks
  BY DEF TypeOK, Runs, Goes, Exits
LEMMA MovesMarked ==
  ASSUME TypeOK, NEW m, NEW e, FailsMarked(m, e)
  PROVE  run'.pc = "failed" /\ run'.before = run.before /\ run'.marks = run.marks \cup {m}
  BY DEF TypeOK, Runs, FailsMarked

LEMMA ApplyWhereabouts ==
  ASSUME TypeOK, Whereabouts,
         DownloadEnd \/ Refuse \/ Skip \/ Proceed \/ BackupBegin \/ BackupEnd \/ CopyBegin \/ CopyEnd
  PROVE  Whereabouts'
PROOF
  <1> USE Moves DEF Whereabouts, Steps, Ended, Applying, RollingBack, Succeeded, Forfeited, At, ExitCodes
  <1>1. CASE DownloadEnd BY <1>1 DEF DownloadEnd
  <1>2. CASE Refuse BY <1>2 DEF Refuse, Refusals
  <1>3. CASE Skip \/ Proceed BY <1>3 DEF Skip, Proceed
  <1>4. CASE BackupBegin
    <2>1. live' = live BY <1>4 DEF BackupBegin
    <2>2. CASE live = None
      <3>1. bkp' = None /\ Replaces("copy") BY <1>4, <2>2 DEF BackupBegin
      <3>2. run'.pc = "copy" /\ run'.before = live BY <3>1 DEF Replaces, TypeOK, Runs
      <3> QED BY <2>1, <2>2, <3>1, <3>2
    <2>3. CASE live # None
      <3>1. Replaces("backingup") BY <1>4, <2>3 DEF BackupBegin
      <3>2. run'.pc = "backingup" /\ run'.before = live /\ run'.marks \subseteq {"stale"}
        BY <3>1 DEF Replaces, TypeOK, Runs
      <3> QED BY <2>1, <3>2
    <2> QED BY <2>2, <2>3
  <1>5. CASE BackupEnd
    <2>1. CASE bkp' = live /\ Goes("copy") BY <1>5, <2>1 DEF BackupEnd
    <2>2. CASE FailsMarked("backup", 1) BY <1>5, <2>2, MovesMarked DEF BackupEnd
    <2> QED BY <1>5, <2>1, <2>2 DEF BackupEnd
  <1>6. CASE CopyBegin BY <1>6 DEF CopyBegin
  <1>7. CASE CopyEnd BY <1>7 DEF CopyEnd
  <1> QED BY <1>1, <1>2, <1>3, <1>4, <1>5, <1>6, <1>7

LEMMA RestartWhereabouts ==
  ASSUME TypeOK, Whereabouts, Restart \/ NoCommand \/ NoRestart PROVE Whereabouts'
PROOF
  <1> USE Moves DEF Whereabouts, Steps, Ended, Applying, RollingBack, Succeeded, Forfeited, At, ExitCodes
  <1>1. CASE Restart
    <2>1. PICK code \in RestartCodes :
            IF code = 0 THEN bkp' = None /\ Exits("applied", 0)
            ELSE bkp' = bkp /\ Exits(IF RollsBack(code) THEN "remove" ELSE "failed", code)
      BY <1>1 DEF Restart
    <2>2. live' = live /\ run.before = bkp BY <1>1 DEF Restart
    <2>3. CASE code = 0 BY <2>1, <2>2, <2>3
    <2>4. CASE code # 0
      <3>1. bkp' = bkp BY <2>1, <2>4
      <3>2. run'.pc \in {"remove", "failed"} /\ run'.before = run.before
        BY <2>1, <2>4 DEF RestartCodes
      <3> QED BY <2>2, <3>1, <3>2
    <2> QED BY <2>3, <2>4
  <1>2. CASE NoCommand BY <1>2 DEF NoCommand, Restarting
  <1>3. CASE NoRestart BY <1>3 DEF NoRestart
  <1> QED BY <1>1, <1>2, <1>3

LEMMA RollBackWhereabouts ==
  ASSUME TypeOK, Whereabouts,
         RefuseRollBack \/ Remove \/ RestoreBegin \/ RestoreEnd \/ RollBackRestart \/ Kill
  PROVE  Whereabouts'
PROOF
  <1> USE Moves DEF Whereabouts, Steps, Ended, Applying, RollingBack, Succeeded, Forfeited, At, ExitCodes
  <1>1. CASE RefuseRollBack BY <1>1 DEF RefuseRollBack
  <1>2. CASE Remove BY <1>2 DEF Remove
  <1>3. CASE RestoreBegin BY <1>3 DEF RestoreBegin
  <1>4. CASE RestoreEnd
    <2>1. bkp' = bkp /\ run'.pc = "rbrestart" /\ run'.before = run.before
      BY <1>4, RestoredType DEF RestoreEnd, TypeOK
    <2>2. \A m \in {"backup", "hand"} : m \in run'.marks <=> m \in run.marks
      BY <1>4, RestoredType DEF TypeOK
    <2>3. run.pc = "restoring" BY <1>4 DEF RestoreEnd
    <2> QED BY <2>1, <2>2, <2>3
  <1>5. CASE RollBackRestart
    <2>1. PICK code \in RestartCodes : IF code = 0 THEN bkp' = None /\ Goes("rolledback")
                                       ELSE bkp' = bkp /\ Exits("failed", code)
      BY <1>5 DEF RollBackRestart
    <2>2. live' = live /\ run.pc = "rbrestart" BY <1>5 DEF RollBackRestart
    <2>3. CASE code = 0 BY <2>1, <2>2, <2>3
    <2>4. CASE code # 0 BY <2>1, <2>2, <2>4 DEF RestartCodes
    <2> QED BY <2>3, <2>4
  <1>6. CASE Kill
    <2>1. CASE At("backingup") BY <1>6, <2>1, MovesMarked DEF Kill
    <2>2. CASE ~At("backingup") BY <1>6, <2>2 DEF Kill
    <2> QED BY <2>1, <2>2
  <1> QED BY <1>1, <1>2, <1>3, <1>4, <1>5, <1>6

THEOREM ConfigInvariant == Spec => [](TypeOK /\ Whereabouts)
PROOF
  <1>1. TypeOK /\ Whereabouts /\ [Next]_vars => Whereabouts'
    BY StartWhereabouts, GenerateWhereabouts, ApplyWhereabouts, RestartWhereabouts,
       RollBackWhereabouts DEF Next, RunStep
  <1> QED BY <1>1, InitWhereabouts, ConfigTypes, PTL DEF Spec

(* No failure and no death of releem.sh loses the replaced configuration   *)
(* (releem.sh:148-208, 592-700), except a rollback by hand from a backup   *)
(* that was cut short.                                                     *)
THEOREM FailureKeepsPrevious == Spec => []PreviousSurvives
PROOF
  <1>1. Whereabouts => PreviousSurvives BY DEF Whereabouts, PreviousSurvives, Forfeited
  <1> QED BY <1>1, ConfigInvariant, PTL

----------------------------------------------------------------------------
(* A rollback about to restart the server has the file in place.           *)
Clean == run.marks \cap {"backup", "restore"} = {}
Restored == run.pc = "rbrestart" /\ Clean => live = run.before

(* A step that neither starts the last restart nor ends it.                *)
LEMMA RestoresStep ==
  ASSUME TypeOK, Whereabouts, Restored, RollBackRestores, [Next]_vars
  PROVE  Restored' /\ RollBackRestores'
PROOF
  <1> USE Moves DEF Restored, RollBackRestores, Clean, Ended, At, ExitCodes
  <1>1. CASE GenerateBegin \/ GenerateEnd
    <2>1. live' = live /\ server' = server BY <1>1 DEF GenerateBegin, GenerateEnd
    <2>2. /\ run'.pc = run.pc /\ run'.before = run.before
          /\ run'.marks = run.marks \cup {"stale"}
      BY <1>1 DEF GenerateBegin, GenerateEnd, Marked, TypeOK, Runs
    <2> QED BY <2>1, <2>2
  <1>2. CASE UNCHANGED vars BY <1>2 DEF vars
  <1>3. CASE Start BY <1>3 DEF Start, DownloadBegin, StartByHand, RollBackByHand, Begun
  <1>4. CASE DownloadEnd \/ Refuse \/ Skip \/ Proceed
    BY <1>4 DEF DownloadEnd, Refuse, Refusals, Skip, Proceed
  <1>5. CASE BackupBegin \/ BackupEnd
    <2>1. run'.pc \in {"backingup", "copy", "failed"}
      BY <1>5, MovesMarked DEF BackupBegin, BackupEnd, Replaces, TypeOK, Runs
    <2> QED BY <2>1
  <1>6. CASE CopyBegin \/ CopyEnd BY <1>6 DEF CopyBegin, CopyEnd
  <1>7. CASE Restart
    <2>1. run'.pc \in {"applied", "remove", "failed"}
      BY <1>7 DEF Restart, RestartCodes, Exits, TypeOK, Runs
    <2> QED BY <2>1
  <1>8. CASE NoCommand \/ NoRestart BY <1>8 DEF NoCommand, Restarting, NoRestart
  <1>9. CASE RefuseRollBack \/ RestoreBegin BY <1>9 DEF RefuseRollBack, RestoreBegin
  <1>10. CASE Remove
    <2>1. run'.before = run.before /\ run'.marks = run.marks /\ live' = None BY <1>10 DEF Remove
    <2>2. run'.pc = IF bkp = None THEN "rbrestart" ELSE "restore" BY <1>10 DEF Remove
    <2>3. Clean => run.before = bkp BY <1>10 DEF Remove, Whereabouts, Succeeded
    <2> QED BY <2>1, <2>2, <2>3
  <1>11. CASE RestoreEnd
    <2>1. run'.pc = "rbrestart" /\ run'.before = run.before BY <1>11, RestoredType DEF TypeOK
    <2>2. Clean' => "backup" \notin run.marks /\ live' = bkp BY <1>11, RestoredType DEF TypeOK
    <2>3. "backup" \notin run.marks => run.before = bkp
      BY <1>11 DEF RestoreEnd, Whereabouts, Succeeded
    <2> QED BY <2>1, <2>2, <2>3
  <1>12. CASE RollBackRestart
    <2>1. PICK code \in RestartCodes :
            /\ server' \in ServerAfter(code)
            /\ IF code = 0 THEN bkp' = None /\ Goes("rolledback")
               ELSE bkp' = bkp /\ Exits("failed", code)
      BY <1>12 DEF RollBackRestart
    <2>2. live' = live /\ run.pc = "rbrestart" BY <1>12 DEF RollBackRestart
    <2>3. CASE code = 0
      <3>1. server' = live BY <2>1, <2>3 DEF ServerAfter
      <3> QED BY <2>1, <2>2, <2>3, <3>1
    <2>4. CASE code # 0 BY <2>1, <2>2, <2>4 DEF RestartCodes
    <2> QED BY <2>3, <2>4
  <1>13. CASE Kill BY <1>13, MovesMarked DEF Kill
  <1> QED BY <1>1, <1>2, <1>3, <1>4, <1>5, <1>6, <1>7, <1>8, <1>9, <1>10, <1>11, <1>12, <1>13
        DEF Next, RunStep

(* Every rollback that succeeds, by a task or by hand and after any number *)
(* of failed attempts, restores the replaced file and leaves the server    *)
(* running with it, if no copy of the backup was cut short                 *)
(* (releem.sh:148-208).                                                    *)
THEOREM RollBackRestoresReplaced == Spec => []RollBackRestores
PROOF
  <1>1. Init => Restored /\ RollBackRestores BY DEF Init, Restored, RollBackRestores
  <1>2. TypeOK /\ Whereabouts /\ Restored /\ RollBackRestores /\ [Next]_vars
          => Restored' /\ RollBackRestores'
    BY RestoresStep
  <1> QED BY <1>1, <1>2, ConfigInvariant, PTL DEF Spec

----------------------------------------------------------------------------
(* What a task selected, step by step: it is in the staging file until the *)
(* copy, and in the live file from then on, while nobody else writes the   *)
(* staging file.                                                           *)
Undisturbed == run.task /\ "stale" \notin run.marks
Selected ==
  Undisturbed =>
    /\ run.pc \in Applying \ {"restart"} => staging = run.want
    /\ run.pc \in {"restart", "applied"} => live = run.want

(* A step that neither starts a run nor writes the staging file.           *)
LEMMA SameTask ==
  ASSUME TypeOK, RunStep \/ Kill
  PROVE  /\ run'.task = run.task /\ run'.want = run.want
         /\ "stale" \in run'.marks <=> "stale" \in run.marks
PROOF
  <1> USE DEF TypeOK, Runs
  <1>1. ASSUME NEW pc, Goes(pc) \/ \E e \in ExitCodes : Exits(pc, e)
        PROVE  run'.task = run.task /\ run'.want = run.want /\ run'.marks = run.marks
    BY <1>1 DEF Goes, Exits
  <1>2. ASSUME NEW m \in Marks \ {"stale"}, NEW e, FailsMarked(m, e)
        PROVE  /\ run'.task = run.task /\ run'.want = run.want
               /\ run'.marks = run.marks \cup {m}
    BY <1>2 DEF FailsMarked
  <1>3. ASSUME NEW pc, Replaces(pc)
        PROVE  /\ run'.task = run.task /\ run'.want = run.want
               /\ run'.marks = run.marks \cap {"stale"}
    BY <1>3 DEF Replaces
  <1>4. CASE DownloadEnd \/ Refuse \/ Skip \/ Proceed \/ CopyBegin \/ CopyEnd
    BY <1>1, <1>4 DEF DownloadEnd, Refuse, Refusals, Skip, Proceed, CopyBegin, CopyEnd, ExitCodes
  <1>5. CASE BackupBegin BY <1>3, <1>5 DEF BackupBegin
  <1>6. CASE BackupEnd BY <1>1, <1>2, <1>6 DEF BackupEnd, Marks
  <1>7. CASE Restart
    <2>1. \E pc \in Steps, e \in ExitCodes : Exits(pc, e)
      <3>1. PICK code \in RestartCodes :
              IF code = 0 THEN bkp' = None /\ Exits("applied", 0)
              ELSE bkp' = bkp /\ Exits(IF RollsBack(code) THEN "remove" ELSE "failed", code)
        BY <1>7 DEF Restart
      <3>2. /\ code \in ExitCodes /\ "applied" \in Steps /\ "remove" \in Steps /\ "failed" \in Steps
        BY AllSteps DEF RestartCodes, ExitCodes
      <3>3. CASE code = 0 BY <3>1, <3>2, <3>3
      <3>4. CASE code # 0
        <4>1. (IF RollsBack(code) THEN "remove" ELSE "failed") \in Steps BY <3>2
        <4> QED BY <3>1, <3>2, <3>4, <4>1
      <3> QED BY <3>3, <3>4
    <2> QED BY <1>1, <2>1
  <1>8. CASE NoCommand \/ NoRestart \/ RefuseRollBack \/ Remove \/ RestoreBegin
    BY <1>1, <1>8 DEF NoCommand, NoRestart, RefuseRollBack, Remove, RestoreBegin, ExitCodes
  <1>9. CASE RestoreEnd
    <2>1. /\ run'.task = run.task /\ run'.want = run.want
          /\ run'.marks = run.marks \ {"restore"} \/ run'.marks = run.marks \cup {"restore"}
      BY <1>9 DEF RestoreEnd
    <2> QED BY <2>1
  <1>10. CASE RollBackRestart
    BY <1>1, <1>10 DEF RollBackRestart, RestartCodes, ExitCodes
  <1>11. CASE Kill BY <1>1, <1>2, <1>11 DEF Kill, Marks
  <1> QED BY <1>4, <1>5, <1>6, <1>7, <1>8, <1>9, <1>10, <1>11 DEF RunStep

LEMMA SelectedStep == ASSUME TypeOK, Selected, [Next]_vars PROVE Selected'
PROOF
  <1> USE DEF Selected, Applying, At
  <1>1. CASE UNCHANGED vars BY <1>1 DEF vars, Undisturbed
  <1>2. CASE GenerateBegin \/ GenerateEnd
    <2>1. "stale" \in run'.marks
      BY <1>2 DEF GenerateBegin, GenerateEnd, Marked, TypeOK, Runs, Marks
    <2> QED BY <2>1 DEF Undisturbed
  <1>3. CASE Start
    <2>1. run'.pc \in {"download", "remove"} \/ ~run'.task
      BY <1>3 DEF Start, DownloadBegin, StartByHand, RollBackByHand, Begun
    <2> QED BY <2>1 DEF Undisturbed
  <1>4. CASE RunStep \/ Kill
    <2>1. run'.want = run.want /\ (Undisturbed' <=> Undisturbed)
      BY <1>4, SameTask DEF Undisturbed
    <2> SUFFICES ASSUME Undisturbed
                 PROVE  /\ run'.pc \in Applying \ {"restart"} => staging' = run.want
                        /\ run'.pc \in {"restart", "applied"} => live' = run.want
      BY <2>1
    <2> USE Moves DEF ExitCodes
    <2>2. CASE DownloadEnd BY <2>2 DEF DownloadEnd
    <2>3. CASE Refuse \/ Skip \/ Proceed BY <2>3 DEF Refuse, Refusals, Skip, Proceed
    <2>4. CASE BackupBegin \/ BackupEnd
      <3>1. run'.pc \in {"backingup", "copy", "failed"} /\ run.pc \in {"backup", "backingup"}
        BY <2>4, MovesMarked DEF BackupBegin, BackupEnd, Replaces, TypeOK, Runs
      <3> QED BY <2>4, <3>1 DEF BackupBegin, BackupEnd
    <2>5. CASE CopyBegin \/ CopyEnd BY <2>5 DEF CopyBegin, CopyEnd
    <2>6. CASE Restart
      <3>1. run'.pc \in {"applied", "remove", "failed"} /\ run.pc = "restart" /\ live' = live
        BY <2>6 DEF Restart, RestartCodes, Exits, TypeOK, Runs
      <3> QED BY <3>1
    <2>7. CASE NoCommand \/ NoRestart BY <2>7 DEF NoCommand, NoRestart
    <2>8. CASE RefuseRollBack \/ Remove \/ RestoreBegin
      BY <2>8 DEF RefuseRollBack, Remove, RestoreBegin
    <2>9. CASE RestoreEnd BY <2>9, RestoredType DEF TypeOK
    <2>10. CASE RollBackRestart
      <3>1. run'.pc \in {"rolledback", "failed"} BY <2>10 DEF RollBackRestart, RestartCodes
      <3> QED BY <3>1
    <2>11. CASE Kill
      <3>1. run'.pc = "failed" BY <2>11, MovesMarked DEF Kill
      <3> QED BY <3>1
    <2> QED BY <1>4, <2>2, <2>3, <2>4, <2>5, <2>6, <2>7, <2>8, <2>9, <2>10, <2>11 DEF RunStep
  <1> QED BY <1>1, <1>2, <1>3, <1>4 DEF Next

(* A task that reports success installed the configuration it was told to, *)
(* whatever an earlier run left in the live file, the staging file or the  *)
(* backup, if nobody wrote the staging file after its download began       *)
(* (SelectedIsApplied, tasks/utils.go:54).                                 *)
THEOREM TaskAppliesItsSelection == Spec => []SelectedIsApplied
PROOF
  <1>1. Init => Selected BY DEF Init, Selected, Undisturbed
  <1>2. TypeOK /\ Selected /\ [Next]_vars => Selected' BY SelectedStep
  <1>3. Selected => SelectedIsApplied BY DEF Selected, Undisturbed, SelectedIsApplied
  <1> QED BY <1>1, <1>2, <1>3, ConfigTypes, PTL DEF Spec
====
