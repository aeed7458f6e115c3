---- MODULE ConfigApply ----
(***************************************************************************)
(* The files of a local configuration change (tasks/utils.go, releem.sh,   *)
(* repeater/releemConfiguration.go): the staging file the agent downloads  *)
(* to, the live file in the server's configuration directory, the backup   *)
(* of the live file, and the configuration the server runs with.  A run is  *)
(* one task of the agent or one releem.sh started by hand, one after the   *)
(* other; the daemon downloads to the same staging file on its own         *)
(* schedule.  Files are written by truncating and filling them, so a       *)
(* reader, or a crash, can meet a part of one.                             *)
(***************************************************************************)
EXTENDS Naturals

CONSTANTS
  Contents,    \* whole configuration files the server may send
  None,        \* no such file
  Torn,        \* a file cut short
  Down         \* the database server is not running

ASSUME DistinctAssumption ==
  /\ {None, Torn, Down} \cap Contents = {}
  /\ None # Torn /\ Torn # Down /\ None # Down

VARIABLES
  staging,     \* z_aiops_mysql.cnf in the agent's configuration directory
  live,        \* the same in the server's configuration directory
  bkp,         \* the copy of the live file the last application replaced
  server,      \* the configuration the server loaded last, or Down
  generating,  \* what the daemon is writing to the staging file, or None
  run          \* the current or the last run of releem.sh

vars == <<staging, live, bkp, server, generating, run>>

Files == Contents \cup {None, Torn}
Ended == {"idle", "applied", "skipped", "failed", "rolledback"}
Applying == {"check", "backup", "backingup", "copy", "copying", "restart"}
Modes == {"automatic", "norestart", "manual"}
RollingBack == {"remove", "restore", "restoring", "rbrestart"}
Steps == Ended \cup Applying \cup RollingBack \cup {"download"}

Init ==
  /\ staging \in Contents \cup {None}
  /\ live \in Contents \cup {None}
  /\ bkp = None
  /\ server = live
  /\ generating = None
  /\ run = [pc |-> "idle", mode |-> "manual", want |-> None, before |-> None,
            exit |-> 0, task |-> FALSE, marks |-> {}]

At(pc) == run.pc = pc
Goes(pc) == run' = [run EXCEPT !.pc = pc]
Exits(pc, e) == run' = [run EXCEPT !.pc = pc, !.exit = e]

(* What happened since the last success: the staging file was rewritten    *)
(* after the download, the copy that makes the backup was cut short, the   *)
(* copy that restores it was, a rollback was started by hand.              *)
Marks == {"stale", "backup", "restore", "hand"}
Marked(m) == run' = [run EXCEPT !.marks = @ \cup {m}]
FailsMarked(m, e) ==
  run' = [run EXCEPT !.pc = "failed", !.exit = e, !.marks = @ \cup {m}]

----------------------------------------------------------------------------
(* The staging file.                                                       *)

(* os.WriteFile of the daemon's own download: truncate, then fill.         *)
GenerateBegin ==
  /\ generating = None
  /\ \E c \in Contents : generating' = c
  /\ staging' = Torn /\ Marked("stale")
  /\ UNCHANGED <<live, bkp, server>>
GenerateEnd ==
  /\ generating # None
  /\ staging' = generating /\ generating' = None /\ Marked("stale")
  /\ UNCHANGED <<live, bkp, server>>

(* A run starts.  "before" is what a rollback is due to bring back: the    *)
(* file the last application replaced, and none after a success.           *)
Succeeded == run.pc \in {"applied", "rolledback"}
Begun(mode, c, task, pc) ==
  [pc |-> pc, mode |-> mode, want |-> c, exit |-> 0, task |-> task,
   before |-> IF Succeeded THEN None ELSE run.before,
   marks |-> (IF Succeeded THEN {} ELSE run.marks \ {"stale"})
             \cup (IF mode = "rollback" THEN {"hand"} ELSE {})]

(* A task downloads the configuration it was told to apply; a request that *)
(* fails changes nothing and starts no run here.                           *)
DownloadBegin ==
  /\ run.pc \in Ended
  /\ \E mode \in Modes, c \in Contents :
       run' = Begun(mode, c, TRUE, "download")
  /\ staging' = Torn
  /\ UNCHANGED <<live, bkp, server, generating>>

(* Broken: a failed download is applied all the same.                      *)
DownloadEndIgnored ==
  /\ At("download")
  /\ staging' \in {staging, run.want} /\ Goes("check")
  /\ UNCHANGED <<live, bkp, server, generating>>

DownloadEnd ==
  /\ At("download")
  /\ \/ staging' = run.want /\ Goes("check")
     \/ staging' = staging /\ Exits("failed", 1)
  /\ UNCHANGED <<live, bkp, server, generating>>

(* releem.sh started by hand uses the staging file as it is.               *)
StartByHand ==
  /\ run.pc \in Ended
  /\ \E mode \in Modes : run' = Begun(mode, staging, FALSE, "check")
  /\ UNCHANGED <<staging, live, bkp, server, generating>>

----------------------------------------------------------------------------
(* Applying.                                                               *)

(* The checks before anything is changed: a missing file, a version or     *)
(* directory that is not right, a restart nobody confirmed.  A manual      *)
(* application of the live file ends here, unless a backup tells that an   *)
(* earlier one did not succeed.                                            *)
Identical == run.mode = "manual" /\ live = staging /\ bkp = None
Refusals ==
  {1, 2, 3, 11} \cup (IF run.mode = "manual" /\ staging # None /\ ~Identical THEN {5} ELSE {})
Refuse ==
  /\ At("check")
  /\ \E e \in Refusals : Exits("failed", e)
  /\ UNCHANGED <<staging, live, bkp, server, generating>>
Skip ==
  /\ At("check") /\ staging # None /\ Identical
  /\ Exits("skipped", 0)
  /\ UNCHANGED <<staging, live, bkp, server, generating>>

Proceed ==
  /\ At("check") /\ staging # None /\ ~Identical
  /\ Goes("backup")
  /\ UNCHANGED <<staging, live, bkp, server, generating>>

(* Every attempt saves the file it is about to replace, or removes an old  *)
(* backup when there is none.                                              *)
Replaces(pc) ==
  run' = [run EXCEPT !.pc = pc, !.before = live, !.marks = @ \cap {"stale"}]

(* Broken: the backup of an earlier application is kept.                   *)
BackupKept ==
  /\ At("backup")
  /\ IF live = None \/ bkp # None THEN bkp' = bkp /\ Replaces("copy")
                                  ELSE bkp' = Torn /\ Replaces("backingup")
  /\ UNCHANGED <<staging, live, server, generating>>

BackupBegin ==
  /\ At("backup")
  /\ IF live = None THEN bkp' = None /\ Replaces("copy")
                    ELSE bkp' = Torn /\ Replaces("backingup")
  /\ UNCHANGED <<staging, live, server, generating>>
BackupEnd ==
  /\ At("backingup")
  /\ \/ bkp' = live /\ Goes("copy")
     \/ bkp' = bkp /\ FailsMarked("backup", 1)
  /\ UNCHANGED <<staging, live, server, generating>>

CopyBegin ==
  /\ At("copy")
  /\ live' = Torn /\ Goes("copying")
  /\ UNCHANGED <<staging, bkp, server, generating>>
CopyEnd ==
  /\ At("copying")
  /\ \/ live' = staging /\ Goes("restart")
     \/ live' = live /\ Exits("failed", 1)
  /\ UNCHANGED <<staging, bkp, server, generating>>

(* wait_restart: 0, 7 when the command fails, 6 after 1200 seconds.        *)
RestartCodes == {0, 6, 7}

(* What the server runs with after a restart: one that failed or timed out *)
(* may have stopped it, left it alone or started it after all.             *)
ServerAfter(code) == IF code = 0 THEN {live} ELSE {live, Down, server}

(* A task that fails with 7 is rolled back at once; on success, and after  *)
(* a copy without restart, the backup is removed.                          *)
RollsBack(code) == code = 7 /\ run.task
Restart ==
  /\ At("restart") /\ run.mode # "norestart"
  /\ \E code \in RestartCodes :
       /\ server' \in ServerAfter(code)
       /\ IF code = 0 THEN bkp' = None /\ Exits("applied", 0)
          ELSE bkp' = bkp /\ Exits(IF RollsBack(code) THEN "remove" ELSE "failed", code)
  /\ UNCHANGED <<staging, live, generating>>

(* releem.conf, read by every start of the script, names no command.       *)
Restarting == At("rbrestart") \/ (At("restart") /\ run.mode # "norestart")
NoCommand ==
  /\ Restarting
  /\ Exits("failed", 4)
  /\ UNCHANGED <<staging, live, bkp, server, generating>>
NoRestart ==
  /\ At("restart") /\ run.mode = "norestart"
  /\ bkp' = None /\ Exits("applied", 0)
  /\ UNCHANGED <<staging, live, server, generating>>

----------------------------------------------------------------------------
(* Rolling back (releem.sh -r), by the task or by hand.                    *)
RollBackByHand ==
  /\ run.pc \in Ended
  /\ run' = Begun("rollback", None, FALSE, "remove")
  /\ UNCHANGED <<staging, live, bkp, server, generating>>

(* Refused by the same checks, before anything is changed.                 *)
RefuseRollBack ==
  /\ At("remove")
  /\ \E e \in {1, 2, 3, 5} : Exits("failed", e)
  /\ UNCHANGED <<staging, live, bkp, server, generating>>

(* Broken: the live file is left when there is no backup to restore.       *)
RemoveIfBackup ==
  /\ At("remove")
  /\ live' = (IF bkp = None THEN live ELSE None)
  /\ Goes(IF bkp = None THEN "rbrestart" ELSE "restore")
  /\ UNCHANGED <<staging, bkp, server, generating>>

Remove ==
  /\ At("remove")
  /\ live' = None
  /\ Goes(IF bkp = None THEN "rbrestart" ELSE "restore")
  /\ UNCHANGED <<staging, bkp, server, generating>>
RestoreBegin ==
  /\ At("restore")
  /\ live' = Torn /\ Goes("restoring")
  /\ UNCHANGED <<staging, bkp, server, generating>>
RestoreEnd ==
  /\ At("restoring")
  /\ \/ live' = bkp /\ run' = [run EXCEPT !.pc = "rbrestart", !.marks = @ \ {"restore"}]
     \/ live' = live /\ run' = [run EXCEPT !.pc = "rbrestart", !.marks = @ \cup {"restore"}]
  /\ UNCHANGED <<staging, bkp, server, generating>>
RollBackRestart ==
  /\ At("rbrestart")
  /\ \E code \in RestartCodes :
       /\ server' \in ServerAfter(code)
       /\ IF code = 0 THEN bkp' = None /\ Goes("rolledback")
          ELSE bkp' = bkp /\ Exits("failed", code)
  /\ UNCHANGED <<staging, live, generating>>

----------------------------------------------------------------------------
(* releem.sh dies half way: the files stay as they are, and a restart that *)
(* was under way ends one way or the other.                                *)
Kill ==
  /\ run.pc \notin Ended
  /\ IF At("backingup") THEN FailsMarked("backup", run.exit) ELSE Goes("failed")
  /\ server' \in (IF Restarting THEN ServerAfter(7) ELSE {server})
  /\ UNCHANGED <<staging, live, bkp, generating>>

RunStep ==
  \/ DownloadEnd \/ Refuse \/ Skip \/ Proceed \/ BackupBegin \/ BackupEnd
  \/ CopyBegin \/ CopyEnd \/ Restart \/ NoCommand \/ NoRestart
  \/ RefuseRollBack \/ Remove \/ RestoreBegin \/ RestoreEnd \/ RollBackRestart
Start == DownloadBegin \/ StartByHand \/ RollBackByHand

Next ==
  \/ GenerateBegin \/ GenerateEnd
  \/ Start \/ RunStep \/ Kill

Spec == Init /\ [][Next]_vars

----------------------------------------------------------------------------
(* The types of the state, the exit codes of releem.sh among them.         *)
ExitCodes == {0, 1, 2, 3, 4, 5, 6, 7, 11}
Runs ==
  [pc : Steps, mode : Modes \cup {"rollback"}, want : Files, before : Files,
   exit : ExitCodes, task : BOOLEAN, marks : SUBSET Marks]
TypeOK ==
  /\ staging \in Files /\ live \in Files /\ bkp \in Files
  /\ server \in Files \cup {Down}
  /\ generating \in Contents \cup {None}
  /\ run \in Runs

(* Until an application succeeds, the configuration it replaces exists as  *)
(* the live file or as its backup, wherever releem.sh fails or is killed,  *)
(* and while it is being rolled back ("failures leave it available for     *)
(* recovery", tests/README.md:207).  The one way to lose it is a rollback  *)
(* by hand after the copy that makes the backup was cut short.             *)
PreviousSurvives ==
  Succeeded \/ {"backup", "hand"} \subseteq run.marks \/ run.before \in {live, bkp}

(* A rollback that succeeds brings back exactly the file the application   *)
(* replaced, "no file" as no file, and the server runs with it, after any  *)
(* number of failed attempts, if no copy of a backup was cut short.        *)
RollBackRestores ==
  run.pc = "rolledback" /\ run.marks \cap {"backup", "restore"} = {} =>
    live = run.before /\ server = live

(* A task reports success only for the configuration it selected, if only  *)
(* nobody wrote the staging file after the task's download began (the      *)
(* technical debt noted in tasks/utils.go:54).                             *)
SelectedIsApplied ==
  run.pc = "applied" /\ run.task /\ "stale" \notin run.marks => live = run.want

(* Whatever the daemon does, the file a task installs is a whole one: the  *)
(* accepted loss is that it is the latest instead of the selected one      *)
(* (tasks/utils.go:54).                                                    *)
AppliedIsWhole == run.pc = "applied" /\ run.task => live \in Contents

(* A rollback that ends with exit code 0 restored the replaced file        *)
(* whatever happened before ("failures leave it available for recovery",   *)
(* tests/README.md:207).                                                   *)
RollBackIsExact == run.pc = "rolledback" => live = run.before
====
