-------------------------- MODULE CloudApplyProofs --------------------------
(***************************************************************************)
(* Proofs about CloudApply, for any parameters, groups and bounds.         *)
(***************************************************************************)
EXTENDS CloudApply, TLAPS

(* The type invariant, in three parts.                                     *)
DatabaseTypes ==
  /\ provider \in Providers /\ kind \in [Params -> Kinds]
  /\ topology \in Topology
  /\ stored \in [Params -> Values] /\ shown \in [Params -> Values]
  /\ running \in [Params -> Values]
  /\ status \in [Scopes -> Syncs]
  /\ op \in [kind : {"none", "patch", "update", "restart"},
             state : {"running", "done", "failed"}, flags : [Params -> Values]]
StepTypes ==
  /\ reboots \in Nat /\ edits \in Nat /\ tasks \in Nat
  /\ pc \in {"idle", "discover", "listInstance", "listCluster", "modify",
             "poll", "describe", "sleep", "get", "filter", "patch", "wait",
             "server", "list", "update", "waitUpdate", "restart", "waitRestart"}
  /\ mode \in {"dynamic", "full"}
  /\ error \in Errors
  /\ scope \in Scopes /\ expired \in BOOLEAN
  /\ restart \in BOOLEAN /\ code \in Codes
  /\ clusterStatus \in Syncs
ResultTypes ==
  /\ current \in [Params -> Values]
  /\ listed \in [Scopes -> [Params -> Values \cup {Absent}]]
  /\ plan \in [Scopes -> SUBSET Params]
  /\ applied \in [Scopes -> SUBSET Params]
  /\ failed \in [Scopes -> SUBSET SUBSET Params]
  /\ ready \in [Scopes -> BOOLEAN]
  /\ accepted \subseteq Scopes \X Params
  /\ quiet \in BOOLEAN /\ touched \subseteq Params

(* The flags a merge starts from were listed by the provider.               *)
FlagsRead ==
  pc \in {"filter", "patch"} => \A p \in Known : listed["instance"][p] \in Values

(* Begin leaves the provider and its database alone.                       *)
LEMMA BeginTyped ==
  ASSUME StepTypes, ResultTypes, DatabaseTypes,
         NEW first \in {"discover", "get", "server"}, NEW refusals \in SUBSET (0 .. 10),
         Begin(first, refusals)
  PROVE StepTypes' /\ ResultTypes' /\ DatabaseTypes'
<1> USE DEF Begin, Finish, fixed, values, outside
<1>1. StepTypes'
  <2> USE DEF StepTypes, Errors, Codes, Working, Panicked, Scopes, Syncs
  <2>1. (reboots \in Nat /\ edits \in Nat /\ tasks \in Nat)'
    OBVIOUS
  <2>2. pc' \in {"idle", first} /\ mode' \in {"dynamic", "full"}
    OBVIOUS
  <2>3. code' \in {20} \cup refusals
    OBVIOUS
  <2>4. (error \in Errors /\ scope \in Scopes /\ expired \in BOOLEAN
         /\ restart \in BOOLEAN /\ clusterStatus \in Syncs)'
    OBVIOUS
  <2>5. QED BY <2>1, <2>2, <2>3, <2>4
<1>2. ResultTypes'
  BY DEF ResultTypes, DatabaseTypes, Scopes, Nothing, NothingListed
<1>3. DatabaseTypes'
  BY DEF DatabaseTypes
<1>4. QED BY <1>1, <1>2, <1>3

LEMMA BeginsTyped ==
  ASSUME StepTypes, ResultTypes, DatabaseTypes, AwsBegin \/ GcpBegin \/ AzureBegin
  PROVE StepTypes' /\ ResultTypes' /\ DatabaseTypes'
<1>1. {8} \in SUBSET (0 .. 10) /\ {1, 8} \in SUBSET (0 .. 10)
  OBVIOUS
<1>2. \/ Begin("discover", {8})
      \/ Begin("get", {1, 8})
      \/ Begin("server", {1, 8})
  BY DEF AwsBegin, GcpBegin, AzureBegin
<1>3. QED BY <1>1, <1>2, BeginTyped

LEMMA DatabaseStep == DatabaseTypes /\ StepTypes /\ ResultTypes /\ FlagsRead /\ [Next]_vars => DatabaseTypes'
<1> SUFFICES ASSUME DatabaseTypes /\ StepTypes /\ ResultTypes /\ FlagsRead, [Next]_vars PROVE DatabaseTypes'
  OBVIOUS
<1> USE DEF DatabaseTypes, ResultTypes, Scopes, Syncs, fixed, values, outside,
    input, result, waiting, history
<1>1. CASE AwsBegin
  BY <1>1, BeginsTyped
<1>2. CASE GcpBegin
  BY <1>2, BeginsTyped
<1>3. CASE AzureBegin
  BY <1>3, BeginsTyped
<1>4. CASE AwsDiscover
  BY <1>4 DEF AwsDiscover, Fails, Finish, CallErrors, ExitCode, Mismatched,
    InSync
<1>5. CASE AwsListInstance
  BY <1>5 DEF AwsListInstance, Fails, Finish, CallErrors, ExitCode, Mismatched,
    InSync, IsAurora
<1>6. CASE AwsListCluster
  BY <1>6 DEF AwsListCluster, Fails, Finish, CallErrors, ExitCode
<1>7. CASE AwsModify
  <2>1. stored' \in [Params -> Values]
    BY <1>7 DEF AwsModify, Accept, Values
  <2>2. UNCHANGED <<fixed, shown, running, status, op>>
    BY <1>7 DEF AwsModify
  <2>3. QED BY <2>1, <2>2
<1>8. CASE AwsModified
  BY <1>8 DEF AwsModified, StartWait, Finish, ExitCode
<1>9. CASE AwsObserve
  BY <1>9 DEF AwsObserve, WaitFails, Goes, Finish, ExitCode, CallErrors,
    Answered
<1>10. CASE AwsDescribe
  BY <1>10 DEF AwsDescribe, WaitFails, Goes, Finish, ExitCode, CallErrors,
    Answered
<1>11. CASE AwsSleep
  BY <1>11 DEF AwsSleep, WaitFails, Finish, ExitCode
<1>12. CASE Deadline
  BY <1>12 DEF Deadline
<1>13. CASE GcpGet
  BY <1>13 DEF GcpGet, Finish
<1>14. CASE GcpFilter
  BY <1>14 DEF GcpFilter, Finish
<1>15. CASE GcpPatch
  <2> DEFINE sent == MergedFlags(Updates)
  <2>1. \A p \in Known : listed["instance"][p] \in Values
    BY <1>15 DEF GcpPatch, FlagsRead
  <2>2. sent \in [Params -> Values]
    BY <2>1 DEF MergedFlags, Values
  <2> HIDE DEF sent
  <2>3. op' = op \/ op' = [kind |-> "patch", state |-> "running", flags |-> sent]
    BY <1>15 DEF GcpPatch, Patched, sent
  <2>4. op' \in [kind : {"none", "patch", "update", "restart"},
                state : {"running", "done", "failed"}, flags : [Params -> Values]]
    BY <2>2, <2>3
  <2>5. UNCHANGED <<fixed, values>>
    BY <1>15 DEF GcpPatch
  <2>6. QED BY <2>4, <2>5
<1>16. CASE GcpWait
  BY <1>16 DEF GcpWait, Finish
<1>17. CASE AzureServer
  BY <1>17 DEF AzureServer, Finish, AzureErrorCodes
<1>18. CASE AzureList
  BY <1>18 DEF AzureList, Finish, AzureErrorCodes, Considered
<1>19. CASE AzureUpdate
  <2> DEFINE sent == [p \in Params |-> IF p \in plan["instance"] THEN "new" ELSE stored[p]]
  <2>1. sent \in [Params -> Values]
    BY DEF Values
  <2> HIDE DEF sent
  <2>2. op' = op \/ op' = [kind |-> "update", state |-> "running", flags |-> sent]
    BY <1>19 DEF AzureUpdate, sent
  <2>3. op' \in [kind : {"none", "patch", "update", "restart"},
                state : {"running", "done", "failed"}, flags : [Params -> Values]]
    BY <2>1, <2>2
  <2>4. UNCHANGED <<fixed, values>>
    BY <1>19 DEF AzureUpdate
  <2>5. QED BY <2>3, <2>4
<1>20. CASE AzureWaitUpdate
  BY <1>20 DEF AzureWaitUpdate, Concludes, Finish, AzureErrorCodes
<1>21. CASE AzureRestart
  BY <1>21 DEF AzureRestart, Finish, AzureErrorCodes
<1>22. CASE AzureWaitRestart
  BY <1>22 DEF AzureWaitRestart, Finish, AzureErrorCodes
<1>23. CASE Reboot
  BY <1>23 DEF Reboot, InUse
<1>24. CASE \E s \in Scopes : Propagate(s)
  BY <1>24 DEF Propagate
<1>25. CASE \E s \in Scopes : Settle(s)
  <2>1. PICK s \in Scopes : Settle(s)
    BY <1>25
  <2>2. running' \in [Params -> Values]
    BY <2>1 DEF Settle, InUse
  <2>3. status' \in [Scopes -> Syncs]
    BY <2>1 DEF Settle
  <2>4. UNCHANGED <<fixed, stored, shown, op>>
    BY <2>1 DEF Settle
  <2>5. QED BY <2>2, <2>3, <2>4
<1>26. CASE OperationEnds
  <2>1. op.flags \in [Params -> Values]
    OBVIOUS
  <2>2. stored' \in {stored, op.flags}
    BY <1>26 DEF OperationEnds
  <2>3. stored' \in [Params -> Values] /\ shown' \in [Params -> Values]
    BY <1>26, <2>1, <2>2 DEF OperationEnds
  <2>4. running' \in [Params -> Values]
    BY <1>26, <2>3 DEF OperationEnds, InUse
  <2>5. op' = [op EXCEPT !.state = "done"] \/ op' = [op EXCEPT !.state = "failed"]
    BY <1>26 DEF OperationEnds
  <2>6. op' \in [kind : {"none", "patch", "update", "restart"},
                state : {"running", "done", "failed"}, flags : [Params -> Values]]
    BY <2>5
  <2>7. UNCHANGED <<fixed, status>>
    BY <1>26 DEF OperationEnds
  <2>8. QED BY <2>3, <2>4, <2>6, <2>7
<1>27. CASE OperatorEdits
  <2>1. PICK p \in Params : stored' = [stored EXCEPT ![p] = "foreign"] /\ shown' = stored'
    BY <1>27 DEF OperatorEdits, Known
  <2>a. stored' \in [Params -> Values]
    BY <2>1 DEF Values
  <2>2. UNCHANGED <<fixed, running, status, op>>
    BY <1>27 DEF OperatorEdits
  <2>3. QED BY <2>1, <2>a, <2>2
<1>28. CASE UNCHANGED vars
  BY <1>28 DEF vars
<1>99. QED BY <1>1, <1>2, <1>3, <1>4, <1>5, <1>6, <1>7, <1>8, <1>9, <1>10,
  <1>11, <1>12, <1>13, <1>14, <1>15, <1>16, <1>17, <1>18, <1>19, <1>20, <1>21,
  <1>22, <1>23, <1>24, <1>25, <1>26, <1>27, <1>28 DEF Next, AwsNext, AwsStep,
  GcpNext, GcpStep, AzureNext, AzureStep, Provider

LEMMA StepStep == StepTypes /\ ResultTypes /\ DatabaseTypes /\ [Next]_vars => StepTypes'
<1> SUFFICES ASSUME StepTypes /\ ResultTypes /\ DatabaseTypes, [Next]_vars PROVE StepTypes'
  OBVIOUS
<1> USE DEF StepTypes, Errors, Codes, Working, Panicked, Scopes, Syncs, fixed,
    values, outside, input, result, waiting, history
<1>1. CASE AwsBegin
  BY <1>1, BeginsTyped
<1>2. CASE GcpBegin
  BY <1>2, BeginsTyped
<1>3. CASE AzureBegin
  BY <1>3, BeginsTyped
<1>4. CASE AwsDiscover
  <2>1. status["cluster"] \in Syncs
    BY DEF DatabaseTypes
  <2>2. QED
    BY <1>4, <2>1 DEF AwsDiscover, Fails, Finish, CallErrors, ExitCode, Mismatched, InSync
<1>5. CASE AwsListInstance
  BY <1>5 DEF AwsListInstance, Fails, Finish, CallErrors, ExitCode, Mismatched,
    InSync, IsAurora
<1>6. CASE AwsListCluster
  BY <1>6 DEF AwsListCluster, Fails, Finish, CallErrors, ExitCode
<1>7. CASE AwsModify
  BY <1>7 DEF AwsModify, Accept, StartWait, Finish, ExitCode
<1>8. CASE AwsModified
  BY <1>8 DEF AwsModified, StartWait, Finish, ExitCode
<1>9. CASE AwsObserve
  BY <1>9 DEF AwsObserve, WaitFails, Goes, Finish, ExitCode, CallErrors,
    Answered
<1>10. CASE AwsDescribe
  <2> USE <1>10 DEF AwsDescribe, WaitFails, Goes, Finish, ExitCode, CallErrors, Answered
  <2>1. error' \in Errors /\ scope' \in Scopes
    OBVIOUS
  <2>2. restart' \in BOOLEAN
    OBVIOUS
  <2>3. pc' \in {"idle", "poll", "sleep"}
    OBVIOUS
  <2>4. code' \in {code, 0, 6, 8, 9, 10}
    OBVIOUS
  <2>5. UNCHANGED <<reboots, edits, tasks, mode, expired, clusterStatus>>
    OBVIOUS
  <2>6. QED BY ONLY <2>1, <2>2, <2>3, <2>4, <2>5, StepTypes DEF StepTypes, Codes
<1>11. CASE AwsSleep
  BY <1>11 DEF AwsSleep, WaitFails, Finish, ExitCode
<1>12. CASE Deadline
  BY <1>12 DEF Deadline
<1>13. CASE GcpGet
  BY <1>13 DEF GcpGet, Finish
<1>14. CASE GcpFilter
  BY <1>14 DEF GcpFilter, Finish
<1>15. CASE GcpPatch
  BY <1>15 DEF GcpPatch, Patched, MergedFlags, Finish
<1>16. CASE GcpWait
  BY <1>16 DEF GcpWait, Finish
<1>17. CASE AzureServer
  BY <1>17 DEF AzureServer, Finish, AzureErrorCodes
<1>18. CASE AzureList
  <2> USE <1>18 DEF AzureList, Finish, AzureErrorCodes
  <2>1. restart' \in BOOLEAN
    OBVIOUS
  <2>2. pc' \in {"idle", "update"} /\ code' \in {code, 8, 9}
    OBVIOUS
  <2>3. UNCHANGED <<reboots, edits, tasks, mode, error, scope, expired, clusterStatus>>
    OBVIOUS
  <2>4. QED BY <2>1, <2>2, <2>3
<1>19. CASE AzureUpdate
  BY <1>19 DEF AzureUpdate, Concludes, Finish, AzureErrorCodes
<1>20. CASE AzureWaitUpdate
  BY <1>20 DEF AzureWaitUpdate, Concludes, Finish, AzureErrorCodes
<1>21. CASE AzureRestart
  BY <1>21 DEF AzureRestart, Finish, AzureErrorCodes
<1>22. CASE AzureWaitRestart
  BY <1>22 DEF AzureWaitRestart, Finish, AzureErrorCodes
<1>23. CASE Reboot
  BY <1>23 DEF Reboot, InUse
<1>24. CASE \E s \in Scopes : Propagate(s)
  BY <1>24 DEF Propagate
<1>25. CASE \E s \in Scopes : Settle(s)
  BY <1>25 DEF Settle, InUse
<1>26. CASE OperationEnds
  BY <1>26 DEF OperationEnds, InUse
<1>27. CASE OperatorEdits
  BY <1>27 DEF OperatorEdits
<1>28. CASE UNCHANGED vars
  BY <1>28 DEF vars
<1>99. QED BY <1>1, <1>2, <1>3, <1>4, <1>5, <1>6, <1>7, <1>8, <1>9, <1>10,
  <1>11, <1>12, <1>13, <1>14, <1>15, <1>16, <1>17, <1>18, <1>19, <1>20, <1>21,
  <1>22, <1>23, <1>24, <1>25, <1>26, <1>27, <1>28 DEF Next, AwsNext, AwsStep,
  GcpNext, GcpStep, AzureNext, AzureStep, Provider

LEMMA FlagsReadStep == FlagsRead /\ ResultTypes /\ DatabaseTypes /\ [Next]_vars => FlagsRead'
<1> SUFFICES ASSUME FlagsRead /\ ResultTypes /\ DatabaseTypes, [Next]_vars PROVE FlagsRead'
  OBVIOUS
<1> USE DEF FlagsRead, DatabaseTypes, ResultTypes, Known, fixed, values,
    outside, input, result, waiting, history
<1>1. CASE AwsBegin
  BY <1>1 DEF AwsBegin, Begin, Finish
<1>2. CASE GcpBegin
  BY <1>2 DEF GcpBegin, Begin, Finish
<1>3. CASE AzureBegin
  BY <1>3 DEF AzureBegin, Begin, Finish
<1>4. CASE AwsDiscover
  BY <1>4 DEF AwsDiscover, Fails, Finish, CallErrors, ExitCode, Mismatched,
    InSync
<1>5. CASE AwsListInstance
  BY <1>5 DEF AwsListInstance, Fails, Finish, CallErrors, ExitCode, Mismatched,
    InSync, IsAurora
<1>6. CASE AwsListCluster
  BY <1>6 DEF AwsListCluster, Fails, Finish, CallErrors, ExitCode
<1>7. CASE AwsModify
  BY <1>7 DEF AwsModify, Accept, StartWait, Finish, ExitCode
<1>8. CASE AwsModified
  BY <1>8 DEF AwsModified, StartWait, Finish, ExitCode
<1>9. CASE AwsObserve
  BY <1>9 DEF AwsObserve, WaitFails, Goes, Finish, ExitCode, CallErrors,
    Answered
<1>10. CASE AwsDescribe
  BY <1>10 DEF AwsDescribe, WaitFails, Goes, Finish, ExitCode, CallErrors,
    Answered
<1>11. CASE AwsSleep
  BY <1>11 DEF AwsSleep, WaitFails, Finish, ExitCode
<1>12. CASE Deadline
  BY <1>12 DEF Deadline
<1>13. CASE GcpGet
  <2>1. listed'["instance"] = [p \in Params |-> IF p \in Known THEN shown[p] ELSE Absent]
          \/ pc' = "idle"
    BY <1>13 DEF GcpGet, Finish, Scopes
  <2>2. Known' = Known /\ Known \subseteq Params
    BY <1>13 DEF GcpGet, Known
  <2>3. QED BY <1>13, <2>1, <2>2
<1>14. CASE GcpFilter
  BY <1>14 DEF GcpFilter, Finish
<1>15. CASE GcpPatch
  BY <1>15 DEF GcpPatch, Patched, MergedFlags, Finish
<1>16. CASE GcpWait
  BY <1>16 DEF GcpWait, Finish
<1>17. CASE AzureServer
  BY <1>17 DEF AzureServer, Finish, AzureErrorCodes
<1>18. CASE AzureList
  BY <1>18 DEF AzureList, Finish, AzureErrorCodes, Considered
<1>19. CASE AzureUpdate
  BY <1>19 DEF AzureUpdate, Concludes, Finish, AzureErrorCodes
<1>20. CASE AzureWaitUpdate
  BY <1>20 DEF AzureWaitUpdate, Concludes, Finish, AzureErrorCodes
<1>21. CASE AzureRestart
  BY <1>21 DEF AzureRestart, Finish, AzureErrorCodes
<1>22. CASE AzureWaitRestart
  BY <1>22 DEF AzureWaitRestart, Finish, AzureErrorCodes
<1>23. CASE Reboot
  BY <1>23 DEF Reboot, InUse
<1>24. CASE \E s \in Scopes : Propagate(s)
  BY <1>24 DEF Propagate
<1>25. CASE \E s \in Scopes : Settle(s)
  BY <1>25 DEF Settle, InUse
<1>26. CASE OperationEnds
  BY <1>26 DEF OperationEnds, InUse
<1>27. CASE OperatorEdits
  BY <1>27 DEF OperatorEdits
<1>28. CASE UNCHANGED vars
  BY <1>28 DEF vars
<1>99. QED BY <1>1, <1>2, <1>3, <1>4, <1>5, <1>6, <1>7, <1>8, <1>9, <1>10,
  <1>11, <1>12, <1>13, <1>14, <1>15, <1>16, <1>17, <1>18, <1>19, <1>20, <1>21,
  <1>22, <1>23, <1>24, <1>25, <1>26, <1>27, <1>28 DEF Next, AwsNext, AwsStep,
  GcpNext, GcpStep, AzureNext, AzureStep, Provider

LEMMA ResultStep == ResultTypes /\ StepTypes /\ DatabaseTypes /\ [Next]_vars => ResultTypes'
<1> SUFFICES ASSUME ResultTypes /\ StepTypes /\ DatabaseTypes, [Next]_vars PROVE ResultTypes'
  OBVIOUS
<1> USE DEF DatabaseTypes, ResultTypes, Scopes, fixed, values, outside, input,
    result, waiting, history
<1>1. CASE AwsBegin
  BY <1>1, BeginsTyped
<1>2. CASE GcpBegin
  BY <1>2, BeginsTyped
<1>3. CASE AzureBegin
  BY <1>3, BeginsTyped
<1>4. CASE AwsDiscover
  BY <1>4 DEF AwsDiscover, Fails, Finish, CallErrors, ExitCode, Mismatched,
    InSync
<1>5. CASE AwsListInstance
  <2> DEFINE full == [listed EXCEPT !["instance"] = ListParameters("instance")]
  <2>1. full \in [Scopes -> [Params -> Values \cup {Absent}]]
    BY DEF ListParameters
  <2>2. listed' \in {listed, full} /\ plan' \in {plan, BuildApplyPlan(full)}
    BY <1>5 DEF AwsListInstance, Fails, Finish
  <2>3. BuildApplyPlan(full) \in [Scopes -> SUBSET Params]
    BY DEF BuildApplyPlan, Recommended
  <2>4. failed' \in [Scopes -> SUBSET SUBSET Params]
    BY <1>5 DEF AwsListInstance, Fails
  <2>5. UNCHANGED <<input, ready, applied, history>>
    BY <1>5 DEF AwsListInstance
  <2>6. QED BY ONLY <2>1, <2>2, <2>3, <2>4, <2>5, ResultTypes DEF ResultTypes, input, history
<1>6. CASE AwsListCluster
  <2> DEFINE full == [listed EXCEPT !["cluster"] = ListParameters("cluster")]
  <2>1. full \in [Scopes -> [Params -> Values \cup {Absent}]]
    BY DEF ListParameters
  <2>2. listed' \in {listed, full} /\ plan' \in {plan, BuildApplyPlan(full)}
    BY <1>6 DEF AwsListCluster, Fails, Finish
  <2>3. BuildApplyPlan(full) \in [Scopes -> SUBSET Params]
    BY DEF BuildApplyPlan, Recommended
  <2>4. failed' \in [Scopes -> SUBSET SUBSET Params]
    BY <1>6 DEF AwsListCluster, Fails
  <2>5. UNCHANGED <<input, ready, applied, history>>
    BY <1>6 DEF AwsListCluster
  <2>6. QED BY ONLY <2>1, <2>2, <2>3, <2>4, <2>5, ResultTypes DEF ResultTypes, input, history
<1>7. CASE AwsModify
  <2>1. Batch(Turn) \subseteq Params /\ Turn \in Scopes
    BY DEF Batch, Left, Turn
  <2>2. accepted' \subseteq Scopes \X Params
    BY <1>7, <2>1 DEF AwsModify, Accept
  <2>3. applied' \in [Scopes -> SUBSET Params]
    BY <1>7, <2>1 DEF AwsModify
  <2>4. failed' \in [Scopes -> SUBSET SUBSET Params]
    BY <1>7, <2>1 DEF AwsModify
  <2>5. ready' \in [Scopes -> BOOLEAN]
    <3>1. ready' = ready \/ ready' = [s \in Scopes |-> applied[s] = {}]
      BY <1>7 DEF AwsModify, StartWait
    <3>2. QED BY <3>1
  <2>6. UNCHANGED <<input, listed, plan, quiet, touched>>
    BY <1>7 DEF AwsModify
  <2>7. QED BY ONLY <2>2, <2>3, <2>4, <2>5, <2>6, ResultTypes DEF ResultTypes, input
<1>8. CASE AwsModified
  BY <1>8 DEF AwsModified, StartWait, Finish, ExitCode
<1>9. CASE AwsObserve
  BY <1>9 DEF AwsObserve, WaitFails, Goes, Finish, ExitCode, CallErrors,
    Answered
<1>10. CASE AwsDescribe
  <2>1. failed' \in [Scopes -> SUBSET SUBSET Params]
    BY <1>10 DEF AwsDescribe, WaitFails
  <2>2. ready' \in [Scopes -> BOOLEAN]
    BY <1>10 DEF AwsDescribe, WaitFails, Goes
  <2>3. UNCHANGED <<input, listed, plan, applied, history>>
    BY <1>10 DEF AwsDescribe
  <2>4. QED BY ONLY <2>1, <2>2, <2>3, ResultTypes DEF ResultTypes, input, history
<1>11. CASE AwsSleep
  BY <1>11 DEF AwsSleep, WaitFails, Finish, ExitCode
<1>12. CASE Deadline
  BY <1>12 DEF Deadline
<1>13. CASE GcpGet
  <2> DEFINE flags == [p \in Params |-> IF p \in Known THEN shown[p] ELSE Absent]
             full == [listed EXCEPT !["instance"] = flags]
  <2>1. full \in [Scopes -> [Params -> Values \cup {Absent}]]
    OBVIOUS
  <2>2. listed' \in {listed, full}
    BY <1>13 DEF GcpGet
  <2>3. plan' = plan \/ plan' = [plan EXCEPT !["instance"] = Recommended]
    BY <1>13 DEF GcpGet
  <2>b. Recommended \subseteq Params
    BY DEF Considered, Recommended
  <2>c. plan' \in [Scopes -> SUBSET Params]
    BY <2>3, <2>b
  <2>4. UNCHANGED <<input, applied, failed, ready, history>>
    BY <1>13 DEF GcpGet
  <2>5. QED BY ONLY <2>1, <2>2, <2>c, <2>4, ResultTypes DEF ResultTypes, input, history
<1>14. CASE GcpFilter
  BY <1>14 DEF GcpFilter, Finish
<1>15. CASE GcpPatch
  <2>1. accepted' \subseteq Scopes \X Params
    BY <1>15 DEF GcpPatch, Patched, Updates
  <2>2. UNCHANGED <<input, listed, plan, result, ready, quiet, touched>>
    BY <1>15 DEF GcpPatch
  <2>3. QED BY ONLY <2>1, <2>2, ResultTypes DEF ResultTypes, input, result
<1>16. CASE GcpWait
  BY <1>16 DEF GcpWait, Finish
<1>17. CASE AzureServer
  BY <1>17 DEF AzureServer, Finish, AzureErrorCodes
<1>18. CASE AzureList
  <2> DEFINE flags == [p \in Params |-> IF p \in Known THEN shown[p] ELSE Absent]
             full == [listed EXCEPT !["instance"] = flags]
  <2>1. full \in [Scopes -> [Params -> Values \cup {Absent}]]
    OBVIOUS
  <2>2. listed' \in {listed, full}
    BY <1>18 DEF AzureList
  <2>3. plan' = plan \/ plan' = [plan EXCEPT !["instance"] = {p \in Considered : ~HasValue(p)}]
    BY <1>18 DEF AzureList
  <2>b. {p \in Considered : ~HasValue(p)} \subseteq Params
    BY DEF Considered, Recommended
  <2>c. plan' \in [Scopes -> SUBSET Params]
    BY <2>3, <2>b
  <2>4. UNCHANGED <<input, applied, failed, ready, history>>
    BY <1>18 DEF AzureList
  <2>5. QED BY ONLY <2>1, <2>2, <2>c, <2>4, ResultTypes DEF ResultTypes, input, history
<1>19. CASE AzureUpdate
  BY <1>19 DEF AzureUpdate, Concludes, Finish, AzureErrorCodes
<1>20. CASE AzureWaitUpdate
  BY <1>20 DEF AzureWaitUpdate, Concludes, Finish, AzureErrorCodes
<1>21. CASE AzureRestart
  BY <1>21 DEF AzureRestart, Finish, AzureErrorCodes
<1>22. CASE AzureWaitRestart
  BY <1>22 DEF AzureWaitRestart, Finish, AzureErrorCodes
<1>23. CASE Reboot
  BY <1>23 DEF Reboot, InUse
<1>24. CASE \E s \in Scopes : Propagate(s)
  BY <1>24 DEF Propagate
<1>25. CASE \E s \in Scopes : Settle(s)
  BY <1>25 DEF Settle, InUse
<1>26. CASE OperationEnds
  BY <1>26 DEF OperationEnds, InUse
<1>27. CASE OperatorEdits
  <2>1. touched' \subseteq Params
    BY <1>27 DEF OperatorEdits, Known
  <2>2. UNCHANGED <<input, listed, plan, result, ready, accepted, quiet>>
    BY <1>27 DEF OperatorEdits
  <2>3. QED BY ONLY <2>1, <2>2, ResultTypes DEF ResultTypes, input, result
<1>28. CASE UNCHANGED vars
  BY <1>28 DEF vars
<1>99. QED BY <1>1, <1>2, <1>3, <1>4, <1>5, <1>6, <1>7, <1>8, <1>9, <1>10,
  <1>11, <1>12, <1>13, <1>14, <1>15, <1>16, <1>17, <1>18, <1>19, <1>20, <1>21,
  <1>22, <1>23, <1>24, <1>25, <1>26, <1>27, <1>28 DEF Next, AwsNext, AwsStep,
  GcpNext, GcpStep, AzureNext, AzureStep, Provider

(* What the task and the provider keep has its types, for any parameters.  *)
THEOREM CloudTypes == Spec => []TypeOK
<1> DEFINE TypeInv == TypeOK /\ FlagsRead
<1>1. TypeOK <=> DatabaseTypes /\ StepTypes /\ ResultTypes
  BY DEF TypeOK, DatabaseTypes, StepTypes, ResultTypes
<1>2. Init => TypeInv
  <2> SUFFICES ASSUME Init PROVE TypeInv
    OBVIOUS
  <2> USE DEF Init, Scopes, Values
  <2>8. [aurora |-> FALSE, writer |-> FALSE, own |-> Scopes] \in Topology
    BY DEF Topology
  <2>1. kind \in [Params -> Kinds] /\ topology \in Topology
    BY <2>8, KindsAssumption
  <2>2. stored \in [Params -> Values] /\ running \in [Params -> Values]
    BY <2>1 DEF Kinds
  <2>3. op \in [kind : {"none", "patch", "update", "restart"},
                state : {"running", "done", "failed"}, flags : [Params -> Values]]
    BY <2>2 DEF NoOperation
  <2>4. DatabaseTypes
    BY <2>1, <2>2, <2>3 DEF DatabaseTypes, Syncs
  <2>5. StepTypes
    BY DEF StepTypes, Errors, Codes, Working, Syncs
  <2>6. ResultTypes
    BY <2>2 DEF ResultTypes, Nothing, NothingListed
  <2>7. QED BY <2>4, <2>5, <2>6, <1>1 DEF FlagsRead
<1>3. TypeInv /\ [Next]_vars => TypeInv'
  <2> SUFFICES ASSUME TypeInv, [Next]_vars PROVE TypeInv'
    OBVIOUS
  <2>1. DatabaseTypes' /\ StepTypes' /\ ResultTypes' /\ FlagsRead'
    BY <1>1, DatabaseStep, StepStep, ResultStep, FlagsReadStep
  <2>2. QED BY <2>1 DEF TypeOK, DatabaseTypes, StepTypes, ResultTypes
<1>4. QED BY <1>2, <1>3, PTL DEF Spec

-----------------------------------------------------------------------------
(* At AWS, what the discovery and the listings have established by the     *)
(* step the task is at.                                                    *)
RoutesTracked ==
  /\ ChangesItsOwnGroups
  /\ provider # "aws/rds" => topology.own = Scopes
  /\ provider = "aws/rds" /\ pc \in {"listInstance", "listCluster", "modify"} =>
       "instance" \in topology.own
  /\ provider = "aws/rds" /\ pc \in {"discover", "listInstance", "listCluster"} =>
       \A p \in Params : listed["cluster"][p] = Absent
  /\ pc = "listCluster" =>
       /\ "cluster" \in topology.own
       /\ \A p \in Params : "instance" \in kind[p].homes => listed["instance"][p] # Absent
  /\ pc = "modify" => \A p \in plan["cluster"] :
       /\ "instance" \notin kind[p].homes
       /\ "cluster" \in topology.own /\ topology.aurora /\ topology.writer

LEMMA RoutesStep == TypeOK /\ RoutesTracked /\ [Next]_vars => RoutesTracked'
<1> SUFFICES ASSUME TypeOK /\ RoutesTracked, [Next]_vars PROVE RoutesTracked'
  OBVIOUS
<1> USE DEF TypeOK, RoutesTracked, ChangesItsOwnGroups, Scopes, NothingListed,
    fixed, values, outside, input, result, waiting, history
<1>1. CASE AwsBegin
  BY <1>1 DEF AwsBegin, Begin, Finish
<1>2. CASE GcpBegin
  BY <1>2 DEF GcpBegin, Begin, Finish
<1>3. CASE AzureBegin
  BY <1>3 DEF AzureBegin, Begin, Finish
<1>4. CASE AwsDiscover
  BY <1>4 DEF AwsDiscover, Fails, Finish, CallErrors, ExitCode, Mismatched,
    InSync
<1>5. CASE AwsListInstance
  <2>1. CASE pc' = "modify"
    <3> DEFINE full == [listed EXCEPT !["instance"] = ListParameters("instance")]
    <3>1. plan' = BuildApplyPlan(full)
      BY <1>5, <2>1 DEF AwsListInstance, Fails, Finish
    <3>a. \A p \in Params : full["cluster"][p] = Absent
      BY <1>5 DEF AwsListInstance
    <3>b. \A p \in Params : Route(full, p) # "cluster"
      BY <3>a DEF Route, Absent
    <3>2. plan'["cluster"] = {}
      BY <3>1, <3>b DEF BuildApplyPlan, Recommended
    <3>3. QED BY <1>5, <2>1, <3>2 DEF AwsListInstance
  <2>2. CASE pc' = "listCluster"
    <3>1. /\ "cluster" \in topology.own
          /\ listed' = [listed EXCEPT !["instance"] = ListParameters("instance")]
      BY <1>5, <2>2 DEF AwsListInstance, Fails, Finish, Mismatched
    <3>2. \A p \in Params : shown[p] # Absent
      BY DEF Values, Absent
    <3>3. \A p \in Params : "instance" \in kind[p].homes => listed'["instance"][p] # Absent
      BY <3>1, <3>2 DEF ListParameters
    <3>4. QED BY <1>5, <2>2, <3>1, <3>3 DEF AwsListInstance
  <2>3. CASE pc' = "idle"
    BY <1>5, <2>3 DEF AwsListInstance
  <2>4. pc' \in {"modify", "listCluster", "idle"}
    BY <1>5 DEF AwsListInstance, Fails, Finish
  <2>5. QED BY <2>1, <2>2, <2>3, <2>4
<1>6. CASE AwsListCluster
  <2>1. CASE pc' = "modify"
    <3> DEFINE full == [listed EXCEPT !["cluster"] = ListParameters("cluster")]
    <3>1. plan' = BuildApplyPlan(full)
      BY <1>6, <2>1 DEF AwsListCluster, Fails, Finish
    <3>2. \A p \in plan'["cluster"] : /\ p \in Params /\ full["instance"][p] = Absent
                                     /\ topology.aurora /\ topology.writer
      BY <3>1 DEF BuildApplyPlan, BuildScopeParameter, TopologyAllows, IsAurora, Route, Recommended, Absent
    <3>3. \A p \in plan'["cluster"] : "instance" \notin kind[p].homes
      BY <3>2, <1>6 DEF AwsListCluster
    <3>4. QED BY <1>6, <2>1, <3>2, <3>3 DEF AwsListCluster
  <2>2. CASE pc' = "idle"
    BY <1>6, <2>2 DEF AwsListCluster
  <2>3. pc' \in {"modify", "idle"}
    BY <1>6 DEF AwsListCluster, Fails, Finish
  <2>4. QED BY <2>1, <2>2, <2>3
<1>7. CASE AwsModify
  <2>1. /\ Turn \in Scopes /\ Batch(Turn) \subseteq plan[Turn]
        /\ accepted' \subseteq accepted \cup ({Turn} \X Batch(Turn))
    BY <1>7 DEF AwsModify, Accept, Batch, Left, Turn
  <2>2. \A m \in accepted' \ accepted : m[1] = Turn /\ m[2] \in plan[Turn]
    BY <2>1
  <2>3. ChangesItsOwnGroups'
    BY <1>7, <2>1, <2>2 DEF AwsModify
  <2>4. UNCHANGED <<fixed, listed, plan>> /\ pc' \in {"modify", "poll", "idle"}
    BY <1>7 DEF AwsModify, StartWait, Finish
  <2>5. QED BY <1>7, <2>3, <2>4 DEF AwsModify
<1>8. CASE AwsModified
  BY <1>8 DEF AwsModified, StartWait, Finish, ExitCode
<1>9. CASE AwsObserve
  BY <1>9 DEF AwsObserve, WaitFails, Goes, Finish, ExitCode, CallErrors,
    Answered
<1>10. CASE AwsDescribe
  BY <1>10 DEF AwsDescribe, WaitFails, Goes, Finish, ExitCode, CallErrors,
    Answered
<1>11. CASE AwsSleep
  BY <1>11 DEF AwsSleep, WaitFails, Finish, ExitCode
<1>12. CASE Deadline
  BY <1>12 DEF Deadline
<1>13. CASE GcpGet
  BY <1>13 DEF GcpGet, Finish
<1>14. CASE GcpFilter
  BY <1>14 DEF GcpFilter, Finish
<1>15. CASE GcpPatch
  <2>1. \A m \in accepted' \ accepted : m[1] = "instance"
    BY <1>15 DEF GcpPatch, Patched
  <2>2. ChangesItsOwnGroups'
    BY <1>15, <2>1 DEF GcpPatch
  <2>3. UNCHANGED <<fixed, listed, plan>> /\ pc' \notin {"listInstance", "listCluster", "modify"}
    BY <1>15 DEF GcpPatch, Finish
  <2>4. QED BY <1>15, <2>2, <2>3 DEF GcpPatch
<1>16. CASE GcpWait
  BY <1>16 DEF GcpWait, Finish
<1>17. CASE AzureServer
  BY <1>17 DEF AzureServer, Finish, AzureErrorCodes
<1>18. CASE AzureList
  BY <1>18 DEF AzureList, Finish, AzureErrorCodes, Considered
<1>19. CASE AzureUpdate
  <2>1. \A m \in accepted' \ accepted : m[1] = "instance"
    BY <1>19 DEF AzureUpdate
  <2>2. ChangesItsOwnGroups'
    BY <1>19, <2>1 DEF AzureUpdate
  <2>3. UNCHANGED <<fixed, listed, plan>> /\ pc' \notin {"listInstance", "listCluster", "modify"}
    BY <1>19 DEF AzureUpdate, Finish, Concludes
  <2>4. QED BY <1>19, <2>2, <2>3 DEF AzureUpdate
<1>20. CASE AzureWaitUpdate
  BY <1>20 DEF AzureWaitUpdate, Concludes, Finish, AzureErrorCodes
<1>21. CASE AzureRestart
  BY <1>21 DEF AzureRestart, Finish, AzureErrorCodes
<1>22. CASE AzureWaitRestart
  BY <1>22 DEF AzureWaitRestart, Finish, AzureErrorCodes
<1>23. CASE Reboot
  BY <1>23 DEF Reboot, InUse
<1>24. CASE \E s \in Scopes : Propagate(s)
  BY <1>24 DEF Propagate
<1>25. CASE \E s \in Scopes : Settle(s)
  BY <1>25 DEF Settle, InUse
<1>26. CASE OperationEnds
  BY <1>26 DEF OperationEnds, InUse
<1>27. CASE OperatorEdits
  BY <1>27 DEF OperatorEdits
<1>28. CASE UNCHANGED vars
  BY <1>28 DEF vars
<1>99. QED BY <1>1, <1>2, <1>3, <1>4, <1>5, <1>6, <1>7, <1>8, <1>9, <1>10,
  <1>11, <1>12, <1>13, <1>14, <1>15, <1>16, <1>17, <1>18, <1>19, <1>20, <1>21,
  <1>22, <1>23, <1>24, <1>25, <1>26, <1>27, <1>28 DEF Next, AwsNext, AwsStep,
  GcpNext, GcpStep, AzureNext, AzureStep, Provider

(* AWS parameters are changed in the group that decides their value, which *)
(* is attached to this instance, a cluster's by the agent of its writer.   *)
THEOREM OwnGroups == Spec => []ChangesItsOwnGroups
<1>1. Init => RoutesTracked
  BY DEF Init, RoutesTracked, ChangesItsOwnGroups, Scopes
<1>2. TypeOK /\ RoutesTracked /\ [Next]_vars => RoutesTracked'
  BY RoutesStep
<1>3. RoutesTracked => ChangesItsOwnGroups
  BY DEF RoutesTracked
<1>4. QED BY <1>1, <1>2, <1>3, CloudTypes, PTL DEF Spec

-----------------------------------------------------------------------------
(* At AWS: what is accepted is in the result, a value that is shown stays  *)
(* shown, and a scope that is ready showed all of its values.              *)
Shown(s) == \A p \in applied[s] : shown[p] = "new"
ResultTracked ==
  /\ provider = "aws/rds" => op.state # "running"
  /\ provider = "aws/rds" => \A p \in Params : shown[p] = "new" => stored[p] = "new"
  /\ provider = "aws/rds" =>
       \A m \in accepted : m[2] \in applied[m[1]] \cup UNION failed[m[1]]
  /\ provider = "aws/rds" /\ pc \in {"discover", "listInstance", "listCluster"} =>
       \A s \in Scopes : applied[s] = {}
  /\ provider = "aws/rds" /\ pc \in {"poll", "describe", "sleep"} =>
       \A s \in Scopes : ready[s] => Shown(s)
  /\ provider = "aws/rds" /\ pc = "describe" => Shown(scope)
  /\ provider = "aws/rds" /\ pc = "idle" => \A s \in Scopes :
       applied[s] # {} => applied[s] \in failed[s] \/ (ready[s] /\ Shown(s))

LEMMA ResultTrackedStep == TypeOK /\ ResultTracked /\ [Next]_vars => ResultTracked'
<1> SUFFICES ASSUME TypeOK /\ ResultTracked, [Next]_vars PROVE ResultTracked'
  OBVIOUS
<1> USE DEF TypeOK, ResultTracked, Shown, Scopes, Nothing, fixed, values,
    outside, input, result, waiting, history
<1>1. CASE AwsBegin
  BY <1>1 DEF AwsBegin, Begin, Finish
<1>2. CASE GcpBegin
  BY <1>2 DEF GcpBegin, Begin, Finish
<1>3. CASE AzureBegin
  BY <1>3 DEF AzureBegin, Begin, Finish
<1>4. CASE AwsDiscover
  <2>1. /\ \A s \in Scopes : failed[s] \subseteq failed'[s] /\ applied[s] = {}
        /\ UNCHANGED <<provider, op, shown, stored, accepted, applied>>
        /\ pc' \in {"idle", "listInstance", "listCluster", "modify"}
    BY <1>4 DEF AwsDiscover, Fails, Finish
  <2>2. \A m \in accepted : m[2] \in applied'[m[1]] \cup UNION failed'[m[1]]
    <3> SUFFICES ASSUME NEW m \in accepted PROVE m[2] \in applied[m[1]] \cup UNION failed'[m[1]]
      BY <2>1
    <3>1. m[1] \in Scopes /\ m[2] \in applied[m[1]] \cup UNION failed[m[1]]
      BY <1>4 DEF AwsDiscover
    <3>2. QED BY <3>1, <2>1
  <2>3. QED BY <2>1, <2>2
<1>5. CASE AwsListInstance
  <2>1. /\ \A s \in Scopes : failed[s] \subseteq failed'[s] /\ applied[s] = {}
        /\ UNCHANGED <<provider, op, shown, stored, accepted, applied>>
        /\ pc' \in {"idle", "listInstance", "listCluster", "modify"}
    BY <1>5 DEF AwsListInstance, Fails, Finish
  <2>2. \A m \in accepted : m[2] \in applied'[m[1]] \cup UNION failed'[m[1]]
    <3> SUFFICES ASSUME NEW m \in accepted PROVE m[2] \in applied[m[1]] \cup UNION failed'[m[1]]
      BY <2>1
    <3>1. m[1] \in Scopes /\ m[2] \in applied[m[1]] \cup UNION failed[m[1]]
      BY <1>5 DEF AwsListInstance
    <3>2. QED BY <3>1, <2>1
  <2>3. QED BY <2>1, <2>2
<1>6. CASE AwsListCluster
  <2>1. /\ \A s \in Scopes : failed[s] \subseteq failed'[s] /\ applied[s] = {}
        /\ UNCHANGED <<provider, op, shown, stored, accepted, applied>>
        /\ pc' \in {"idle", "listInstance", "listCluster", "modify"}
    BY <1>6 DEF AwsListCluster, Fails, Finish
  <2>2. \A m \in accepted : m[2] \in applied'[m[1]] \cup UNION failed'[m[1]]
    <3> SUFFICES ASSUME NEW m \in accepted PROVE m[2] \in applied[m[1]] \cup UNION failed'[m[1]]
      BY <2>1
    <3>1. m[1] \in Scopes /\ m[2] \in applied[m[1]] \cup UNION failed[m[1]]
      BY <1>6 DEF AwsListCluster
    <3>2. QED BY <3>1, <2>1
  <2>3. QED BY <2>1, <2>2
<1>7. CASE AwsModify
  <2>1. /\ Turn \in Scopes /\ Batch(Turn) \subseteq Params
        /\ pc' \in {"modify", "poll", "idle"} /\ UNCHANGED <<provider, shown, op>>
        /\ \A p \in Params : stored[p] = "new" => stored'[p] = "new"
    BY <1>7 DEF AwsModify, Accept, Batch, Left, Turn, StartWait, Finish
  <2>2. \A m \in accepted' \ accepted : m[1] = Turn /\ m[2] \in Batch(Turn)
    BY <1>7 DEF AwsModify, Accept
  <2>3. \A m \in accepted' \ accepted : m[2] \in applied'[m[1]] \cup UNION failed'[m[1]]
    BY <1>7, <2>1, <2>2 DEF AwsModify, Accept
  <2>4. \A s \in Scopes : applied[s] \subseteq applied'[s] /\ failed[s] \subseteq failed'[s]
    BY <1>7, <2>1 DEF AwsModify
  <2>5. \A m \in accepted : m[2] \in applied'[m[1]] \cup UNION failed'[m[1]]
    <3> SUFFICES ASSUME NEW m \in accepted PROVE m[2] \in applied'[m[1]] \cup UNION failed'[m[1]]
      OBVIOUS
    <3>1. m[1] \in Scopes /\ m[2] \in applied[m[1]] \cup UNION failed[m[1]]
      BY <1>7 DEF AwsModify
    <3>2. QED BY <3>1, <2>4
  <2>6. pc' = "poll" => \A s \in Scopes : ready'[s] => applied'[s] = {}
    BY <1>7 DEF AwsModify, StartWait, Finish
  <2>7. pc' = "idle" => \A s \in Scopes : applied'[s] = {}
    BY <1>7 DEF AwsModify, StartWait, Finish, Modified
  <2>8. QED BY <1>7, <2>1, <2>3, <2>5, <2>6, <2>7
<1>8. CASE AwsModified
  <2>1. /\ pc' \in {"poll", "idle"}
        /\ pc' = "poll" => \A s \in Scopes : ready'[s] => applied[s] = {}
        /\ pc' = "idle" => \A s \in Scopes : applied[s] = {}
    BY <1>8 DEF AwsModified, StartWait, Finish, Modified
  <2>2. QED BY <1>8, <2>1 DEF AwsModified
<1>9. CASE AwsObserve
  <2>1. ASSUME NEW e \in Errors, WaitFails(e) PROVE ResultTracked'
    <3>1. \A s \in Scopes : failed[s] \subseteq failed'[s]
      BY <2>1 DEF WaitFails
    <3>2. \A s \in Scopes : ready[s] \/ applied[s] \in failed'[s]
      BY <2>1 DEF WaitFails, Unresolved
    <3>3. \A m \in accepted : m[2] \in applied[m[1]] \cup UNION failed'[m[1]]
      <4> SUFFICES ASSUME NEW m \in accepted PROVE m[2] \in applied[m[1]] \cup UNION failed'[m[1]]
        OBVIOUS
      <4>1. m[1] \in Scopes /\ m[2] \in applied[m[1]] \cup UNION failed[m[1]]
        BY <1>9 DEF AwsObserve
      <4>2. QED BY <4>1, <3>1
    <3>4. pc' = "idle" /\ UNCHANGED <<ready, scope>>
      BY <2>1 DEF WaitFails, Finish
    <3>5. QED BY <1>9, <3>2, <3>3, <3>4 DEF AwsObserve
  <2>2. ASSUME NEW r \in [Scopes -> BOOLEAN], NEW reboot, Goes(r, reboot),
              \A s \in Scopes : r[s] => Shown(s), UNCHANGED failed
       PROVE ResultTracked'
    <3>1. pc' \in {"poll", "sleep", "idle"} /\ ready' = r
      BY <2>2 DEF Goes, Finish
    <3>2. pc' = "idle" => r["cluster"] /\ r["instance"]
      BY <2>2 DEF Goes, Finish
    <3>3. UNCHANGED <<provider, op, shown, stored, accepted, applied>>
      BY <1>9 DEF AwsObserve
    <3>4. QED BY <2>2, <3>1, <3>2, <3>3, <1>9 DEF AwsObserve
  <2>3. CASE pc' = "describe" /\ Observed(scope) /\ UNCHANGED <<failed, scope, ready>>
    <3>1. Shown(scope)
      BY <2>3 DEF Observed, ListParameters, Absent
    <3>2. QED BY <1>9, <2>3, <3>1 DEF AwsObserve
  <2>4. \/ \E e \in Errors : WaitFails(e)
        \/ Goes(ready, restart) /\ UNCHANGED failed
        \/ pc' = "describe" /\ Observed(scope) /\ UNCHANGED <<failed, scope, ready>>
    BY <1>9 DEF AwsObserve, CallErrors, Errors
  <2>5. ready \in [Scopes -> BOOLEAN] /\ \A s \in Scopes : ready[s] => Shown(s)
    BY <1>9 DEF AwsObserve
  <2>6. QED BY <2>1, <2>2, <2>3, <2>4, <2>5
<1>10. CASE AwsDescribe
  <2>1. ASSUME NEW e \in Errors, WaitFails(e) PROVE ResultTracked'
    <3>1. \A s \in Scopes : failed[s] \subseteq failed'[s]
      BY <2>1 DEF WaitFails
    <3>2. \A s \in Scopes : ready[s] \/ applied[s] \in failed'[s]
      BY <2>1 DEF WaitFails, Unresolved
    <3>3. \A m \in accepted : m[2] \in applied[m[1]] \cup UNION failed'[m[1]]
      <4> SUFFICES ASSUME NEW m \in accepted PROVE m[2] \in applied[m[1]] \cup UNION failed'[m[1]]
        OBVIOUS
      <4>1. m[1] \in Scopes /\ m[2] \in applied[m[1]] \cup UNION failed[m[1]]
        BY <1>10 DEF AwsDescribe
      <4>2. QED BY <4>1, <3>1
    <3>4. pc' = "idle" /\ UNCHANGED <<ready, scope>>
      BY <2>1 DEF WaitFails, Finish
    <3>5. QED BY <1>10, <3>2, <3>3, <3>4 DEF AwsDescribe
  <2>2. ASSUME NEW r \in [Scopes -> BOOLEAN], NEW reboot, Goes(r, reboot),
              \A s \in Scopes : r[s] => Shown(s), UNCHANGED failed
       PROVE ResultTracked'
    <3>1. pc' \in {"poll", "sleep", "idle"} /\ ready' = r
      BY <2>2 DEF Goes, Finish
    <3>2. pc' = "idle" => r["cluster"] /\ r["instance"]
      BY <2>2 DEF Goes, Finish
    <3>3. UNCHANGED <<provider, op, shown, stored, accepted, applied>>
      BY <1>10 DEF AwsDescribe
    <3>4. QED BY <2>2, <3>1, <3>2, <3>3, <1>10 DEF AwsDescribe
  <2> DEFINE done == [ready EXCEPT ![scope] = TRUE]
  <2>4. \/ \E e \in Errors : WaitFails(e)
        \/ Goes(ready, restart) /\ UNCHANGED failed
        \/ Goes(done, restart \/ status[scope] = "pending-reboot") /\ UNCHANGED failed
    BY <1>10 DEF AwsDescribe, CallErrors, Errors
  <2>5. ready \in [Scopes -> BOOLEAN] /\ \A s \in Scopes : ready[s] => Shown(s)
    BY <1>10 DEF AwsDescribe
  <2>6. done \in [Scopes -> BOOLEAN] /\ \A s \in Scopes : done[s] => Shown(s)
    BY <1>10, <2>5 DEF AwsDescribe
  <2> HIDE DEF done
  <2>7. QED BY <2>1, <2>2, <2>4, <2>5, <2>6
<1>11. CASE AwsSleep
  <2>1. ASSUME NEW e \in Errors, WaitFails(e) PROVE ResultTracked'
    <3>1. \A s \in Scopes : failed[s] \subseteq failed'[s]
      BY <2>1 DEF WaitFails
    <3>2. \A s \in Scopes : ready[s] \/ applied[s] \in failed'[s]
      BY <2>1 DEF WaitFails, Unresolved
    <3>3. \A m \in accepted : m[2] \in applied[m[1]] \cup UNION failed'[m[1]]
      <4> SUFFICES ASSUME NEW m \in accepted PROVE m[2] \in applied[m[1]] \cup UNION failed'[m[1]]
        OBVIOUS
      <4>1. m[1] \in Scopes /\ m[2] \in applied[m[1]] \cup UNION failed[m[1]]
        BY <1>11 DEF AwsSleep
      <4>2. QED BY <4>1, <3>1
    <3>4. pc' = "idle" /\ UNCHANGED <<ready, scope>>
      BY <2>1 DEF WaitFails, Finish
    <3>5. QED BY <1>11, <3>2, <3>3, <3>4 DEF AwsSleep
  <2>2. WaitFails("timeout") \/ (pc' = "poll" /\ UNCHANGED <<failed, ready>>)
    BY <1>11 DEF AwsSleep
  <2>3. CASE pc' = "poll" /\ UNCHANGED <<failed, ready>>
    BY <1>11, <2>3 DEF AwsSleep
  <2>4. QED BY <2>1, <2>2, <2>3 DEF Errors
<1>12. CASE Deadline
  BY <1>12 DEF Deadline
<1>13. CASE GcpGet
  BY <1>13 DEF GcpGet, Finish
<1>14. CASE GcpFilter
  BY <1>14 DEF GcpFilter, Finish
<1>15. CASE GcpPatch
  BY <1>15 DEF GcpPatch, Patched, MergedFlags, Finish
<1>16. CASE GcpWait
  BY <1>16 DEF GcpWait, Finish
<1>17. CASE AzureServer
  BY <1>17 DEF AzureServer, Finish, AzureErrorCodes
<1>18. CASE AzureList
  BY <1>18 DEF AzureList, Finish, AzureErrorCodes, Considered
<1>19. CASE AzureUpdate
  BY <1>19 DEF AzureUpdate, Concludes, Finish, AzureErrorCodes
<1>20. CASE AzureWaitUpdate
  BY <1>20 DEF AzureWaitUpdate, Concludes, Finish, AzureErrorCodes
<1>21. CASE AzureRestart
  BY <1>21 DEF AzureRestart, Finish, AzureErrorCodes
<1>22. CASE AzureWaitRestart
  BY <1>22 DEF AzureWaitRestart, Finish, AzureErrorCodes
<1>23. CASE Reboot
  BY <1>23 DEF Reboot, InUse
<1>24. CASE \E s \in Scopes : Propagate(s)
  <2>1. \A p \in Params : shown'[p] \in {shown[p], stored[p]}
    BY <1>24 DEF Propagate
  <2>2. UNCHANGED <<provider, op, stored, accepted, applied, failed, pc, ready, scope>>
    BY <1>24 DEF Propagate
  <2>3. provider = "aws/rds" => \A p \in Params : shown[p] = "new" => shown'[p] = "new"
    BY <1>24 DEF Propagate
  <2>4. provider = "aws/rds" => \A s \in Scopes : Shown(s) => Shown(s)'
    BY <2>2, <2>3
  <2>5. QED BY <2>1, <2>2, <2>4
<1>25. CASE \E s \in Scopes : Settle(s)
  BY <1>25 DEF Settle, InUse
<1>26. CASE OperationEnds
  BY <1>26 DEF OperationEnds, InUse
<1>27. CASE OperatorEdits
  BY <1>27 DEF OperatorEdits
<1>28. CASE UNCHANGED vars
  BY <1>28 DEF vars
<1>99. QED BY <1>1, <1>2, <1>3, <1>4, <1>5, <1>6, <1>7, <1>8, <1>9, <1>10,
  <1>11, <1>12, <1>13, <1>14, <1>15, <1>16, <1>17, <1>18, <1>19, <1>20, <1>21,
  <1>22, <1>23, <1>24, <1>25, <1>26, <1>27, <1>28 DEF Next, AwsNext, AwsStep,
  GcpNext, GcpStep, AzureNext, AzureStep, Provider

(* Whatever the outcome at AWS, every modification is in the result, and   *)
(* one in "applied" was seen in its group or is listed as failed too.      *)
THEOREM Reported == Spec => []ModificationsAreReported
<1>1. Init => ResultTracked
  BY DEF Init, ResultTracked, Shown, NoOperation, Nothing, Scopes
<1>2. TypeOK /\ ResultTracked /\ [Next]_vars => ResultTracked'
  BY ResultTrackedStep
<1>3. ResultTracked => ModificationsAreReported
  BY DEF ResultTracked, Shown, ModificationsAreReported, Over
<1>4. QED BY <1>1, <1>2, <1>3, CloudTypes, PTL DEF Spec

-----------------------------------------------------------------------------
(* What the agent sends for a parameter that is not recommended is what    *)
(* the provider keeps, or was edited since the agent read it.              *)
Untouched == (Params \ Recommended) \ touched
OthersTracked ==
  /\ touched \subseteq Known
  /\ provider # "aws/rds" => shown = stored
  /\ \A p \in (Params \ Recommended) \ Known : stored[p] = "unset"
  /\ \A s \in Scopes : plan[s] \subseteq Recommended
  /\ op.state = "running" => \A p \in Untouched : op.flags[p] = stored[p]
  /\ provider = "gcp/cloudsql" /\ pc \in {"filter", "patch"} =>
       \A p \in Untouched \cap Known : listed["instance"][p] = stored[p]

LEMMA OthersTrackedStep == TypeOK /\ OthersTracked /\ [Next]_vars => OthersTracked'
<1> SUFFICES ASSUME TypeOK /\ OthersTracked, [Next]_vars PROVE OthersTracked'
  OBVIOUS
<1> USE DEF TypeOK, OthersTracked, Untouched, Recommended, Known, Scopes,
    Nothing, fixed, values, outside, input, result, waiting, history
<1>1. CASE AwsBegin
  BY <1>1 DEF AwsBegin, Begin, Finish
<1>2. CASE GcpBegin
  BY <1>2 DEF GcpBegin, Begin, Finish
<1>3. CASE AzureBegin
  BY <1>3 DEF AzureBegin, Begin, Finish
<1>4. CASE AwsDiscover
  BY <1>4 DEF AwsDiscover, Fails, Finish, CallErrors, ExitCode, Mismatched,
    InSync
<1>5. CASE AwsListInstance
  <2>1. \/ plan' = plan \/ \E list : plan' = BuildApplyPlan(list)
    BY <1>5 DEF AwsListInstance
  <2>2. \A list : \A s \in Scopes : BuildApplyPlan(list)[s] \subseteq Recommended
    BY DEF BuildApplyPlan
  <2>3. \A s \in Scopes : plan'[s] \subseteq Recommended
    BY <2>1, <2>2
  <2>4. UNCHANGED <<fixed, stored, shown, op, touched>> /\ provider = "aws/rds"
    BY <1>5 DEF AwsListInstance
  <2>5. QED BY <2>3, <2>4
<1>6. CASE AwsListCluster
  <2>1. \/ plan' = plan \/ \E list : plan' = BuildApplyPlan(list)
    BY <1>6 DEF AwsListCluster
  <2>2. \A list : \A s \in Scopes : BuildApplyPlan(list)[s] \subseteq Recommended
    BY DEF BuildApplyPlan
  <2>3. \A s \in Scopes : plan'[s] \subseteq Recommended
    BY <2>1, <2>2
  <2>4. UNCHANGED <<fixed, stored, shown, op, touched>> /\ provider = "aws/rds"
    BY <1>6 DEF AwsListCluster
  <2>5. QED BY <2>3, <2>4
<1>7. CASE AwsModify
  <2>1. Turn \in Scopes /\ Batch(Turn) \subseteq plan[Turn]
    BY DEF Batch, Left, Turn
  <2>2. \A p \in Params \ Recommended : stored'[p] = stored[p]
    BY <1>7, <2>1 DEF AwsModify, Accept
  <2>3. UNCHANGED <<provider, kind, shown, plan, op, touched>>
    BY <1>7 DEF AwsModify
  <2>4. QED BY <1>7, <2>2, <2>3 DEF AwsModify
<1>8. CASE AwsModified
  BY <1>8 DEF AwsModified, StartWait, Finish, ExitCode
<1>9. CASE AwsObserve
  BY <1>9 DEF AwsObserve, WaitFails, Goes, Finish, ExitCode, CallErrors,
    Answered
<1>10. CASE AwsDescribe
  BY <1>10 DEF AwsDescribe, WaitFails, Goes, Finish, ExitCode, CallErrors,
    Answered
<1>11. CASE AwsSleep
  BY <1>11 DEF AwsSleep, WaitFails, Finish, ExitCode
<1>12. CASE Deadline
  BY <1>12 DEF Deadline
<1>13. CASE GcpGet
  BY <1>13 DEF GcpGet, Finish
<1>14. CASE GcpFilter
  BY <1>14 DEF GcpFilter, Finish
<1>15. CASE GcpPatch
  <2>1. Updates \subseteq Recommended
    BY DEF Updates
  <2>2. \A p \in Untouched : MergedFlags(Updates)[p] = stored[p]
    BY <1>15, <2>1 DEF MergedFlags, GcpPatch
  <2>3. op' = op \/ op' = [kind |-> "patch", state |-> "running", flags |-> MergedFlags(Updates)]
    BY <1>15 DEF GcpPatch, Patched
  <2>4. UNCHANGED <<fixed, stored, shown, plan, listed, touched>>
    BY <1>15 DEF GcpPatch
  <2>5. pc' \in {"wait", "idle"}
    BY <1>15 DEF GcpPatch, Finish
  <2>6. QED BY <2>2, <2>3, <2>4, <2>5
<1>16. CASE GcpWait
  BY <1>16 DEF GcpWait, Finish
<1>17. CASE AzureServer
  BY <1>17 DEF AzureServer, Finish, AzureErrorCodes
<1>18. CASE AzureList
  <2> DEFINE updates == {p \in Considered : ~HasValue(p)}
  <2>1. plan' = plan \/ plan' = [plan EXCEPT !["instance"] = updates]
    BY <1>18 DEF AzureList
  <2>2. updates \subseteq Recommended
    BY DEF Considered
  <2>3. \A s \in Scopes : plan'[s] \subseteq Recommended
    BY <2>1, <2>2
  <2>4. UNCHANGED <<fixed, stored, shown, op, touched>> /\ provider = "azure/mysql"
    BY <1>18 DEF AzureList
  <2>5. QED BY <2>3, <2>4
<1>19. CASE AzureUpdate
  BY <1>19 DEF AzureUpdate, Concludes, Finish, AzureErrorCodes
<1>20. CASE AzureWaitUpdate
  BY <1>20 DEF AzureWaitUpdate, Concludes, Finish, AzureErrorCodes
<1>21. CASE AzureRestart
  BY <1>21 DEF AzureRestart, Finish, AzureErrorCodes
<1>22. CASE AzureWaitRestart
  BY <1>22 DEF AzureWaitRestart, Finish, AzureErrorCodes
<1>23. CASE Reboot
  BY <1>23 DEF Reboot, InUse
<1>24. CASE \E s \in Scopes : Propagate(s)
  BY <1>24 DEF Propagate
<1>25. CASE \E s \in Scopes : Settle(s)
  BY <1>25 DEF Settle, InUse
<1>26. CASE OperationEnds
  <2>1. stored' \in {stored, op.flags} /\ shown' = stored' /\ op'.state # "running"
    BY <1>26 DEF OperationEnds
  <2>2. \A p \in Untouched : stored'[p] = stored[p]
    BY <1>26, <2>1 DEF OperationEnds
  <2>3. UNCHANGED <<fixed, plan, listed, touched, pc>>
    BY <1>26 DEF OperationEnds
  <2>4. \A p \in (Params \ Recommended) \ Known : p \in Untouched
    OBVIOUS
  <2>5. QED BY <2>1, <2>2, <2>3, <2>4
<1>27. CASE OperatorEdits
  BY <1>27 DEF OperatorEdits
<1>28. CASE UNCHANGED vars
  BY <1>28 DEF vars
<1>99. QED BY <1>1, <1>2, <1>3, <1>4, <1>5, <1>6, <1>7, <1>8, <1>9, <1>10,
  <1>11, <1>12, <1>13, <1>14, <1>15, <1>16, <1>17, <1>18, <1>19, <1>20, <1>21,
  <1>22, <1>23, <1>24, <1>25, <1>26, <1>27, <1>28 DEF Next, AwsNext, AwsStep,
  GcpNext, GcpStep, AzureNext, AzureStep, Provider

LEMMA KeptStep ==
  TypeOK /\ OthersTracked /\ [Next]_vars =>
    [\A p \in Params \ Recommended : stored'[p] # stored[p] =>
        edits' # edits \/ p \in touched]_vars
<1> SUFFICES ASSUME TypeOK, OthersTracked, [Next]_vars,
                    NEW p \in Params \ Recommended, stored'[p] # stored[p]
             PROVE edits' # edits \/ p \in touched
  OBVIOUS
<1>1. \/ AwsModify \/ OperationEnds \/ OperatorEdits \/ UNCHANGED stored
  BY DEF Next, AwsNext, AwsStep, GcpNext, GcpStep, AzureNext, AzureStep, Provider, vars,
         fixed, values,
         AwsBegin, GcpBegin, AzureBegin, AwsDiscover, AwsListInstance,
         AwsListCluster, AwsModified, AwsObserve, AwsDescribe, AwsSleep,
         Deadline, GcpGet, GcpFilter, GcpPatch, GcpWait, AzureServer,
         AzureList, AzureUpdate, AzureWaitUpdate, AzureRestart,
         AzureWaitRestart, Reboot, Propagate, Settle, Begin
<1>2. CASE AwsModify
  <2>1. Turn \in Scopes /\ Batch(Turn) \subseteq Recommended
    BY DEF Batch, Left, Turn, OthersTracked, Scopes
  <2>2. stored'[p] = stored[p]
    BY <1>2, <2>1 DEF AwsModify, Accept, TypeOK
  <2>3. QED BY <2>2
<1>3. CASE OperationEnds
  BY <1>3 DEF OperationEnds, OthersTracked, Untouched
<1>4. CASE OperatorEdits
  BY <1>4 DEF OperatorEdits, TypeOK
<1>5. QED BY <1>1, <1>2, <1>3, <1>4

(* The agent never changes a parameter that is not recommended, except one *)
(* edited by hand after it read the list.                                  *)
THEOREM OthersAreKept == Spec => OthersKept
<1>1. Init => OthersTracked
  <2> SUFFICES ASSUME Init PROVE OthersTracked
    OBVIOUS
  <2>1. kind \in [Params -> Kinds]
        /\ \A p \in Params : kind[p].homes = {} => kind[p].stored = "unset"
    BY KindsAssumption DEF Init
  <2>2. QED BY <2>1 DEF Init, OthersTracked, Untouched, Recommended, Known, Nothing,
                        NoOperation, Scopes, Kinds
<1>2. TypeOK /\ OthersTracked /\ [Next]_vars => OthersTracked'
  BY OthersTrackedStep
<1>3. TypeOK /\ OthersTracked /\ [Next]_vars =>
        [\A p \in Params \ Recommended : stored'[p] # stored[p] =>
            edits' # edits \/ p \in touched]_vars
  BY KeptStep
<1>4. QED BY <1>1, <1>2, <1>3, CloudTypes, PTL DEF Spec, OthersKept

-----------------------------------------------------------------------------
(* AWS calls a group in sync only when the database uses all that the      *)
(* group shows; at Azure a value that needs no restart is in use, and an   *)
(* operation under way stores nothing but the recommended value.           *)
ProviderTracked ==
  /\ provider = "aws/rds" => \A p \in Known :
       status[Home(p)] = "in-sync" => shown[p] \in {"unset", running[p]}
  /\ provider = "azure/mysql" => \A p \in Params :
       /\ kind[p].apply = "dynamic" => ~Waits(p)
       /\ op.state = "running" => op.flags[p] \in {"new", stored[p]}

(* The scopes whose group a task at AWS checks before it changes any.      *)
Governs(s) == s = "instance" \/ topology.aurora

(* At AWS, as long as nothing was in flight when the task looked: until it *)
(* modifies a group, its groups stay in sync and as they were listed.      *)
LookTracked ==
  provider = "aws/rds" /\ quiet =>
    /\ pc \in {"listInstance", "listCluster"} =>
         /\ shown = stored /\ status["instance"] = "in-sync"
         /\ clusterStatus = "in-sync" => status["cluster"] = "in-sync"
    /\ pc = "listCluster" =>
         /\ topology.aurora /\ clusterStatus = "in-sync"
         /\ \A p \in Params :
              "instance" \in kind[p].homes => listed["instance"][p] = shown[p]

Modifies == pc \in {"modify", "poll", "describe", "sleep"}

(* The plan at AWS: it routes a parameter to the group that decides it,    *)
(* and the batches taken from it are stored.                               *)
PlanTracked ==
  provider = "aws/rds" =>
    /\ pc = "listCluster" => \A p \in Params :
         listed["instance"][p] # Absent => "instance" \in kind[p].homes
    /\ Modifies => \A s \in Scopes :
         /\ \A p \in plan[s] : p \in Known /\ Home(p) = s /\ Governs(s)
         /\ applied[s] \subseteq plan[s]
         /\ \A p \in applied[s] : stored[p] = "new"

(* The wait polls a scope that was modified and is not ready.              *)
WaitTracked ==
  /\ pc \in {"poll", "describe"} => ~ready[scope]
  /\ pc = "sleep" => \E s \in Scopes : ~ready[s]
  /\ pc \in {"poll", "describe", "sleep"} =>
       \A s \in Scopes : ~ready[s] => applied[s] # {}
  /\ pc # "idle" => code = Working

(* What the task has changed and plans to change in dynamic mode.          *)
PlansTracked ==
  mode = "dynamic" =>
    /\ \A m \in accepted : kind[m[2]].apply = "dynamic"
    /\ pc \notin {"idle", "filter"} =>
         \A s \in Scopes : \A p \in plan[s] : kind[p].apply = "dynamic"
    /\ pc = "filter" => \A p \in plan["cluster"] : kind[p].apply = "dynamic"

(* No group of AWS that the task looked at has anything that waits, or     *)
(* would wait, for a restart: in dynamic mode, when nothing was in flight. *)
Calm ==
  /\ \A s \in Scopes : Governs(s) => status[s] # "pending-reboot"
  /\ \A p \in Known : kind[p].apply # "dynamic" /\ Governs(Home(p)) =>
       stored[p] = shown[p] /\ shown[p] \in {"unset", running[p]}
CalmTracked == provider = "aws/rds" /\ mode = "dynamic" /\ quiet /\ Modifies => Calm

(* In dynamic mode no restart is required, made or asked for.              *)
RestartTracked ==
  mode = "dynamic" =>
    /\ pc \notin {"restart", "waitRestart"}
    /\ pc \in {"discover", "listInstance", "listCluster", "update", "waitUpdate"} =>
         ~restart
    /\ provider = "aws/rds" /\ quiet /\ Modifies => ~restart
    /\ quiet => code # 10

(* Which steps change what the provider keeps.                             *)
LEMMA DatabaseChanges ==
  ASSUME [Next]_vars
  PROVE  /\ UNCHANGED fixed
         /\ \/ AwsModify \/ GcpPatch \/ AzureUpdate \/ AzureRestart \/ Reboot
            \/ \E s \in Scopes : Propagate(s) \/ Settle(s)
            \/ OperationEnds \/ OperatorEdits
            \/ UNCHANGED <<values, op>>
BY DEF Next, AwsNext, AwsStep, GcpNext, GcpStep, AzureNext, AzureStep, Provider,
       vars, fixed, values, AwsBegin, GcpBegin, AzureBegin, Begin, AwsDiscover,
       AwsListInstance, AwsListCluster, AwsModify, AwsModified, AwsObserve,
       AwsDescribe, AwsSleep, Deadline, GcpGet, GcpFilter, GcpPatch, GcpWait,
       AzureServer, AzureList, AzureUpdate, AzureWaitUpdate, AzureRestart,
       AzureWaitRestart, Reboot, Propagate, Settle, OperationEnds,
       OperatorEdits

(* The provider and its operators leave the task alone.                    *)
LEMMA ProviderKeepsTask ==
  ASSUME Provider
  PROVE UNCHANGED <<fixed, pc, tasks, input, listed, plan, result, waiting,
                    restart, code, accepted, quiet>>
BY DEF Provider, Reboot, Propagate, Settle, OperationEnds, OperatorEdits, history

LEMMA ProviderTrackedStep ==
  ASSUME TypeOK, ResultTracked, OthersTracked, ProviderTracked, [Next]_vars
  PROVE ProviderTracked'
<1> USE DEF ProviderTracked, Known, Home, Waits
<1>1. UNCHANGED fixed
  BY DatabaseChanges
<1>2. /\ stored \in [Params -> Values] /\ shown \in [Params -> Values]
      /\ running \in [Params -> Values] /\ status \in [Scopes -> Syncs]
      /\ op.flags \in [Params -> Values] /\ op \in [kind : {"none", "patch", "update", "restart"},
             state : {"running", "done", "failed"}, flags : [Params -> Values]]
      /\ provider = "aws/rds" => op.state # "running"
      /\ provider # "aws/rds" => shown = stored
  BY DEF TypeOK, ResultTracked, OthersTracked
<1>3. CASE AwsModify
  BY <1>1, <1>2, <1>3 DEF AwsModify, fixed
<1>4. CASE GcpPatch
  BY <1>1, <1>2, <1>4 DEF GcpPatch, fixed
<1>5. CASE AzureUpdate
  <2>1. \/ UNCHANGED op
        \/ op' = [kind |-> "update", state |-> "running", flags |->
                    [p \in Params |-> IF p \in plan["instance"] THEN "new" ELSE stored[p]]]
    BY <1>5 DEF AzureUpdate
  <2>2. UNCHANGED values /\ provider = "azure/mysql"
    BY <1>5 DEF AzureUpdate
  <2>3. QED BY <1>1, <1>2, <2>1, <2>2 DEF fixed, values
<1>6. CASE AzureRestart
  BY <1>1, <1>2, <1>6 DEF AzureRestart, fixed, values
<1>7. CASE Reboot
  BY <1>1, <1>2, <1>7 DEF Reboot, InUse, fixed
<1>8. ASSUME NEW s \in Scopes, Propagate(s) PROVE ProviderTracked'
  BY <1>1, <1>2, <1>8 DEF Propagate, fixed
<1>9. ASSUME NEW s \in Scopes, Settle(s) PROVE ProviderTracked'
  <2>1. CASE provider = "aws/rds"
    <3>1. CASE status' = [status EXCEPT ![s] = "failed"] /\ UNCHANGED running
      BY <1>1, <1>2, <1>9, <2>1, <3>1 DEF Settle, fixed
    <3>2. CASE status'[s] = "in-sync"
      <4>1. \A p \in Known : Home(p) = s => shown[p] = "unset" \/ shown[p] = running'[p]
        BY <1>2, <1>9, <3>2 DEF Settle
      <4>2. \A p \in Known : Home(p) # s => running'[p] = running[p]
        BY <1>2, <1>9 DEF Settle
      <4>3. \A t \in Scopes : t # s => status'[t] = status[t]
        BY <1>2, <1>9 DEF Settle
      <4>4. UNCHANGED <<shown, op, stored>> /\ \A p \in Known : Home(p) \in Scopes
        BY <1>9 DEF Settle, Scopes
      <4>5. QED BY <1>1, <2>1, <4>1, <4>2, <4>3, <4>4 DEF fixed
    <3>3. CASE status'[s] # "in-sync"
      <4>2. \A p \in Known : Home(p) # s => running'[p] = running[p]
        BY <1>2, <1>9 DEF Settle
      <4>3. \A t \in Scopes : t # s => status'[t] = status[t]
        BY <1>2, <1>9 DEF Settle
      <4>4. UNCHANGED <<shown, op, stored>> /\ \A p \in Known : Home(p) \in Scopes
        BY <1>9 DEF Settle, Scopes
      <4>5. QED BY <1>1, <2>1, <3>3, <4>2, <4>3, <4>4 DEF fixed
    <3>4. QED BY <3>2, <3>3
  <2>2. CASE provider # "aws/rds"
    <3>1. shown = stored /\ UNCHANGED <<stored, op>>
      BY <1>2, <1>9, <2>2 DEF Settle
    <3>2. \A p \in Params : running'[p] \in {running[p], InUse(stored)[p]}
      BY <1>2, <1>9, <3>1 DEF Settle
    <3>3. QED BY <1>1, <2>2, <3>1, <3>2 DEF fixed, InUse
  <2>3. QED BY <2>1, <2>2
<1>10. CASE OperationEnds
  <2>1. provider # "aws/rds"
    BY <1>2, <1>10 DEF OperationEnds
  <2>2. \A p \in Params : kind[p].apply = "dynamic" => ~(Waits(p)')
    BY <1>1, <1>2, <1>10 DEF OperationEnds, InUse, fixed
  <2>3. op'.state # "running"
    BY <1>2, <1>10 DEF OperationEnds
  <2>4. QED BY <1>1, <2>1, <2>2, <2>3 DEF fixed
<1>11. CASE OperatorEdits
  BY <1>1, <1>11 DEF OperatorEdits, fixed
<1>12. CASE UNCHANGED <<values, op>>
  BY <1>1, <1>12 DEF fixed, values
<1>13. QED BY <1>3, <1>4, <1>5, <1>6, <1>7, <1>8, <1>9, <1>10, <1>11, <1>12,
              DatabaseChanges

(* Which steps bring a task at AWS to the listings, and to the changes.    *)
LEMMA AwsOrigins ==
  ASSUME [Next]_vars
  PROVE  LET same == Provider \/ UNCHANGED vars IN
         /\ pc' = "listInstance" => AwsDiscover \/ same
         /\ pc' = "listCluster" => AwsListInstance \/ same
         /\ Modifies' => \/ AwsListInstance \/ AwsListCluster \/ AwsModify
                         \/ AwsModified \/ AwsObserve \/ AwsDescribe \/ AwsSleep
                         \/ Deadline \/ same
BY DEF Next, AwsNext, AwsStep, GcpNext, GcpStep, AzureNext, AzureStep,
       vars, Modifies, AwsModify, AwsModified, AwsObserve, AwsDescribe, AwsSleep,
       Deadline, StartWait, WaitFails, Goes, AwsBegin, GcpBegin, AzureBegin, Begin, Finish, Fails,
       AwsDiscover, AwsListInstance, AwsListCluster, GcpGet, GcpFilter,
       GcpPatch, GcpWait, AzureServer, AzureList, AzureUpdate, Concludes,
       AzureWaitUpdate, AzureRestart, AzureWaitRestart

LEMMA LookTrackedStep ==
  ASSUME TypeOK, ResultTracked, OthersTracked, LookTracked, [Next]_vars
  PROVE LookTracked'
<1> USE DEF LookTracked
<1>1. UNCHANGED fixed
  BY DatabaseChanges
<1>2. /\ quiet \in BOOLEAN /\ status \in [Scopes -> Syncs]
      /\ shown \in [Params -> Values] /\ listed \in [Scopes -> [Params -> Values \cup {Absent}]]
      /\ provider = "aws/rds" => op.state # "running"
  BY DEF TypeOK, ResultTracked
<1>3. CASE AwsDiscover
  BY <1>1, <1>2, <1>3 DEF AwsDiscover, Fails, Finish, InSync, fixed, values, Scopes
<1>4. CASE AwsListInstance
  <2>1. /\ provider = "aws/rds" /\ pc = "listInstance" /\ pc' # "listInstance"
        /\ UNCHANGED <<values, input, history>>
    BY <1>4 DEF AwsListInstance, Fails, Finish
  <2>2. ASSUME pc' = "listCluster"
        PROVE  /\ topology.aurora /\ clusterStatus = "in-sync"
               /\ listed' = [listed EXCEPT !["instance"] = ListParameters("instance")]
    <3>1. /\ listed' = [listed EXCEPT !["instance"] = ListParameters("instance")]
          /\ IsAurora => InSync(clusterStatus)
          /\ ClassificationNeeded(listed'["instance"])
      BY <1>4, <2>2 DEF AwsListInstance, Fails, Finish
    <3>2. QED BY <3>1 DEF IsAurora, InSync, ClassificationNeeded
  <2>3. ASSUME pc' = "listCluster", NEW p \in Params, "instance" \in kind[p].homes
        PROVE  listed'["instance"][p] = shown[p]
    BY <1>2, <2>2, <2>3 DEF ListParameters, Scopes
  <2>4. QED BY <1>1, <2>1, <2>2, <2>3 DEF fixed, values, input, history
<1>5. CASE UNCHANGED vars
  BY <1>5 DEF vars, fixed, values, input, history
<1>6. CASE Provider
  <2>1. UNCHANGED <<pc, clusterStatus, listed, quiet>>
    BY <1>6, ProviderKeepsTask DEF input
  <2>2. SUFFICES ASSUME provider = "aws/rds", quiet, pc \in {"listInstance", "listCluster"}
                 PROVE  /\ UNCHANGED <<shown, stored>> /\ status'["instance"] = "in-sync"
                        /\ clusterStatus = "in-sync" => status'["cluster"] = "in-sync"
    BY <1>1, <2>1 DEF fixed
  <2>3. CASE Reboot
    BY <2>2, <2>3 DEF Reboot, Scopes
  <2>4. ASSUME NEW s \in Scopes, Propagate(s) PROVE FALSE
    BY <2>2, <2>4 DEF Propagate
  <2>5. ASSUME NEW s \in Scopes, Settle(s)
        PROVE  /\ UNCHANGED <<shown, stored>> /\ status'["instance"] = "in-sync"
               /\ clusterStatus = "in-sync" => status'["cluster"] = "in-sync"
    <3>1. \A t \in Scopes : t # s => status'[t] = status[t]
      BY <1>2, <2>5 DEF Settle
    <3>2. status[s] = "applying" /\ UNCHANGED <<shown, stored>>
      BY <2>5 DEF Settle
    <3>3. QED BY <2>2, <3>1, <3>2 DEF Scopes
  <2>6. ~OperationEnds /\ ~OperatorEdits
    BY <1>2, <2>2 DEF OperationEnds, OperatorEdits
  <2>7. QED BY <1>6, <2>3, <2>4, <2>5, <2>6 DEF Provider
<1>7. CASE pc' \notin {"listInstance", "listCluster"}
  BY <1>7
<1>8. QED BY <1>3, <1>4, <1>5, <1>6, <1>7, AwsOrigins

(* The plan routes a parameter by the lists of the groups that hold it.    *)
LEMMA RoutedHome ==
  ASSUME NEW list \in [Scopes -> [Params -> Values \cup {Absent}]],
         \A p \in Params : list["instance"][p] # Absent <=> "instance" \in kind[p].homes,
         \A p \in Params : list["cluster"][p] # Absent => "cluster" \in kind[p].homes,
         NEW s \in Scopes, NEW p \in BuildApplyPlan(list)[s]
  PROVE  p \in Known /\ Home(p) = s /\ Governs(s)
<1>1. p \in Params /\ Route(list, p) = s /\ TopologyAllows(s)
  BY DEF BuildApplyPlan, Recommended, BuildScopeParameter
<1>2. s \in kind[p].homes /\ (s = "cluster" => "instance" \notin kind[p].homes)
  BY <1>1 DEF Route, Scopes, Absent
<1>3. QED BY <1>1, <1>2 DEF Known, Home, Governs, TopologyAllows, IsAurora, Scopes

(* What ListParameters says of a group.                                    *)
LEMMA ListsItsOwn ==
  ASSUME shown \in [Params -> Values], NEW s \in Scopes, NEW p \in Params
  PROVE  /\ ListParameters(s)[p] # Absent <=> s \in kind[p].homes
         /\ s \in kind[p].homes => ListParameters(s)[p] = shown[p]
BY DEF ListParameters, Values, Absent

LEMMA PlanTrackedStep ==
  ASSUME TypeOK, RoutesTracked, ResultTracked, PlanTracked, [Next]_vars
  PROVE PlanTracked'
<1>1. UNCHANGED fixed
  BY DatabaseChanges
<1> DEFINE Right(s, p) == p \in Known /\ Home(p) = s /\ Governs(s)
<1>2. /\ stored \in [Params -> Values] /\ shown \in [Params -> Values]
      /\ listed \in [Scopes -> [Params -> Values \cup {Absent}]]
      /\ applied \in [Scopes -> SUBSET Params]
      /\ provider = "aws/rds" => op.state # "running"
      /\ provider = "aws/rds" /\ pc \in {"listInstance", "listCluster"} =>
           \A s \in Scopes : applied[s] = {}
  BY DEF TypeOK, ResultTracked
<1>3. (\A s, p : Right(s, p)' <=> Right(s, p))
  BY <1>1 DEF fixed, Known, Home, Governs
<1>c. ASSUME NEW list \in [Scopes -> [Params -> Values \cup {Absent}]],
             plan' = BuildApplyPlan(list), UNCHANGED applied, pc' = "modify",
             pc \in {"listInstance", "listCluster"}, provider = "aws/rds",
             \A p \in Params : list["instance"][p] # Absent <=> "instance" \in kind[p].homes,
             \A p \in Params : list["cluster"][p] # Absent => "cluster" \in kind[p].homes
      PROVE PlanTracked'
  <2>1. \A s \in Scopes : \A p \in plan'[s] : Right(s, p)
    BY <1>c, RoutedHome
  <2>2. \A s \in Scopes : applied'[s] = {}
    BY <1>2, <1>c
  <2> HIDE DEF Right
  <2>3. \A s \in Scopes : \A p \in plan'[s] : Right(s, p)'
    BY <2>1, <1>3
  <2>4. QED BY <1>c, <2>2, <2>3 DEF PlanTracked, Right
<1>4. CASE AwsListInstance
  <2> DEFINE full == [listed EXCEPT !["instance"] = ListParameters("instance")]
  <2>1. /\ provider = "aws/rds" /\ pc = "listInstance" /\ UNCHANGED applied
        /\ pc' \in {"idle", "listCluster", "modify"}
        /\ pc' # "idle" => listed' = full
        /\ pc' = "modify" => plan' = BuildApplyPlan(full)
    BY <1>4 DEF AwsListInstance, Fails, Finish, result
  <2>2. full \in [Scopes -> [Params -> Values \cup {Absent}]]
    BY <1>2 DEF ListParameters, Scopes
  <2>3. \A p \in Params : full["instance"][p] # Absent <=> "instance" \in kind[p].homes
    BY <1>2, ListsItsOwn DEF Scopes
  <2>0. provider = "aws/rds" /\ pc = "listInstance"
    BY <1>4 DEF AwsListInstance
  <2>a. \A p \in Params : listed["cluster"][p] = Absent
    BY <2>0 DEF RoutesTracked
  <2>4. full["cluster"] = listed["cluster"]
    BY <1>2 DEF Scopes
  <2> HIDE DEF full
  <2>5. CASE pc' = "modify"
    BY <1>c, <2>1, <2>2, <2>3, <2>4, <2>5, <2>a
  <2>6. CASE pc' # "modify"
    BY <1>1, <2>1, <2>3, <2>6 DEF PlanTracked, Modifies, fixed
  <2>7. QED BY <2>5, <2>6
<1>5. CASE AwsListCluster
  <2> DEFINE full == [listed EXCEPT !["cluster"] = ListParameters("cluster")]
  <2>1. /\ provider = "aws/rds" /\ pc = "listCluster" /\ UNCHANGED applied
        /\ pc' \in {"idle", "modify"}
        /\ pc' = "modify" => plan' = BuildApplyPlan(full)
    BY <1>5 DEF AwsListCluster, Fails, Finish, result
  <2>2. full \in [Scopes -> [Params -> Values \cup {Absent}]]
    BY <1>2 DEF ListParameters, Scopes
  <2>3. \A p \in Params : full["cluster"][p] # Absent => "cluster" \in kind[p].homes
    BY <1>2, ListsItsOwn DEF Scopes
  <2>0. provider = "aws/rds" /\ pc = "listCluster"
    BY <1>5 DEF AwsListCluster
  <2>a. \A p \in Params : listed["instance"][p] # Absent <=> "instance" \in kind[p].homes
    BY <2>0 DEF RoutesTracked, PlanTracked
  <2>4. full["instance"] = listed["instance"]
    BY <1>2 DEF Scopes
  <2> HIDE DEF full
  <2>5. CASE pc' = "modify"
    BY <1>c, <2>1, <2>2, <2>3, <2>4, <2>5, <2>a
  <2>6. CASE pc' # "modify"
    BY <2>1, <2>6 DEF PlanTracked, Modifies
  <2>7. QED BY <2>5, <2>6
<1>6. ASSUME UNCHANGED <<plan, listed, applied>>, pc' = "listCluster" => pc = "listCluster",
             Modifies' => Modifies,
             provider = "aws/rds" => \A p \in Params : stored[p] = "new" => stored'[p] = "new"
      PROVE PlanTracked'
  <2> HIDE DEF Right
  <2>1. ASSUME provider = "aws/rds", Modifies, NEW s \in Scopes
        PROVE  /\ \A p \in plan[s] : Right(s, p)'
               /\ applied[s] \subseteq plan[s]
               /\ \A p \in applied[s] : stored'[p] = "new"
    BY <1>2, <1>3, <1>6, <2>1 DEF PlanTracked, Right
  <2>2. QED BY <1>1, <1>6, <2>1 DEF PlanTracked, Right, fixed
<1>7. CASE AwsModify
  <2>1. provider = "aws/rds" /\ pc = "modify" /\ UNCHANGED <<plan, listed>>
        /\ pc' # "listCluster" /\ Modifies
    BY <1>7 DEF AwsModify, StartWait, Finish, Modifies
  <2>2. Turn \in Scopes /\ Batch(Turn) \subseteq plan[Turn]
    BY DEF Turn, Batch, Left, Scopes
  <2>3. \A p \in Params : stored[p] = "new" => stored'[p] = "new"
    BY <1>2, <1>7 DEF AwsModify, Accept
  <2>4. CASE UNCHANGED applied
    BY <1>6, <2>1, <2>3, <2>4
  <2>5. CASE /\ Accept(Turn, Batch(Turn))
             /\ applied' = [applied EXCEPT ![Turn] = @ \cup Batch(Turn)]
    <3>1. \A p \in Batch(Turn) : Home(p) = Turn /\ p \in Params
      BY <2>1, <2>2 DEF PlanTracked, Modifies, Known
    <3>2. Turn \in topology.own \/ Batch(Turn) = {}
      BY <2>1, <2>2 DEF RoutesTracked, Scopes
    <3>3. \A p \in Batch(Turn) : stored'[p] = "new"
      BY <2>5, <3>1, <3>2 DEF Accept
    <3> HIDE DEF Right
    <3>4. ASSUME NEW s \in Scopes
          PROVE  /\ \A p \in plan[s] : Right(s, p)'
                 /\ applied'[s] \subseteq plan[s]
                 /\ \A p \in applied'[s] : stored'[p] = "new"
      <4>1. /\ \A p \in plan[s] : Right(s, p)
            /\ applied[s] \subseteq plan[s]
            /\ \A p \in applied[s] : stored[p] = "new" /\ p \in Params
        BY <1>2, <2>1 DEF PlanTracked, Right
      <4>2. applied'[s] \subseteq applied[s] \cup Batch(Turn)
            /\ (s # Turn => applied'[s] = applied[s])
        BY <1>2, <2>2, <2>5
      <4>3. QED BY <1>3, <2>2, <2>3, <3>3, <4>1, <4>2
    <3>5. QED BY <2>1, <3>4 DEF PlanTracked, Right
  <2>6. QED BY <1>7, <2>4, <2>5 DEF AwsModify
<1>8. CASE AwsModified \/ AwsObserve \/ AwsDescribe \/ AwsSleep \/ Deadline
  <2>1. UNCHANGED <<plan, listed, applied, stored>> /\ Modifies /\ pc' # "listCluster"
    BY <1>8 DEF AwsModified, AwsObserve, AwsDescribe, AwsSleep, Deadline, StartWait,
       WaitFails, Goes, Finish, Modifies, values, result
  <2>2. QED BY <1>6, <2>1
<1>9. CASE UNCHANGED vars
  BY <1>6, <1>9 DEF vars, result, values, Modifies
<1>10. CASE Provider
  <2>1. UNCHANGED <<plan, listed, applied, pc>>
    BY <1>10, ProviderKeepsTask DEF result
  <2>2. provider = "aws/rds" => UNCHANGED stored
    BY <1>2, <1>10 DEF Provider, Reboot, Propagate, Settle, OperationEnds, OperatorEdits
  <2>3. QED BY <1>6, <2>1, <2>2 DEF Modifies
<1>11. CASE ~Modifies' /\ pc' # "listCluster"
  BY <1>11 DEF PlanTracked
<1>12. QED BY <1>4, <1>5, <1>7, <1>8, <1>9, <1>10, <1>11, AwsOrigins

LEMMA WorkingStep ==
  ASSUME pc # "idle" => code = Working, [Next]_vars
  PROVE  (pc # "idle" => code = Working)'
<1>1. CASE AwsNext
  BY <1>1 DEF AwsNext, AwsStep, AwsBegin, Begin, Finish, Fails, AwsDiscover,
     AwsListInstance, AwsListCluster, AwsModify, AwsModified, AwsObserve,
     AwsDescribe, AwsSleep, Deadline, StartWait, WaitFails, Goes
<1>2. CASE GcpNext
  BY <1>2 DEF GcpNext, GcpStep, GcpBegin, Begin, Finish, GcpGet, GcpFilter,
     GcpPatch, GcpWait
<1>3. CASE AzureNext
  BY <1>3 DEF AzureNext, AzureStep, AzureBegin, Begin, Finish, AzureServer,
     AzureList, AzureUpdate, AzureWaitUpdate, AzureRestart, AzureWaitRestart,
     Concludes
<1>4. CASE Provider
  BY <1>4, ProviderKeepsTask
<1>5. CASE UNCHANGED vars
  BY <1>5 DEF vars
<1>6. QED BY <1>1, <1>2, <1>3, <1>4, <1>5 DEF Next

LEMMA WaitTrackedStep ==
  ASSUME TypeOK, WaitTracked, [Next]_vars
  PROVE WaitTracked'
<1> DEFINE Polls == pc \in {"poll", "describe"} => ~ready[scope]
           Sleeps == pc = "sleep" => \E s \in Scopes : ~ready[s]
           Has == pc \in {"poll", "describe", "sleep"} =>
                    \A s \in Scopes : ~ready[s] => applied[s] # {}
<1>1. (pc # "idle" => code = Working)'
  BY WorkingStep DEF WaitTracked
<1>2. Polls /\ Sleeps /\ Has
  BY DEF WaitTracked
<1>3. ready \in [Scopes -> BOOLEAN] /\ scope \in Scopes
  BY DEF TypeOK
<1> SUFFICES Polls' /\ Sleeps' /\ Has'
  BY <1>1 DEF WaitTracked
<1>4. ASSUME NEW r \in [Scopes -> BOOLEAN], NEW b, Goes(r, b), UNCHANGED applied,
             \A s \in Scopes : ~r[s] => applied[s] # {}
      PROVE  Polls' /\ Sleeps' /\ Has'
  BY <1>3, <1>4 DEF Goes, Finish, Scopes
<1>5. CASE AwsModify \/ AwsModified
  <2>1. /\ pc' \in {"modify", "poll", "idle"}
        /\ pc' = "poll" =>
             /\ UNCHANGED applied
             /\ scope' = IF applied["instance"] # {} THEN "instance" ELSE "cluster"
             /\ ready' = [s \in Scopes |-> applied[s] = {}]
             /\ \E s \in Scopes : applied[s] # {}
    BY <1>5 DEF AwsModify, AwsModified, StartWait, Finish, Modified, result
  <2>2. QED BY <2>1 DEF Scopes
<1>6. CASE AwsObserve
  BY <1>2, <1>3, <1>4, <1>6 DEF AwsObserve, WaitFails, Finish
<1>7. CASE AwsDescribe
  <2>1. ASSUME Goes([ready EXCEPT ![scope] = TRUE], restart \/ status[scope] = "pending-reboot"),
               UNCHANGED applied, pc = "describe"
        PROVE  Polls' /\ Sleeps' /\ Has'
    <3>1. [ready EXCEPT ![scope] = TRUE] \in [Scopes -> BOOLEAN]
      BY <1>3
    <3>2. \A s \in Scopes : ~[ready EXCEPT ![scope] = TRUE][s] => applied[s] # {}
      BY <1>2, <1>3, <2>1
    <3>3. QED BY <1>4, <2>1, <3>1, <3>2
  <2>2. ASSUME Goes(ready, restart), UNCHANGED applied, pc = "describe"
        PROVE  Polls' /\ Sleeps' /\ Has'
    BY <1>2, <1>3, <1>4, <2>2
  <2>3. ASSUME NEW e, WaitFails(e) PROVE Polls' /\ Sleeps' /\ Has'
    BY <2>3 DEF WaitFails, Finish
  <2>4. QED BY <1>7, <2>1, <2>2, <2>3 DEF AwsDescribe
<1>8. CASE AwsSleep
  BY <1>2, <1>3, <1>8 DEF AwsSleep, WaitFails, Finish, Scopes
<1>9. CASE Deadline
  BY <1>2, <1>9 DEF Deadline, result
<1>10. CASE UNCHANGED vars
  BY <1>2, <1>10 DEF vars, result, waiting
<1>11. CASE Provider
  BY <1>2, <1>11, ProviderKeepsTask DEF result, waiting
<1>12. CASE AwsListInstance \/ AwsListCluster
  BY <1>12 DEF AwsListInstance, AwsListCluster, Fails, Finish
<1>13. CASE ~Modifies'
  BY <1>13 DEF Modifies
<1> HIDE DEF Polls, Sleeps, Has
<1>14. QED BY <1>5, <1>6, <1>7, <1>8, <1>9, <1>10, <1>11, <1>12, <1>13, AwsOrigins

(* In dynamic mode the plan of AWS takes up dynamic parameters only.       *)
LEMMA PlansDynamic ==
  ASSUME mode = "dynamic", NEW list, NEW s \in Scopes, NEW p \in BuildApplyPlan(list)[s]
  PROVE  kind[p].apply = "dynamic"
BY DEF BuildApplyPlan, BuildScopeParameter, Appliable

LEMMA FilterOrigin ==
  ASSUME [Next]_vars
  PROVE  pc' = "filter" => GcpGet \/ Provider \/ UNCHANGED vars
BY DEF Next, AwsNext, AwsStep, GcpNext, GcpStep, AzureNext, AzureStep, vars,
       AwsBegin, GcpBegin, AzureBegin, Begin, Finish, Fails, AwsDiscover,
       AwsListInstance, AwsListCluster, AwsModify, AwsModified, AwsObserve,
       AwsDescribe, AwsSleep, Deadline, StartWait, WaitFails, Goes, GcpFilter,
       GcpPatch, GcpWait, AzureServer, AzureList, AzureUpdate, Concludes,
       AzureWaitUpdate, AzureRestart, AzureWaitRestart

LEMMA PlansTrackedStep ==
  ASSUME TypeOK, PlansTracked, [Next]_vars
  PROVE PlansTracked'
<1> USE DEF PlansTracked
<1>1. UNCHANGED fixed
  BY DatabaseChanges
<1>2. plan \in [Scopes -> SUBSET Params] /\ mode \in {"dynamic", "full"}
  BY DEF TypeOK
<1> DEFINE Dynamic(P) == \A p \in P : kind[p].apply = "dynamic"
<1>a. CASE GcpGet
  <2>1. /\ UNCHANGED <<mode, accepted>> /\ pc' \in {"idle", "filter", "patch"}
        /\ pc' = "patch" => mode # "dynamic"
        /\ pc' = "filter" => pc = "get" /\ plan' = [plan EXCEPT !["instance"] = Recommended]
    BY <1>a DEF GcpGet, Finish, input, history
  <2>2. pc' = "filter" => plan'["cluster"] = plan["cluster"]
    BY <1>2, <2>1 DEF Scopes
  <2>3. QED BY <1>1, <2>1, <2>2 DEF fixed, Scopes
<1>b. CASE Provider
  <2>1. UNCHANGED <<mode, accepted, plan, pc>>
    BY <1>b, ProviderKeepsTask DEF input
  <2>2. QED BY <1>1, <2>1 DEF fixed
<1>c. CASE UNCHANGED vars
  BY <1>1, <1>c DEF vars, input, history, fixed
<1>f. SUFFICES ASSUME pc' # "filter" PROVE PlansTracked'
  BY <1>a, <1>b, <1>c, FilterOrigin
<1>3. ASSUME UNCHANGED <<mode, accepted>>, pc' \notin {"idle", "filter"} =>
               \/ UNCHANGED plan /\ pc \notin {"idle", "filter"}
               \/ mode = "dynamic" => \A s \in Scopes : Dynamic(plan'[s])
      PROVE PlansTracked'
  BY <1>1, <1>3, <1>f DEF fixed
<1>4. ASSUME UNCHANGED <<mode, plan>>, pc \notin {"idle", "filter"},
             NEW s \in Scopes, NEW P \in SUBSET plan[s],
             accepted' = accepted \cup ({s} \X P)
      PROVE PlansTracked'
  BY <1>1, <1>4, <1>f DEF fixed
<1>5. CASE AwsBegin \/ GcpBegin \/ AzureBegin
  <2>1. accepted' = {} /\ plan' = Nothing
    BY <1>5 DEF AwsBegin, GcpBegin, AzureBegin, Begin
  <2>2. QED BY <2>1, <1>f DEF Nothing
<1>6. CASE AwsDiscover
  BY <1>3, <1>6 DEF AwsDiscover, Fails, Finish
<1>7. CASE AwsListInstance
  <2>1. /\ UNCHANGED <<mode, accepted>> /\ pc \notin {"idle", "filter"}
        /\ pc' = "idle" \/ UNCHANGED plan \/ plan' = BuildApplyPlan(listed')
    BY <1>7 DEF AwsListInstance, Fails, Finish, input, history
  <2>2. mode = "dynamic" => \A s \in Scopes : Dynamic(BuildApplyPlan(listed')[s])
    BY PlansDynamic
  <2> HIDE DEF Dynamic
  <2>3. QED BY <1>3, <2>1, <2>2
<1>8. CASE AwsListCluster
  <2>1. /\ UNCHANGED <<mode, accepted>> /\ pc \notin {"idle", "filter"}
        /\ pc' = "idle" \/ plan' = BuildApplyPlan(listed')
    BY <1>8 DEF AwsListCluster, Fails, Finish, input, history
  <2>2. mode = "dynamic" => \A s \in Scopes : Dynamic(BuildApplyPlan(listed')[s])
    BY PlansDynamic
  <2> HIDE DEF Dynamic
  <2>3. QED BY <1>3, <2>1, <2>2
<1>9. CASE AwsModify
  <2>1. /\ UNCHANGED <<mode, plan>> /\ pc \notin {"idle", "filter"}
        /\ \/ UNCHANGED accepted
           \/ accepted' = accepted \cup ({Turn} \X Batch(Turn))
    BY <1>9 DEF AwsModify, Accept, input
  <2>2. Turn \in Scopes /\ Batch(Turn) \in SUBSET plan[Turn]
    BY DEF Turn, Batch, Left, Scopes
  <2>3. QED BY <1>3, <1>4, <2>1, <2>2
<1>10. CASE AwsModified \/ AwsObserve \/ AwsDescribe \/ AwsSleep \/ Deadline
  <2>1. UNCHANGED <<mode, accepted, plan>> /\ pc \notin {"idle", "filter"}
    BY <1>10 DEF AwsModified, AwsObserve, AwsDescribe, AwsSleep, Deadline, input, history
  <2>2. QED BY <1>3, <2>1
<1>12. CASE GcpFilter
  <2>1. /\ UNCHANGED <<mode, accepted>> /\ pc = "filter" /\ pc' \in {"idle", "patch"}
        /\ pc' = "patch" => plan' = [plan EXCEPT !["instance"] =
                               {p \in plan["instance"] : kind[p].apply = "dynamic"}]
    BY <1>12 DEF GcpFilter, Finish, input, history
  <2>2. pc' = "patch" => /\ plan'["cluster"] = plan["cluster"]
                         /\ Dynamic(plan'["instance"])
    BY <1>2, <2>1 DEF Scopes
  <2>3. QED BY <1>3, <2>1, <2>2 DEF Scopes
<1>13. CASE GcpPatch
  <2>1. /\ UNCHANGED <<mode, plan>> /\ pc \notin {"idle", "filter"}
        /\ \/ UNCHANGED accepted
           \/ accepted' = accepted \cup ({"instance"} \X Updates)
    BY <1>13 DEF GcpPatch, Patched, input
  <2>2. "instance" \in Scopes /\ Updates \in SUBSET plan["instance"]
    BY DEF Updates, Scopes
  <2>3. QED BY <1>3, <1>4, <2>1, <2>2
<1>14. CASE GcpWait \/ AzureServer \/ AzureWaitUpdate \/ AzureRestart \/ AzureWaitRestart
  <2>1. UNCHANGED <<mode, accepted, plan>> /\ pc \notin {"idle", "filter"}
    BY <1>14 DEF GcpWait, AzureServer, AzureWaitUpdate, AzureRestart, AzureWaitRestart,
       input, history
  <2>2. QED BY <1>3, <2>1
<1>15. CASE AzureList
  <2>1. /\ UNCHANGED <<mode, accepted>> /\ pc \notin {"idle", "filter"}
        /\ UNCHANGED plan \/ plan' = [plan EXCEPT !["instance"] = {p \in Considered : ~HasValue(p)}]
    BY <1>15 DEF AzureList, input, history
  <2>2. mode = "dynamic" => Dynamic({p \in Considered : ~HasValue(p)})
    BY DEF Considered, EligibleForApplyMode
  <2>3. QED BY <1>2, <1>3, <2>1, <2>2
<1>16. CASE AzureUpdate
  <2>1. /\ UNCHANGED <<mode, plan>> /\ pc \notin {"idle", "filter"}
        /\ \/ UNCHANGED accepted
           \/ accepted' = accepted \cup ({"instance"} \X plan["instance"])
    BY <1>16 DEF AzureUpdate, input
  <2>2. "instance" \in Scopes /\ plan["instance"] \in SUBSET plan["instance"]
    BY DEF Scopes
  <2>3. QED BY <1>3, <1>4, <2>1, <2>2
<1>19. QED BY <1>5, <1>6, <1>7, <1>8, <1>9, <1>10, <1>12, <1>13, <1>14,
              <1>15, <1>16, <1>a, <1>b, <1>c DEF Next, AwsNext, AwsStep, GcpNext,
              GcpStep, AzureNext, AzureStep

LEMMA CalmStays ==
  ASSUME TypeOK, provider = "aws/rds", op.state # "running", Calm, Provider
  PROVE  Calm'
<1>1. UNCHANGED fixed
  BY ProviderKeepsTask
<1>2. \A s, p : (Governs(s)' <=> Governs(s)) /\ Home(p)' = Home(p) /\ Known' = Known
  BY <1>1 DEF fixed, Governs, Home, Known
<1>3. /\ stored \in [Params -> Values] /\ shown \in [Params -> Values]
      /\ running \in [Params -> Values] /\ status \in [Scopes -> Syncs] /\ kind' = kind
      /\ Known \subseteq Params /\ \A p : Home(p) \in Scopes
  BY <1>1 DEF TypeOK, Known, Home, Scopes, fixed
<1>4. CASE Reboot
  BY <1>2, <1>3, <1>4 DEF Reboot, InUse, Calm
<1>5. ASSUME NEW s \in Scopes, Propagate(s) PROVE Calm'
  <2>1. /\ UNCHANGED <<stored, running>> /\ status' = [status EXCEPT ![s] = "applying"]
        /\ \A p \in Params : shown'[p] \in {stored[p], shown[p]}
    BY <1>3, <1>5 DEF Propagate
  <2>2. \A t \in Scopes : status'[t] \in {"applying", status[t]}
    BY <1>3, <2>1
  <2>3. QED BY <1>2, <1>3, <2>1, <2>2 DEF Calm
<1>6. ASSUME NEW s \in Scopes, Settle(s) PROVE Calm'
  <2>1. /\ UNCHANGED <<stored, shown>> /\ \A t \in Scopes : t # s => status'[t] = status[t]
        /\ \A p \in Params : /\ kind[p].apply # "dynamic" => running'[p] = running[p]
                             /\ kind[p].apply = "dynamic" /\ running'[p] # running[p] =>
                                  running'[p] = shown[p]
    BY <1>3, <1>6 DEF Settle, InUse
  <2>2. ASSUME Governs(s) PROVE status'[s] # "pending-reboot"
    <3>1. CASE status' = [status EXCEPT ![s] = "failed"]
      BY <1>3, <3>1
    <3>2. CASE /\ running' = [p \in Params |->
                     IF Home(p) = s /\ kind[p].apply = "dynamic"
                     THEN InUse(shown)[p] ELSE running[p]]
               /\ status' = [status EXCEPT ![s] =
                     IF \E p \in Known : /\ Home(p) = s /\ shown[p] # "unset"
                                         /\ shown[p] # running'[p]
                     THEN "pending-reboot" ELSE "in-sync"]
      <4>1. ASSUME NEW p \in Known, Home(p) = s, shown[p] # "unset"
            PROVE  shown[p] = running'[p]
        <5>1. CASE kind[p].apply = "dynamic"
          BY <1>3, <3>2, <4>1, <5>1 DEF InUse
        <5>2. CASE kind[p].apply # "dynamic"
          BY <1>3, <2>1, <2>2, <4>1, <5>2 DEF Calm
        <5>3. QED BY <5>1, <5>2
      <4>2. ~\E p \in Known : Home(p) = s /\ shown[p] # "unset" /\ shown[p] # running'[p]
        BY <4>1
      <4>3. QED BY <1>3, <3>2, <4>2
    <3>3. QED BY <1>6, <3>1, <3>2 DEF Settle
  <2>3. QED BY <1>2, <1>3, <2>1, <2>2 DEF Calm
<1>7. ~OperationEnds /\ ~OperatorEdits
  BY DEF OperationEnds, OperatorEdits
<1>8. QED BY <1>4, <1>5, <1>6, <1>7 DEF Provider

LEMMA CalmTrackedStep ==
  ASSUME TypeOK, ResultTracked, ProviderTracked, LookTracked, PlanTracked,
         PlansTracked, CalmTracked, [Next]_vars
  PROVE CalmTracked'
<1>1. UNCHANGED fixed
  BY DatabaseChanges
<1>2. \A s, p : (Governs(s)' <=> Governs(s)) /\ Home(p)' = Home(p) /\ Known' = Known
  BY <1>1 DEF fixed, Governs, Home, Known
<1>3. /\ stored \in [Params -> Values] /\ shown \in [Params -> Values]
      /\ Known \subseteq Params /\ \A p : Home(p) \in Scopes
      /\ provider = "aws/rds" => op.state # "running"
  BY DEF TypeOK, ResultTracked, Known, Home, Scopes
<1>4. SUFFICES ASSUME provider = "aws/rds", (mode = "dynamic")', quiet', Modifies'
               PROVE  Calm'
  BY <1>1 DEF CalmTracked, Calm, fixed
<1>5. ASSUME Calm, UNCHANGED values PROVE Calm'
  BY <1>1, <1>2, <1>5 DEF Calm, values, fixed
<1>6. ASSUME Modifies, UNCHANGED <<mode, quiet>> PROVE Calm
  BY <1>4, <1>6 DEF CalmTracked, Calm
<1>7. CASE AwsListInstance \/ AwsListCluster
  <2>1. /\ UNCHANGED <<values, mode, quiet>> /\ pc \in {"listInstance", "listCluster"}
        /\ topology.aurora => clusterStatus = "in-sync"
    BY <1>4, <1>7 DEF AwsListInstance, AwsListCluster, Fails, Finish, InSync, IsAurora,
       Modifies, input, history, LookTracked
  <2>2. /\ shown = stored /\ status["instance"] = "in-sync"
        /\ topology.aurora => status["cluster"] = "in-sync"
    BY <1>4, <2>1 DEF LookTracked
  <2>3. \A s \in Scopes : Governs(s) => status[s] = "in-sync"
    BY <2>2 DEF Governs, Scopes
  <2>4. \A p \in Known : Governs(Home(p)) => shown[p] \in {"unset", running[p]}
    BY <1>3, <1>4, <2>3 DEF ProviderTracked
  <2>5. Calm
    BY <1>3, <2>2, <2>3, <2>4 DEF Calm
  <2>6. QED BY <1>5, <2>1, <2>5
<1>8. CASE AwsModify
  <2>1. /\ UNCHANGED <<mode, quiet, shown, running, status>> /\ pc = "modify"
        /\ \A p \in Params : p \notin Batch(Turn) => stored'[p] = stored[p]
    BY <1>3, <1>8 DEF AwsModify, Accept, input
  <2>2. Calm
    BY <1>6, <2>1 DEF Modifies
  <2>3. \A p \in Batch(Turn) : kind[p].apply = "dynamic"
    BY <1>4, <2>1 DEF PlansTracked, Batch, Left, Turn, Scopes
  <2>4. QED BY <1>1, <1>2, <1>3, <2>1, <2>2, <2>3 DEF Calm, fixed
<1>9. CASE AwsModified \/ AwsObserve \/ AwsDescribe \/ AwsSleep \/ Deadline
  <2>1. UNCHANGED <<values, mode, quiet>> /\ Modifies
    BY <1>9 DEF AwsModified, AwsObserve, AwsDescribe, AwsSleep, Deadline, Modifies,
       input, history
  <2>2. QED BY <1>5, <1>6, <2>1
<1>10. CASE UNCHANGED vars
  <2>1. UNCHANGED <<values, mode, quiet>> /\ Modifies
    BY <1>4, <1>10 DEF vars, Modifies, input, history
  <2>2. QED BY <1>5, <1>6, <2>1
<1>11. CASE Provider
  <2>1. UNCHANGED <<mode, quiet>> /\ Modifies
    BY <1>4, <1>11, ProviderKeepsTask DEF Modifies, input
  <2>2. QED BY <1>3, <1>4, <1>6, <1>11, <2>1, CalmStays
<1>12. QED BY <1>4, <1>7, <1>8, <1>9, <1>10, <1>11, AwsOrigins

LEMMA RestartTrackedStep ==
  ASSUME TypeOK, PlanTracked, WaitTracked, PlansTracked, CalmTracked,
         RestartTracked, [Next]_vars
  PROVE RestartTracked'
<1>1. UNCHANGED fixed
  BY DatabaseChanges
<1>2. scope \in Scopes /\ ready \in [Scopes -> BOOLEAN] /\ applied \in [Scopes -> SUBSET Params]
  BY DEF TypeOK
<1>3. pc # "idle" => code = 20
  BY DEF WaitTracked, Working
<1> USE DEF RestartTracked, Modifies
<1>4. CASE AwsBegin \/ GcpBegin \/ AzureBegin
  BY <1>4 DEF AwsBegin, GcpBegin, AzureBegin, Begin, Finish, Working
<1>5. CASE AwsDiscover
  BY <1>3, <1>5 DEF AwsDiscover, Fails, Finish, CallErrors, ExitCode, waiting
<1>6. CASE AwsListInstance
  BY <1>1, <1>6 DEF AwsListInstance, Fails, Finish, CallErrors, ExitCode, input, history, fixed
<1>7. CASE AwsListCluster
  BY <1>1, <1>7 DEF AwsListCluster, Fails, Finish, CallErrors, ExitCode, input, history, fixed
<1>8. CASE AwsModify
  BY <1>1, <1>8 DEF AwsModify, StartWait, Finish, ExitCode, input, fixed
<1>9. CASE AwsModified
  BY <1>1, <1>9 DEF AwsModified, StartWait, Finish, ExitCode, input, history, fixed
<1>10. CASE AwsObserve
  BY <1>1, <1>10 DEF AwsObserve, WaitFails, Goes, Finish, ExitCode, CallErrors,
     input, history, fixed
<1>11. CASE AwsDescribe
  <2>1. Governs(scope)
    BY <1>2, <1>11 DEF AwsDescribe, PlanTracked, WaitTracked, Modifies
  <2>2. mode = "dynamic" /\ quiet => status[scope] # "pending-reboot"
    BY <1>2, <1>11, <2>1 DEF AwsDescribe, CalmTracked, Calm
  <2>3. /\ provider = "aws/rds" /\ pc = "describe" /\ restart \in BOOLEAN
        /\ UNCHANGED <<mode, quiet, provider>>
    BY <1>11 DEF AwsDescribe, TypeOK, input, history, fixed
  <2>4. ASSUME NEW r, NEW b \in BOOLEAN, Goes(r, b), mode = "dynamic" /\ quiet => ~b
        PROVE  RestartTracked'
    BY <2>3, <2>4 DEF Goes, Finish, ExitCode
  <2>5. ASSUME NEW e, WaitFails(e) PROVE RestartTracked'
    BY <2>3, <2>5 DEF WaitFails, Finish, ExitCode
  <2>6. CASE Goes(ready, restart)
    BY <2>3, <2>4, <2>6
  <2>7. CASE Goes([ready EXCEPT ![scope] = TRUE], restart \/ status[scope] = "pending-reboot")
    <3>1. (restart \/ status[scope] = "pending-reboot") \in BOOLEAN
      OBVIOUS
    <3>2. mode = "dynamic" /\ quiet => ~(restart \/ status[scope] = "pending-reboot")
      BY <2>2, <2>3
    <3>3. QED BY <2>4, <2>7, <3>1, <3>2
  <2>8. QED BY <1>11, <2>5, <2>6, <2>7 DEF AwsDescribe
<1>12. CASE AwsSleep \/ Deadline
  BY <1>1, <1>12 DEF AwsSleep, Deadline, WaitFails, Finish, ExitCode, input, history, fixed
<1>13. CASE GcpStep
  BY <1>1, <1>13 DEF GcpStep, GcpGet, GcpFilter, GcpPatch, GcpWait, Finish, Panicked,
     input, history, fixed
<1>14. CASE AzureServer \/ AzureRestart \/ AzureWaitRestart
  BY <1>1, <1>14 DEF AzureServer, AzureRestart, AzureWaitRestart, Finish, AzureErrorCodes,
     input, history, fixed
<1>15. CASE AzureList
  <2>1. mode = "dynamic" => \A p \in Considered : kind[p].apply = "dynamic"
    BY DEF Considered, EligibleForApplyMode
  <2>2. pc' = "update" /\ mode = "dynamic" => ~restart'
    BY <1>15, <2>1 DEF AzureList, PendingRestart, Finish
  <2>3. /\ UNCHANGED <<mode, quiet, provider>> /\ provider # "aws/rds"
        /\ pc' \in {"idle", "update"} /\ code' \in {code, 8, 9}
    BY <1>15 DEF AzureList, Finish, AzureErrorCodes, input, history, fixed
  <2>4. QED BY <2>2, <2>3
<1>16. CASE AzureUpdate \/ AzureWaitUpdate
  BY <1>1, <1>16 DEF AzureUpdate, AzureWaitUpdate, Concludes, Finish, AzureErrorCodes,
     input, history, fixed
<1>17. CASE Provider
  BY <1>17, ProviderKeepsTask DEF input, fixed
<1>18. CASE UNCHANGED vars
  BY <1>18 DEF vars, input, history, fixed
<1>19. QED BY <1>4, <1>5, <1>6, <1>7, <1>8, <1>9, <1>10, <1>11, <1>12, <1>13,
              <1>14, <1>15, <1>16, <1>17, <1>18 DEF Next, AwsNext, AwsStep,
              GcpNext, AzureNext, AzureStep

(* The invariant of the databases and of the task's look at them.          *)
Tracked ==
  /\ RoutesTracked /\ ResultTracked /\ OthersTracked
  /\ ProviderTracked /\ LookTracked /\ PlanTracked /\ WaitTracked
  /\ PlansTracked /\ CalmTracked /\ RestartTracked

LEMMA TrackedInit == Init => Tracked
<1> SUFFICES ASSUME Init PROVE Tracked
  OBVIOUS
<1>1. /\ kind \in [Params -> Kinds]
      /\ \A p \in Params : kind[p].homes = {} => kind[p].stored = "unset"
  BY KindsAssumption DEF Init
<1>2. RoutesTracked
  BY DEF Init, RoutesTracked, ChangesItsOwnGroups, Scopes
<1>3. ResultTracked
  BY DEF Init, ResultTracked, Nothing, NoOperation, Scopes
<1>4. OthersTracked
  BY <1>1 DEF Init, OthersTracked, Untouched, Recommended, Known, Nothing,
              NoOperation, Scopes, Kinds
<1>5. ProviderTracked
  <2>1. ASSUME NEW p \in Known, status[Home(p)] = "in-sync"
        PROVE  shown[p] \in {"unset", running[p]}
    <3>1. Home(p) \in Scopes /\ ~Waits(p)
      BY <2>1 DEF Init, Home, Scopes
    <3>2. QED BY <3>1 DEF Init, Waits
  <2>2. ASSUME NEW p \in Params, kind[p].apply = "dynamic", provider = "azure/mysql"
        PROVE  ~Waits(p)
    BY <1>1, <2>2 DEF Init, Waits, Known
  <2>3. op.state # "running"
    BY DEF Init, NoOperation
  <2>4. QED BY <2>1, <2>2, <2>3 DEF ProviderTracked
<1>6. LookTracked /\ PlanTracked /\ WaitTracked /\ PlansTracked /\ CalmTracked
  BY DEF Init, LookTracked, PlanTracked, WaitTracked, PlansTracked, CalmTracked, Modifies
<1>7. RestartTracked
  BY DEF Init, RestartTracked
<1>8. QED BY <1>2, <1>3, <1>4, <1>5, <1>6, <1>7 DEF Tracked

LEMMA TrackedStep == TypeOK /\ Tracked /\ [Next]_vars => Tracked'
<1> SUFFICES ASSUME TypeOK, Tracked, [Next]_vars PROVE Tracked'
  OBVIOUS
<1>1. RoutesTracked' /\ ResultTracked' /\ OthersTracked'
  BY RoutesStep, ResultTrackedStep, OthersTrackedStep DEF Tracked
<1>2. ProviderTracked' /\ LookTracked' /\ PlanTracked' /\ WaitTracked'
  BY ProviderTrackedStep, LookTrackedStep, PlanTrackedStep, WaitTrackedStep DEF Tracked
<1>3. PlansTracked' /\ CalmTracked' /\ RestartTracked'
  BY PlansTrackedStep, CalmTrackedStep, RestartTrackedStep DEF Tracked
<1>4. QED BY <1>1, <1>2, <1>3 DEF Tracked

(* A task in dynamic mode (task type 4, src/tasks/tasks.go:107) that found *)
(* nothing in flight has only dynamic parameters accepted, does not        *)
(* restart the database and does not end with code 10, which asks for one. *)
THEOREM DynamicIsQuiet == Spec => []DynamicNeedsNoRestart
<1>1. Init => Tracked
  BY TrackedInit
<1>2. TypeOK /\ Tracked /\ [Next]_vars => Tracked'
  BY TrackedStep
<1>3. Tracked => DynamicNeedsNoRestart
  BY DEF Tracked, PlansTracked, RestartTracked, DynamicNeedsNoRestart
<1>4. QED BY <1>1, <1>2, <1>3, CloudTypes, PTL DEF Spec

-----------------------------------------------------------------------------
(* The recommended value of a parameter is in use, and stays so.           *)
Landed(p) ==
  /\ stored[p] = "new" /\ shown[p] = "new" /\ running[p] = "new"
  /\ op.state = "running" => op.flags[p] = "new"

(* How far a task has come with a parameter it has to bring into use.      *)
AwsProgress(p) ==
  /\ Modifies => p \in plan[Home(p)] \/ Landed(p)
  /\ pc \in {"poll", "describe", "sleep"} =>
       /\ error = "none" => \A s \in Scopes : plan[s] \subseteq applied[s]
       /\ \A s \in Scopes : ready[s] /\ p \in applied[s] =>
            shown[p] = "new" /\ (restart \/ running[p] = "new")
GcpProgress(p) ==
  /\ pc \in {"filter", "patch"} => p \in plan["instance"]
  /\ pc = "filter" => mode = "dynamic"
  /\ pc = "wait" =>
       /\ op.kind = "patch"
       /\ op.state = "running" => op.flags[p] = "new"
       /\ op.state = "done" => Landed(p)
AzureProgress(p) ==
  /\ pc = "update" => \/ p \in plan["instance"] /\ (restart \/ kind[p].apply = "dynamic")
                      \/ stored[p] = "new" /\ (restart \/ running[p] = "new")
  /\ pc = "waitUpdate" =>
       /\ op.kind = "update"
       /\ op.state = "running" =>
            /\ op.flags[p] = "new"
            /\ restart \/ kind[p].apply = "dynamic" \/ running[p] = "new"
       /\ op.state = "done" => stored[p] = "new" /\ (restart \/ running[p] = "new")
  /\ pc = "restart" => stored[p] = "new"
  /\ pc = "waitRestart" =>
       /\ op.kind = "restart"
       /\ op.state = "running" => op.flags[p] = "new"
       /\ op.state = "done" => Landed(p)
EffectTracked ==
  quiet => \A p \in Params : Due(p) =>
    /\ provider = "aws/rds" => AwsProgress(p)
    /\ provider = "gcp/cloudsql" => GcpProgress(p)
    /\ provider = "azure/mysql" => AzureProgress(p)
    /\ pc = "idle" /\ code = 0 => Landed(p)

LEMMA DueSame ==
  ASSUME NEW p, UNCHANGED fixed, UNCHANGED <<mode, current>>
  PROVE  Due(p)' <=> Due(p)
BY DEF Due, fixed, Known, Home

LEMMA LandedStays ==
  ASSUME TypeOK, NEW p \in Params, p \in Recommended, Landed(p), Provider
  PROVE  Landed(p)'
<1>1. /\ stored \in [Params -> Values] /\ shown \in [Params -> Values]
      /\ running \in [Params -> Values] /\ op.flags \in [Params -> Values]
      /\ op \in [kind : {"none", "patch", "update", "restart"},
                 state : {"running", "done", "failed"}, flags : [Params -> Values]]
  BY DEF TypeOK
<1>2. CASE Reboot
  BY <1>1, <1>2 DEF Reboot, InUse, Landed
<1>3. ASSUME NEW s \in Scopes, Propagate(s) PROVE Landed(p)'
  BY <1>1, <1>3 DEF Propagate, Landed
<1>4. ASSUME NEW s \in Scopes, Settle(s) PROVE Landed(p)'
  BY <1>1, <1>4 DEF Settle, InUse, Landed
<1>5. CASE OperationEnds
  <2>1. /\ stored' \in {stored, op.flags} /\ shown' = stored' /\ op'.state # "running"
        /\ op.flags[p] = "new"
    BY <1>1, <1>5 DEF OperationEnds, Landed
  <2>2. stored'[p] = "new"
    BY <2>1 DEF Landed
  <2>3. running'[p] = "new"
    BY <1>1, <1>5, <2>1, <2>2 DEF OperationEnds, InUse, Landed
  <2>4. QED BY <2>1, <2>2, <2>3 DEF Landed
<1>6. CASE OperatorEdits
  BY <1>1, <1>6 DEF OperatorEdits, Landed
<1>7. QED BY <1>2, <1>3, <1>4, <1>5, <1>6, <1>1 DEF Provider

(* What the plan does not change of what is due is in use already.         *)
LEMMA PlannedOrLanded ==
  ASSUME TypeOK, NEW list \in [Scopes -> [Params -> Values \cup {Absent}]],
         NEW p \in Params, Due(p), provider = "aws/rds", op.state # "running",
         list[Home(p)][p] = shown[p], shown = stored,
         Route(list, p) = Home(p),
         shown[p] \in {"unset", running[p]}
  PROVE  p \in BuildApplyPlan(list)[Home(p)] \/ Landed(p)
<1>1. CASE Unchanged(list, Home(p), p)
  BY <1>1 DEF Unchanged, Due, Landed
<1>2. CASE ~Unchanged(list, Home(p), p)
  <2>1. TopologyAllows(Home(p)) /\ Normalizes(p) /\ p \in Recommended /\ Home(p) \in Scopes
    BY DEF Due, TopologyAllows, IsAurora, Normalizes, Recommended, Home, Scopes
  <2>2. kind[p].apply \in {"dynamic", "static", "other"} /\ mode \in {"dynamic", "full"}
    BY DEF TypeOK, Kinds
  <2>3. Appliable(p) /\ kind[p].writable
    BY <2>2 DEF Appliable, Due
  <2>4. QED BY <1>2, <2>1, <2>3 DEF BuildApplyPlan, BuildScopeParameter
<1>3. QED BY <1>1, <1>2

LEMMA AwsEffect ==
  ASSUME TypeOK, Tracked, EffectTracked, AwsNext, NEW p \in Params, quiet', Due(p)'
  PROVE  AwsProgress(p)' /\ (pc' = "idle" /\ code' = 0 => Landed(p)')
<1> DEFINE Goal == AwsProgress(p)' /\ (pc' = "idle" /\ code' = 0 => Landed(p)')
<1> SUFFICES Goal
  OBVIOUS
<1>1. /\ stored \in [Params -> Values] /\ shown \in [Params -> Values]
      /\ listed \in [Scopes -> [Params -> Values \cup {Absent}]]
      /\ plan \in [Scopes -> SUBSET Params] /\ applied \in [Scopes -> SUBSET Params]
      /\ ready \in [Scopes -> BOOLEAN] /\ scope \in Scopes /\ restart \in BOOLEAN
      /\ Home(p) \in Scopes
  BY DEF TypeOK, Home, Scopes
<1>2. provider = "aws/rds" /\ op.state # "running" /\ UNCHANGED op /\ UNCHANGED fixed
  <2>1. provider = "aws/rds" /\ UNCHANGED op /\ UNCHANGED fixed
    BY DEF AwsNext, AwsStep, AwsBegin, Begin, AwsDiscover, AwsListInstance,
       AwsListCluster, AwsModify, AwsModified, AwsObserve, AwsDescribe, AwsSleep, Deadline
  <2>2. QED BY <2>1 DEF Tracked, ResultTracked
<1>d. ASSUME UNCHANGED <<mode, current, quiet>> PROVE Due(p) /\ AwsProgress(p)
  <2>1. Due(p) /\ quiet
    BY <1>2, <1>d, DueSame
  <2>2. QED BY <1>2, <2>1 DEF EffectTracked
<1>n. ASSUME pc' \notin {"modify", "poll", "describe", "sleep"}, pc' = "idle" => code' # 0
      PROVE  Goal
  BY <1>n DEF AwsProgress, Modifies
<1>3. CASE AwsBegin
  BY <1>n, <1>3 DEF AwsBegin, Begin, Finish, Working
<1>4. CASE AwsDiscover
  BY <1>n, <1>4 DEF AwsDiscover, Fails, Finish, CallErrors, ExitCode
<1>l. ASSUME pc \in {"listInstance", "listCluster"}, UNCHANGED <<values, mode, current, quiet>>,
             NEW list \in [Scopes -> [Params -> Values \cup {Absent}]],
             plan' = BuildApplyPlan(list), pc' = "modify",
             topology.aurora => clusterStatus = "in-sync",
             "instance" \in kind[p].homes =>
               list["instance"][p] = shown[p] /\ shown[p] # Absent,
             "instance" \notin kind[p].homes =>
               list["instance"][p] = Absent /\ list["cluster"][p] = shown[p]
      PROVE  Goal
  <2>1. Due(p) /\ quiet
    BY <1>d, <1>l
  <2>2. /\ shown = stored /\ status["instance"] = "in-sync"
        /\ topology.aurora => status["cluster"] = "in-sync"
    BY <1>2, <1>l, <2>1 DEF Tracked, LookTracked
  <2>3. p \in Known /\ (Home(p) = "cluster" => topology.aurora)
    BY <1>2, <2>1 DEF Due
  <2>4. status[Home(p)] = "in-sync"
    BY <2>2, <2>3 DEF Home
  <2>5. shown[p] \in {"unset", running[p]}
    BY <1>2, <2>3, <2>4 DEF Tracked, ProviderTracked
  <2>6. Route(list, p) = Home(p) /\ list[Home(p)][p] = shown[p]
    BY <1>1, <1>l, <2>3 DEF Route, Home, Known, Values, Absent
  <2>7. p \in plan'[Home(p)] \/ Landed(p)
    BY <1>2, <1>l, <2>1, <2>2, <2>5, <2>6, PlannedOrLanded
  <2>8. Home(p)' = Home(p) /\ (Landed(p) => Landed(p)')
    BY <1>2, <1>l DEF Home, Landed, fixed, values
  <2>9. QED BY <1>l, <2>7, <2>8 DEF AwsProgress, Modifies
<1>5. CASE AwsListInstance
  <2> DEFINE full == [listed EXCEPT !["instance"] = ListParameters("instance")]
  <2>1. /\ pc = "listInstance" /\ UNCHANGED <<values, mode, current, quiet>>
        /\ pc' \in {"idle", "listCluster", "modify"}
        /\ pc' = "idle" => code' # 0
        /\ pc' = "modify" => /\ plan' = BuildApplyPlan(full)
                             /\ IsAurora => InSync(clusterStatus)
                             /\ ~ClassificationNeeded(full["instance"])
    <3>1. pc = "listInstance" /\ UNCHANGED <<values, mode, current, quiet>>
      BY <1>5 DEF AwsListInstance, input, history
    <3>2. \A e : ExitCode(e) \in {6, 8, 9}
      BY DEF ExitCode
    <3>3. pc' \in {"idle", "listCluster", "modify"} /\ (pc' = "idle" => code' # 0)
      BY <1>5, <3>2 DEF AwsListInstance, Fails, Finish
    <3>4. pc' = "modify" =>
             /\ plan' = BuildApplyPlan(full)
             /\ IsAurora => InSync(clusterStatus)
             /\ ~ClassificationNeeded(full["instance"])
      BY <1>5 DEF AwsListInstance, Fails, Finish
    <3> HIDE DEF full
    <3>5. QED BY <3>1, <3>3, <3>4
  <2>2. full \in [Scopes -> [Params -> Values \cup {Absent}]]
        /\ full["instance"] = ListParameters("instance")
    BY <1>1 DEF ListParameters, Scopes
  <2>3. CASE pc' = "modify"
    <3>1. Due(p) /\ p \in Recommended
      BY <1>d, <2>1 DEF Due, Recommended
    <3>2. topology.aurora => clusterStatus = "in-sync"
      BY <2>1, <2>3 DEF IsAurora, InSync
    <3>3. "instance" \in kind[p].homes => full["instance"][p] = shown[p]
      BY <2>2 DEF ListParameters
    <3>4. shown[p] # Absent
      BY <1>1 DEF Values, Absent
    <3>5. "instance" \in kind[p].homes
      <4>1. SUFFICES ASSUME "instance" \notin kind[p].homes PROVE FALSE
        OBVIOUS
      <4>2. Home(p) = "cluster" /\ full["instance"][p] = Absent
        BY <4>1, <2>2 DEF Home, ListParameters
      <4>3. topology.aurora
        BY <1>2, <3>1, <4>2 DEF Due
      <4>4. QED BY <2>1, <2>3, <3>1, <4>2, <4>3 DEF ClassificationNeeded, IsAurora
    <3> HIDE DEF full, Goal
    <3>6. QED BY <1>l, <2>1, <2>2, <2>3, <3>2, <3>3, <3>4, <3>5
  <2>4. CASE pc' # "modify"
    BY <1>n, <2>1, <2>4
  <2>5. QED BY <2>3, <2>4
<1>6. CASE AwsListCluster
  <2> DEFINE full == [listed EXCEPT !["cluster"] = ListParameters("cluster")]
  <2>1. /\ pc = "listCluster" /\ UNCHANGED <<values, mode, current, quiet>>
        /\ pc' \in {"idle", "modify"}
        /\ pc' = "idle" => code' # 0
        /\ pc' = "modify" => plan' = BuildApplyPlan(full)
    <3>1. pc = "listCluster" /\ UNCHANGED <<values, mode, current, quiet>>
      BY <1>6 DEF AwsListCluster, input, history
    <3>2. \A e : ExitCode(e) \in {6, 8, 9}
      BY DEF ExitCode
    <3>3. pc' \in {"idle", "modify"} /\ (pc' = "idle" => code' # 0)
      BY <1>6, <3>2 DEF AwsListCluster, Fails, Finish
    <3>4. pc' = "modify" => plan' = BuildApplyPlan(full)
      BY <1>6 DEF AwsListCluster, Fails, Finish
    <3>5. QED BY <3>1, <3>3, <3>4
  <2>2. /\ full \in [Scopes -> [Params -> Values \cup {Absent}]]
        /\ full["instance"] = listed["instance"] /\ full["cluster"] = ListParameters("cluster")
    BY <1>1 DEF ListParameters, Scopes
  <2>3. CASE pc' = "modify"
    <3>1. Due(p) /\ quiet
      BY <1>d, <2>1
    <3>2. /\ clusterStatus = "in-sync"
          /\ "instance" \in kind[p].homes => listed["instance"][p] = shown[p]
      BY <1>2, <2>1, <3>1 DEF Tracked, LookTracked
    <3>3. shown[p] # Absent
      BY <1>1 DEF Values, Absent
    <3>4. "instance" \notin kind[p].homes => listed["instance"][p] = Absent
      BY <1>2, <2>1 DEF Tracked, PlanTracked
    <3>5. "instance" \notin kind[p].homes => ListParameters("cluster")[p] = shown[p]
      <4>1. kind[p].homes \subseteq Scopes /\ p \in Known
        BY <3>1 DEF TypeOK, Kinds, Due
      <4>2. "instance" \notin kind[p].homes => "cluster" \in kind[p].homes
        BY <4>1 DEF Known, Scopes
      <4>3. QED BY <4>2 DEF ListParameters
    <3> HIDE DEF full, Goal
    <3>6. QED BY <1>l, <2>1, <2>2, <2>3, <3>2, <3>3, <3>4, <3>5
  <2>4. CASE pc' # "modify"
    BY <1>n, <2>1, <2>4
  <2>5. QED BY <2>3, <2>4
<1>w. ASSUME Modifies, UNCHANGED <<mode, current, quiet>>, UNCHANGED <<shown, running, plan>>,
             \A q \in Params : stored[q] = "new" => stored'[q] = "new"
      PROVE  /\ Home(p)' = Home(p)
             /\ p \in plan'[Home(p)'] \/ Landed(p)'
  BY <1>2, <1>d, <1>w DEF AwsProgress, Landed, Home, fixed
<1>7. CASE AwsModify
  <2>1. /\ pc = "modify" /\ UNCHANGED <<mode, current, quiet>> /\ UNCHANGED <<shown, running, plan>>
        /\ pc' \in {"modify", "poll", "idle"}
        /\ pc' = "idle" => code' # 0
        /\ pc' = "poll" => /\ error' # "none" /\ UNCHANGED applied
                           /\ ready' = [s \in Scopes |-> applied[s] = {}]
        /\ \A q \in Params : stored[q] = "new" => stored'[q] = "new"
    <3>1. /\ pc = "modify" /\ UNCHANGED <<mode, current, quiet>>
          /\ UNCHANGED <<shown, running, plan>>
      BY <1>7 DEF AwsModify, input
    <3>2. \A q \in Params : stored[q] = "new" => stored'[q] = "new"
      BY <1>1, <1>7 DEF AwsModify, Accept
    <3>3. \A e : ExitCode(e) # 0
      BY DEF ExitCode
    <3>4. CASE pc' = pc
      BY <3>1, <3>2, <3>4
    <3>5. CASE \E e \in {"denied", "failure"} :
                 error' = e /\ StartWait(applied, e) /\ UNCHANGED applied
      BY <3>1, <3>2, <3>3, <3>5 DEF StartWait, Finish
    <3>6. QED BY <1>7, <3>4, <3>5 DEF AwsModify
  <2>2. p \in plan'[Home(p)'] \/ Landed(p)'
    BY <1>w, <2>1 DEF Modifies
  <2>3. pc' = "poll" => \A s \in Scopes : ~(ready'[s] /\ p \in applied'[s])
    BY <2>1
  <2>4. QED BY <2>1, <2>2, <2>3 DEF AwsProgress
<1>8. CASE AwsModified
  <2>1. /\ pc = "modify" /\ UNCHANGED <<mode, current, quiet>>
        /\ UNCHANGED <<shown, running, plan, stored, applied>>
        /\ \A s \in Scopes : plan[s] \subseteq applied[s]
        /\ \/ /\ pc' = "idle" /\ \A s \in Scopes : applied[s] = {}
           \/ pc' = "poll" /\ ready' = [s \in Scopes |-> applied[s] = {}]
    BY <1>1, <1>8 DEF AwsModified, StartWait, Modified, Finish, Left, input, history, values, result
  <2>2. /\ Home(p)' = Home(p)
        /\ p \in plan'[Home(p)'] \/ Landed(p)'
    BY <1>w, <2>1 DEF Modifies
  <2>3. pc' = "poll" => \A s \in Scopes : ~(ready'[s] /\ p \in applied'[s])
    BY <2>1
  <2>4. pc' = "idle" => Landed(p)'
    BY <1>1, <2>1, <2>2
  <2>5. QED BY <2>1, <2>2, <2>3, <2>4 DEF AwsProgress
<1> DEFINE Seen(r, b) == \A s \in Scopes : r[s] /\ p \in applied[s] =>
                            shown[p] = "new" /\ (b \/ running[p] = "new")
<1>g. ASSUME Modifies, UNCHANGED <<mode, current, quiet>>,
             UNCHANGED <<shown, running, plan, stored, applied, error>>,
             pc \in {"poll", "describe"},
             NEW r \in [Scopes -> BOOLEAN], NEW b \in BOOLEAN, Goes(r, b), Seen(r, b)
      PROVE  Goal
  <2>1. Due(p) /\ AwsProgress(p)
    BY <1>d, <1>g
  <2>2. /\ Home(p)' = Home(p)
        /\ p \in plan'[Home(p)'] \/ Landed(p)'
    BY <1>w, <1>g
  <2>3. error = "none" => \A s \in Scopes : plan[s] \subseteq applied[s]
    BY <1>g, <2>1 DEF AwsProgress
  <2>4. /\ pc' \in {"poll", "sleep", "idle"} /\ ready' = r /\ restart' = b
        /\ pc' = "idle" => /\ r["cluster"] /\ r["instance"]
                           /\ code' = 0 => error = "none" /\ ~b
    BY <1>g DEF Goes, Finish, ExitCode
  <2>5. ASSUME pc' = "idle", code' = 0, p \in plan[Home(p)] PROVE Landed(p)'
    <3>1. p \in applied[Home(p)]
      BY <1>1, <2>3, <2>4, <2>5
    <3>2. shown[p] = "new" /\ running[p] = "new"
      BY <1>g, <2>4, <2>5, <3>1 DEF Home, Scopes
    <3>3. stored[p] = "new"
      BY <1>1, <1>2, <1>g, <3>1 DEF Tracked, PlanTracked
    <3>4. QED BY <1>2, <1>g, <3>2, <3>3 DEF Landed
  <2>6. pc' = "idle" /\ code' = 0 => Landed(p)'
    BY <1>g, <2>2, <2>5
  <2>7. QED BY <1>g, <2>2, <2>3, <2>4, <2>6 DEF AwsProgress
<1>f. ASSUME NEW e \in Errors \ {"none"}, WaitFails(e) PROVE Goal
  BY <1>n, <1>f DEF WaitFails, Finish, ExitCode, Errors
<1>9. CASE AwsObserve
  <2>1. /\ pc = "poll" /\ UNCHANGED <<mode, current, quiet>>
        /\ UNCHANGED <<shown, running, plan, stored, applied>>
    BY <1>9 DEF AwsObserve, input, history, values
  <2>2. Seen(ready, restart)
    BY <1>d, <2>1 DEF AwsProgress
  <2>3. ASSUME Goes(ready, restart), UNCHANGED error PROVE Goal
    BY <1>1, <1>g, <2>1, <2>2, <2>3 DEF Modifies
  <2>4. ASSUME pc' = "describe", UNCHANGED <<error, ready, restart>> PROVE Goal
    <3>1. p \in plan'[Home(p)'] \/ Landed(p)'
      BY <1>w, <2>1 DEF Modifies
    <3>2. AwsProgress(p)
      BY <1>d, <2>1
    <3>3. QED BY <2>1, <2>4, <3>1, <3>2 DEF AwsProgress
  <2>5. ASSUME NEW e \in CallErrors, WaitFails(e) PROVE Goal
    BY <1>f, <2>5 DEF CallErrors, Errors
  <2>6. QED BY <1>9, <2>3, <2>4, <2>5 DEF AwsObserve
<1>10. CASE AwsDescribe
  <2>1. /\ pc = "describe" /\ UNCHANGED <<mode, current, quiet>>
        /\ UNCHANGED <<shown, running, plan, stored, applied>>
    BY <1>10 DEF AwsDescribe, input, history, values
  <2>2. Seen(ready, restart)
    BY <1>d, <2>1 DEF AwsProgress
  <2>3. ASSUME Goes(ready, restart), UNCHANGED error PROVE Goal
    BY <1>1, <1>g, <2>1, <2>2, <2>3 DEF Modifies
  <2>4. ASSUME Goes([ready EXCEPT ![scope] = TRUE], restart \/ status[scope] = "pending-reboot"),
               UNCHANGED error, status[scope] \in {"in-sync", "pending-reboot"}
        PROVE  Goal
    <3> DEFINE r == [ready EXCEPT ![scope] = TRUE]
               b == restart \/ status[scope] = "pending-reboot"
    <3>1. r \in [Scopes -> BOOLEAN] /\ b \in BOOLEAN
      BY <1>1
    <3>2. ASSUME p \in applied[scope] PROVE shown[p] = "new" /\ (b \/ running[p] = "new")
      <4>1. shown[p] = "new"
        BY <1>2, <2>1, <3>2 DEF Tracked, ResultTracked, Shown
      <4>2. p \in Known /\ Home(p) = scope
        BY <1>1, <1>2, <2>1, <3>2 DEF Tracked, PlanTracked, Modifies
      <4>3. status[scope] = "in-sync" => running[p] = "new"
        BY <1>2, <4>1, <4>2 DEF Tracked, ProviderTracked
      <4>4. QED BY <2>4, <4>1, <4>3
    <3>3. Seen(r, b)
      BY <1>1, <2>2, <3>2
    <3> HIDE DEF r, b, Seen, Goal
    <3>4. QED BY <1>g, <2>1, <2>4, <3>1, <3>3 DEF Modifies, r, b
  <2>5. ASSUME NEW e \in CallErrors \cup {"failure"}, WaitFails(e) PROVE Goal
    BY <1>f, <2>5 DEF CallErrors, Errors
  <2>6. QED BY <1>10, <2>3, <2>4, <2>5 DEF AwsDescribe
<1>11. CASE AwsSleep
  <2>1. /\ pc = "sleep" /\ UNCHANGED <<mode, current, quiet>>
        /\ UNCHANGED <<shown, running, plan, stored, applied>>
    BY <1>11 DEF AwsSleep, input, history, values
  <2>2. ASSUME pc' = "poll", UNCHANGED <<error, ready, restart>> PROVE Goal
    <3>1. p \in plan'[Home(p)'] \/ Landed(p)'
      BY <1>w, <2>1 DEF Modifies
    <3>2. AwsProgress(p)
      BY <1>d, <2>1
    <3>3. QED BY <2>1, <2>2, <3>1, <3>2 DEF AwsProgress
  <2>3. ASSUME WaitFails("timeout") PROVE Goal
    BY <1>f, <2>3 DEF Errors
  <2>4. QED BY <1>11, <2>2, <2>3 DEF AwsSleep
<1>12. CASE Deadline
  <2>1. /\ pc \in {"poll", "describe", "sleep"} /\ UNCHANGED <<mode, current, quiet>>
        /\ UNCHANGED <<shown, running, plan, stored, applied>>
        /\ UNCHANGED <<pc, error, ready, restart>>
    BY <1>12 DEF Deadline, input, history, values, result
  <2>2. p \in plan'[Home(p)'] \/ Landed(p)'
    BY <1>w, <2>1 DEF Modifies
  <2>3. AwsProgress(p)
    BY <1>d, <2>1
  <2>4. QED BY <2>1, <2>2, <2>3 DEF AwsProgress
<1>13. QED BY <1>3, <1>4, <1>5, <1>6, <1>7, <1>8, <1>9, <1>10, <1>11, <1>12
           DEF AwsNext, AwsStep

LEMMA GcpEffect ==
  ASSUME TypeOK, Tracked, EffectTracked, GcpNext, NEW p \in Params, quiet', Due(p)'
  PROVE  GcpProgress(p)' /\ (pc' = "idle" /\ code' = 0 => Landed(p)')
<1> DEFINE Goal == GcpProgress(p)' /\ (pc' = "idle" /\ code' = 0 => Landed(p)')
<1> SUFFICES Goal
  OBVIOUS
<1>1. plan \in [Scopes -> SUBSET Params] /\ mode \in {"dynamic", "full"}
  BY DEF TypeOK
<1>2. provider = "gcp/cloudsql" /\ UNCHANGED fixed
  BY DEF GcpNext, GcpStep, GcpBegin, Begin, GcpGet, GcpFilter, GcpPatch, GcpWait
<1>d. ASSUME UNCHANGED <<mode, current, quiet>> PROVE Due(p) /\ GcpProgress(p)
  <2>1. Due(p) /\ quiet
    BY <1>2, <1>d, DueSame
  <2>2. QED BY <1>2, <2>1 DEF EffectTracked
<1>n. ASSUME pc' \notin {"filter", "patch", "wait"}, pc' = "idle" => code' # 0
      PROVE  Goal
  BY <1>n DEF GcpProgress
<1>3. CASE GcpBegin
  BY <1>n, <1>3 DEF GcpBegin, Begin, Finish, Working
<1>4. CASE GcpGet
  <2>1. /\ UNCHANGED <<mode, current, quiet>>
        /\ \/ pc' = "idle" /\ code' = 1
           \/ /\ plan' = [plan EXCEPT !["instance"] = Recommended]
              /\ pc' = IF mode = "dynamic" THEN "filter" ELSE "patch"
    BY <1>4 DEF GcpGet, Finish, input, history
  <2>2. p \in Recommended
    BY <1>d, <2>1 DEF Due, Recommended
  <2>3. QED BY <1>1, <1>n, <2>1, <2>2 DEF GcpProgress, Scopes
<1>5. CASE GcpFilter
  <2>1. /\ pc = "filter" /\ UNCHANGED <<mode, current, quiet>>
        /\ \/ pc' = "idle" /\ code' = 8
           \/ /\ plan' = [plan EXCEPT !["instance"] =
                            {q \in plan["instance"] : kind[q].apply = "dynamic"}]
              /\ pc' = "patch"
    BY <1>5 DEF GcpFilter, Finish, input, history
  <2>2. p \in plan["instance"] /\ kind[p].apply = "dynamic"
    BY <1>d, <2>1 DEF GcpProgress, Due
  <2>3. QED BY <1>1, <1>n, <2>1, <2>2 DEF GcpProgress, Scopes
<1>6. CASE GcpPatch
  <2>1. /\ pc = "patch" /\ UNCHANGED <<mode, current, quiet>>
        /\ \/ pc' = "idle" /\ code' \in {Panicked, 8, 9}
           \/ pc' = "wait" /\ Patched(Updates)
    BY <1>6 DEF GcpPatch, Finish, input
  <2>2. p \in plan["instance"] /\ current[p] # "new"
    BY <1>d, <2>1 DEF GcpProgress, Due
  <2>3. MergedFlags(Updates)[p] = "new"
    BY <2>2 DEF MergedFlags, Updates
  <2>4. pc' = "wait" => op'.kind = "patch" /\ op'.state = "running" /\ op'.flags[p] = "new"
    BY <2>1, <2>3 DEF Patched
  <2>5. QED BY <1>n, <2>1, <2>4 DEF GcpProgress, Panicked
<1>7. CASE GcpWait
  <2>1. /\ pc = "wait" /\ UNCHANGED <<mode, current, quiet>> /\ UNCHANGED <<values, op>>
        /\ \/ pc' = "idle" /\ code' = 8
           \/ pc' = "idle" /\ op.state = "done"
    BY <1>7 DEF GcpWait, Finish, input, history
  <2>2. op.state = "done" => Landed(p)
    BY <1>d, <2>1 DEF GcpProgress
  <2>3. Landed(p) => Landed(p)'
    BY <2>1 DEF Landed, values
  <2>4. QED BY <1>n, <2>1, <2>2, <2>3 DEF GcpProgress
<1>8. QED BY <1>3, <1>4, <1>5, <1>6, <1>7 DEF GcpNext, GcpStep

LEMMA AzureEffect ==
  ASSUME TypeOK, Tracked, EffectTracked, AzureNext, NEW p \in Params, quiet', Due(p)'
  PROVE  AzureProgress(p)' /\ (pc' = "idle" /\ code' = 0 => Landed(p)')
<1> DEFINE Goal == AzureProgress(p)' /\ (pc' = "idle" /\ code' = 0 => Landed(p)')
<1> SUFFICES Goal
  OBVIOUS
<1>1. /\ plan \in [Scopes -> SUBSET Params] /\ mode \in {"dynamic", "full"}
      /\ restart \in BOOLEAN /\ stored \in [Params -> Values]
  BY DEF TypeOK
<1>2. provider = "azure/mysql" /\ UNCHANGED fixed
  BY DEF AzureNext, AzureStep, AzureBegin, Begin, AzureServer, AzureList,
     AzureUpdate, AzureWaitUpdate, AzureRestart, AzureWaitRestart
<1>3. /\ shown = stored
      /\ kind[p].apply = "dynamic" => ~Waits(p)
      /\ op.state = "running" => op.flags[p] \in {"new", stored[p]}
  BY <1>2 DEF Tracked, OthersTracked, ProviderTracked
<1>d. ASSUME UNCHANGED <<mode, current, quiet>> PROVE Due(p) /\ AzureProgress(p)
  <2>1. Due(p) /\ quiet
    BY <1>2, <1>d, DueSame
  <2>2. QED BY <1>2, <2>1 DEF EffectTracked
<1>n. ASSUME pc' \notin {"update", "waitUpdate", "restart", "waitRestart"},
             pc' = "idle" => code' # 0
      PROVE  Goal
  BY <1>n DEF AzureProgress
<1>4. CASE AzureBegin
  BY <1>n, <1>4 DEF AzureBegin, Begin, Finish, Working
<1>5. CASE AzureServer
  BY <1>n, <1>5 DEF AzureServer, Finish, AzureErrorCodes
<1>6. CASE AzureList
  <2> DEFINE updates == {q \in Considered : ~HasValue(q)}
             pending == \/ \E q \in updates : kind[q].apply # "dynamic"
                        \/ \E q \in Considered : HasValue(q) /\ PendingRestart(q)
  <2>1. UNCHANGED <<mode, current, quiet>> /\ UNCHANGED values
    BY <1>6 DEF AzureList, input, history
  <2>2. \/ pc' = "idle" /\ code' \in {8, 9}
        \/ /\ pc' = "update" /\ plan' = [plan EXCEPT !["instance"] = updates]
           /\ pending => restart'
    BY <1>6 DEF AzureList, Finish, AzureErrorCodes
  <2>3. Due(p)
    BY <1>d, <2>1
  <2>4. p \in Considered
    BY <2>3 DEF Due, Considered, Recommended, Differs, EligibleForApplyMode
  <2>5. CASE p \in updates
    <3>1. pending \/ kind[p].apply = "dynamic"
      BY <2>5
    <3> HIDE DEF updates, pending
    <3>2. QED BY <1>1, <1>2, <1>n, <2>2, <2>5, <3>1 DEF AzureProgress, Scopes, fixed
  <2>6. CASE p \notin updates
    <3>1. HasValue(p) /\ stored[p] = "new"
      BY <1>3, <2>4, <2>6 DEF HasValue
    <3>2. pending \/ running[p] = "new"
      BY <1>3, <2>4, <3>1 DEF PendingRestart, Waits
    <3> HIDE DEF updates, pending
    <3>3. QED BY <1>n, <2>1, <2>2, <3>1, <3>2 DEF AzureProgress, values
  <2>7. QED BY <2>5, <2>6
(* The end of the update, when all the values are stored.                  *)
<1>c. ASSUME UNCHANGED values, UNCHANGED restart, Concludes, stored[p] = "new",
             restart \/ running[p] = "new", UNCHANGED op
      PROVE  Goal
  <2>1. \/ pc' = "restart"
        \/ pc' = "idle" /\ code' = 10
        \/ pc' = "idle" /\ code' = 0 /\ ~restart
    BY <1>1, <1>c DEF Concludes, Finish
  <2>2. op.state = "running" => op.flags[p] = "new"
    BY <1>3, <1>c
  <2>3. QED BY <1>3, <1>c, <2>1, <2>2 DEF AzureProgress, Landed, values
<1>7. CASE AzureUpdate
  <2> DEFINE sent == [q \in Params |-> IF q \in plan["instance"] THEN "new" ELSE stored[q]]
  <2>1. /\ pc = "update" /\ UNCHANGED <<mode, current, quiet>>
        /\ UNCHANGED values /\ UNCHANGED restart
    BY <1>7 DEF AzureUpdate, input
  <2>2. \/ p \in plan["instance"] /\ (restart \/ kind[p].apply = "dynamic")
        \/ stored[p] = "new" /\ (restart \/ running[p] = "new")
    BY <1>d, <2>1 DEF AzureProgress
  <2>3. CASE plan["instance"] = {} /\ Concludes /\ UNCHANGED op
    BY <1>c, <2>1, <2>2, <2>3
  <2>4. ASSUME NEW c \in AzureErrorCodes, Finish(c) PROVE Goal
    BY <1>n, <2>4 DEF Finish, AzureErrorCodes
  <2>5. CASE /\ op' = [kind |-> "update", state |-> "running", flags |-> sent]
             /\ pc' = "waitUpdate"
    <3>1. sent[p] = "new"
      BY <2>2
    <3> HIDE DEF sent
    <3>2. op'.kind = "update" /\ op'.state = "running" /\ op'.flags[p] = "new"
      BY <2>5, <3>1
    <3>3. QED BY <1>2, <2>1, <2>2, <2>5, <3>2 DEF AzureProgress, values, fixed
  <2>6. CASE Finish(8)
    BY <1>n, <2>6 DEF Finish
  <2> HIDE DEF Goal
  <2>7. QED BY <1>7, <2>3, <2>4, <2>5, <2>6 DEF AzureUpdate
<1>8. CASE AzureWaitUpdate
  <2>1. /\ pc = "waitUpdate" /\ UNCHANGED <<mode, current, quiet>>
        /\ UNCHANGED values /\ UNCHANGED restart /\ UNCHANGED op
    BY <1>8 DEF AzureWaitUpdate, input, history
  <2>2. op.state = "done" => stored[p] = "new" /\ (restart \/ running[p] = "new")
    BY <1>d, <2>1 DEF AzureProgress
  <2>3. ASSUME NEW c \in AzureErrorCodes, Finish(c) PROVE Goal
    BY <1>n, <2>3 DEF Finish, AzureErrorCodes
  <2> HIDE DEF Goal
  <2>4. QED BY <1>8, <1>c, <2>1, <2>2, <2>3 DEF AzureWaitUpdate
<1>9. CASE AzureRestart
  <2>1. pc = "restart" /\ UNCHANGED <<mode, current, quiet>>
    BY <1>9 DEF AzureRestart, input, history
  <2>2. stored[p] = "new"
    BY <1>d, <2>1 DEF AzureProgress
  <2>3. \/ pc' = "idle" /\ code' \in {8, 9}
        \/ pc' = "waitRestart"
           /\ op' = [kind |-> "restart", state |-> "running", flags |-> stored]
    BY <1>9 DEF AzureRestart, Finish, AzureErrorCodes
  <2>4. QED BY <1>n, <2>2, <2>3 DEF AzureProgress
<1>10. CASE AzureWaitRestart
  <2>1. /\ pc = "waitRestart" /\ UNCHANGED <<mode, current, quiet>> /\ UNCHANGED <<values, op>>
        /\ \/ pc' = "idle" /\ code' \in {8, 9}
           \/ pc' = "idle" /\ op.state = "done"
    BY <1>10 DEF AzureWaitRestart, Finish, AzureErrorCodes, input, history
  <2>2. op.state = "done" => Landed(p)
    BY <1>d, <2>1 DEF AzureProgress
  <2>3. Landed(p) => Landed(p)'
    BY <2>1 DEF Landed, values
  <2>4. QED BY <1>n, <2>1, <2>2, <2>3 DEF AzureProgress
<1>11. QED BY <1>4, <1>5, <1>6, <1>7, <1>8, <1>9, <1>10 DEF AzureNext, AzureStep

LEMMA ProviderEffect ==
  ASSUME TypeOK, Tracked, EffectTracked, Provider, NEW p \in Params, quiet', Due(p)'
  PROVE  /\ provider = "aws/rds" => AwsProgress(p)'
         /\ provider = "gcp/cloudsql" => GcpProgress(p)'
         /\ provider = "azure/mysql" => AzureProgress(p)'
         /\ pc' = "idle" /\ code' = 0 => Landed(p)'
<1>1. UNCHANGED fixed /\ UNCHANGED <<pc, mode, current, plan, applied, error,
                                     ready, restart, code, quiet>>
  BY ProviderKeepsTask DEF input, result, waiting
<1>2. Due(p) /\ quiet /\ p \in Recommended
  <2>1. Due(p) /\ quiet
    BY <1>1, DueSame
  <2>2. QED BY <2>1 DEF Due, Recommended
<1>3. Landed(p) => Landed(p)'
  BY <1>2, LandedStays
<1>4. /\ stored \in [Params -> Values] /\ shown \in [Params -> Values]
      /\ running \in [Params -> Values] /\ restart \in BOOLEAN
      /\ op \in [kind : {"none", "patch", "update", "restart"},
                 state : {"running", "done", "failed"}, flags : [Params -> Values]]
  BY DEF TypeOK
<1>5. pc' = "idle" /\ code' = 0 => Landed(p)'
  BY <1>1, <1>2, <1>3 DEF EffectTracked
<1>6. ASSUME provider = "aws/rds" PROVE AwsProgress(p)'
  <2>1. AwsProgress(p) /\ Home(p)' = Home(p) /\ (Modifies' <=> Modifies) /\ op.state # "running"
    BY <1>1, <1>2, <1>6 DEF EffectTracked, Home, fixed, Modifies, Tracked, ResultTracked
  <2>2. ASSUME Modifies, NEW s \in Scopes, p \in applied[s], shown[p] = "new",
               restart \/ running[p] = "new"
        PROVE  shown'[p] = "new" /\ (restart \/ running'[p] = "new")
    <3>1. stored[p] = "new"
      BY <1>6, <2>2 DEF Tracked, PlanTracked
    <3>2. CASE Reboot
      BY <1>4, <2>2, <3>1, <3>2 DEF Reboot, InUse
    <3>3. ASSUME NEW t \in Scopes, Propagate(t)
          PROVE  shown'[p] = "new" /\ (restart \/ running'[p] = "new")
      BY <1>4, <2>2, <3>1, <3>3 DEF Propagate
    <3>4. ASSUME NEW t \in Scopes, Settle(t)
          PROVE  shown'[p] = "new" /\ (restart \/ running'[p] = "new")
      BY <1>4, <2>2, <3>4 DEF Settle, InUse
    <3>5. ~OperationEnds /\ ~OperatorEdits
      BY <1>6, <2>1 DEF OperationEnds, OperatorEdits
    <3>6. QED BY <3>2, <3>3, <3>4, <3>5 DEF Provider
  <2>3. Modifies => p \in plan'[Home(p)'] \/ Landed(p)'
    BY <1>1, <1>3, <2>1 DEF AwsProgress
  <2>4. ASSUME pc \in {"poll", "describe", "sleep"}
        PROVE  /\ error = "none" => \A s \in Scopes : plan[s] \subseteq applied[s]
               /\ \A s \in Scopes : ready[s] /\ p \in applied[s] =>
                    shown'[p] = "new" /\ (restart \/ running'[p] = "new")
    BY <2>1, <2>2, <2>4 DEF AwsProgress, Modifies
  <2>5. QED BY <1>1, <2>1, <2>3, <2>4 DEF AwsProgress
<1>7. ASSUME provider = "gcp/cloudsql" PROVE GcpProgress(p)'
  <2>1. GcpProgress(p)
    BY <1>2, <1>7 DEF EffectTracked
  <2>2. CASE OperationEnds
    <3>1. ASSUME pc = "wait"
          PROVE  /\ op'.kind = "patch" /\ op'.state # "running"
                 /\ op'.state = "done" => Landed(p)'
      <4>1. op.kind = "patch" /\ op.flags[p] = "new" /\ op.state = "running"
        BY <2>1, <2>2, <3>1 DEF GcpProgress, OperationEnds
      <4>2. CASE /\ op' = [op EXCEPT !.state = "done"] /\ stored' = op.flags
                 /\ running' = [q \in Params |->
                      IF \/ TRUE /\ op.kind \in {"patch", "restart"}
                         \/ kind[q].apply = "dynamic"
                      THEN InUse(stored')[q] ELSE running[q]]
        BY <1>4, <2>2, <4>1, <4>2 DEF OperationEnds, InUse, Landed
      <4>3. CASE op' = [op EXCEPT !.state = "failed"]
        BY <1>4, <4>1, <4>3
      <4>4. QED BY <2>2, <4>2, <4>3 DEF OperationEnds
    <3>2. QED BY <1>1, <2>1, <3>1 DEF GcpProgress
  <2>3. CASE ~OperationEnds
    <3>1. UNCHANGED op
      BY <2>3 DEF Provider, Reboot, Propagate, Settle, OperatorEdits
    <3>2. QED BY <1>1, <1>3, <2>1, <3>1 DEF GcpProgress
  <2>4. QED BY <2>2, <2>3
<1>8. ASSUME provider = "azure/mysql" PROVE AzureProgress(p)'
  <2>1. /\ AzureProgress(p) /\ shown = stored
        /\ op.state = "running" => op.flags[p] \in {"new", stored[p]}
    BY <1>2, <1>8 DEF EffectTracked, Tracked, OthersTracked, ProviderTracked
  <2>2. CASE OperationEnds
    <3>1. /\ op.state = "running" /\ stored' \in {stored, op.flags} /\ op'.kind = op.kind
          /\ op'.state \in {"done", "failed"}
      BY <1>4, <2>2 DEF OperationEnds
    <3>2. ASSUME op'.state = "done"
          PROVE  /\ stored' = op.flags
                 /\ op.kind = "restart" \/ kind[p].apply = "dynamic" =>
                      running'[p] = InUse(stored')[p]
      BY <1>4, <2>2, <3>2 DEF OperationEnds
    <3>3. running'[p] \in {running[p], InUse(stored')[p]}
      BY <1>4, <2>2 DEF OperationEnds
    <3>4. stored'[p] = "new" => InUse(stored')[p] = "new"
      BY DEF InUse
    <3>5. stored[p] = "new" => stored'[p] = "new"
      BY <2>1, <3>1
    <3>6. shown' = stored'
      BY <2>2 DEF OperationEnds
    <3>7. pc = "update" => AzureProgress(p)'
      BY <1>1, <2>1, <3>3, <3>4, <3>5 DEF AzureProgress, fixed
    <3>8. pc = "waitUpdate" => AzureProgress(p)'
      BY <1>1, <2>1, <3>1, <3>2, <3>3, <3>4 DEF AzureProgress, fixed
    <3>9. pc = "restart" => AzureProgress(p)'
      BY <1>1, <2>1, <3>5 DEF AzureProgress
    <3>10. pc = "waitRestart" => AzureProgress(p)'
      BY <1>1, <2>1, <3>1, <3>2, <3>4, <3>6 DEF AzureProgress, Landed
    <3>11. QED BY <1>1, <3>7, <3>8, <3>9, <3>10 DEF AzureProgress
  <2>3. CASE ~OperationEnds
    <3>1. UNCHANGED <<op, stored>>
      BY <1>8, <2>3 DEF Provider, Reboot, Propagate, Settle, OperatorEdits
    <3>2. stored[p] = "new" /\ running[p] = "new" => running'[p] = "new"
      <4>1. CASE Reboot
        BY <4>1 DEF Reboot, InUse
      <4>2. ASSUME NEW s \in Scopes, Settle(s)
            PROVE  stored[p] = "new" /\ running[p] = "new" => running'[p] = "new"
        BY <1>4, <2>1, <4>2 DEF Settle, InUse
      <4>3. ASSUME NEW s \in Scopes, Propagate(s) PROVE UNCHANGED running
        BY <4>3 DEF Propagate
      <4>4. QED BY <1>8, <2>3, <4>1, <4>2, <4>3 DEF Provider, OperatorEdits
    <3>3. op.state = "running" => kind[p].apply = "dynamic" \/ running'[p] = running[p]
      BY <1>4, <1>8, <2>3 DEF Provider, Reboot, Propagate, Settle, OperatorEdits
    <3>4. pc # "waitUpdate" => AzureProgress(p)'
      BY <1>1, <1>3, <2>1, <3>1, <3>2 DEF AzureProgress, fixed
    <3>5. pc = "waitUpdate" => AzureProgress(p)'
      BY <1>1, <2>1, <3>1, <3>2, <3>3 DEF AzureProgress, fixed
    <3>6. QED BY <3>4, <3>5
  <2>4. QED BY <2>2, <2>3
<1>9. QED BY <1>5, <1>6, <1>7, <1>8

LEMMA EffectTrackedStep == TypeOK /\ Tracked /\ EffectTracked /\ [Next]_vars => EffectTracked'
<1> SUFFICES ASSUME TypeOK, Tracked, EffectTracked, [Next]_vars,
                    quiet', NEW p \in Params, Due(p)'
             PROVE  /\ provider' = "aws/rds" => AwsProgress(p)'
                    /\ provider' = "gcp/cloudsql" => GcpProgress(p)'
                    /\ provider' = "azure/mysql" => AzureProgress(p)'
                    /\ pc' = "idle" /\ code' = 0 => Landed(p)'
  BY DEF EffectTracked
<1>1. UNCHANGED fixed
  BY DatabaseChanges
<1>2. CASE AwsNext
  <2>1. provider = "aws/rds"
    BY <1>2 DEF AwsNext, AwsStep, AwsBegin, AwsDiscover, AwsListInstance,
       AwsListCluster, AwsModify, AwsModified, AwsObserve, AwsDescribe, AwsSleep, Deadline
  <2>2. QED BY <1>1, <1>2, <2>1, AwsEffect DEF fixed
<1>3. CASE GcpNext
  <2>1. provider = "gcp/cloudsql"
    BY <1>3 DEF GcpNext, GcpStep, GcpBegin, GcpGet, GcpFilter, GcpPatch, GcpWait
  <2>2. QED BY <1>1, <1>3, <2>1, GcpEffect DEF fixed
<1>4. CASE AzureNext
  <2>1. provider = "azure/mysql"
    BY <1>4 DEF AzureNext, AzureStep, AzureBegin, AzureServer, AzureList,
       AzureUpdate, AzureWaitUpdate, AzureRestart, AzureWaitRestart
  <2>2. QED BY <1>1, <1>4, <2>1, AzureEffect DEF fixed
<1>5. CASE Provider
  BY <1>1, <1>5, ProviderEffect DEF fixed
<1>6. CASE UNCHANGED vars
  <2>1. EffectTracked'
    BY <1>6 DEF EffectTracked, vars, fixed, values, input, result, waiting, history,
       Due, AwsProgress, GcpProgress, AzureProgress, Landed, Modifies, Home, Known
  <2>2. QED BY <2>1 DEF EffectTracked
<1>7. QED BY <1>2, <1>3, <1>4, <1>5, <1>6 DEF Next

(* A task of awsApply, gcpApply or azureApply that ends with code 0 leaves *)
(* every value it had to change in use: none is still waiting for a        *)
(* restart, being applied or refused, also when it found the value stored  *)
(* by an earlier task (SuccessIsEffective, if nothing was in flight when   *)
(* it looked).                                                             *)
THEOREM SuccessEffective == Spec => []SuccessIsEffective
<1>1. Init => Tracked /\ EffectTracked
  <2>1. Init => EffectTracked
    BY DEF Init, EffectTracked, AwsProgress, GcpProgress, AzureProgress, Modifies, Working
  <2>2. QED BY <2>1, TrackedInit
<1>2. TypeOK /\ Tracked /\ [Next]_vars => Tracked'
  BY TrackedStep
<1>3. TypeOK /\ Tracked /\ EffectTracked /\ [Next]_vars => EffectTracked'
  BY EffectTrackedStep
<1>4. EffectTracked => SuccessIsEffective
  BY DEF EffectTracked, SuccessIsEffective, Over, Landed
<1>5. QED BY <1>1, <1>2, <1>3, <1>4, CloudTypes, PTL DEF Spec
=============================================================================
