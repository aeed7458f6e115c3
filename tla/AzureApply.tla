----------------------------- MODULE AzureApply -----------------------------
(***************************************************************************)
(* ApplyConfAzureMySQL of src/tasks/task_apply_azure.go: one task lists    *)
(* the server's configurations, changes those that differ in one batch,    *)
(* and then either restarts the server itself (task types 5 and 8, mode    *)
(* "full") or reports that a restart is needed (type 4, mode "dynamic").   *)
(***************************************************************************)
EXTENDS CloudProvider

(* azureMySQLTaskErrorCode.                                                *)
AzureErrorCodes == {8, 9}

AzureBegin == provider = "azure/mysql" /\ Begin("server", {1, 8})

(* Credentials, the client factory, the server's details and its state.    *)
AzureServer ==
  /\ provider = "azure/mysql" /\ pc = "server"
  /\ \/ \E c \in {1} \cup AzureErrorCodes : Finish(c)
     \/ pc' = "list" /\ UNCHANGED code
  /\ UNCHANGED <<fixed, values, op, outside, tasks, input, listed, plan, result,
                 waiting, restart, history>>

(* Mutant: the mode is not looked at.                                      *)
BrokenEligibleForApplyMode(p) == kind[p].writable

EligibleForApplyMode(p) ==
  kind[p].writable /\ (mode = "dynamic" => kind[p].apply = "dynamic")

Differs(p) == kind[p].rec = "malformed" \/ current[p] # "new"
HasValue(p) == kind[p].rec = "yes" /\ shown[p] = "new"
PendingRestart(p) == kind[p].apply # "dynamic" /\ Waits(p)

Considered == {p \in Recommended : Differs(p) /\ p \in Known
                                   /\ EligibleForApplyMode(p)}

(* loadAzureMySQLConfigurations and the loop over the recommendations: the *)
(* configurations to update, and whether a restart is required.            *)
AzureList ==
  LET updates == {p \in Considered : ~HasValue(p)} IN
  /\ provider = "azure/mysql" /\ pc = "list"
  /\ \/ /\ \E c \in AzureErrorCodes : Finish(c)
        /\ UNCHANGED <<listed, plan, restart>>
     \/ /\ listed' = [listed EXCEPT !["instance"] =
             [p \in Params |-> IF p \in Known THEN shown[p] ELSE Absent]]
        /\ plan' = [plan EXCEPT !["instance"] = updates]
        /\ restart' = \/ \E p \in updates : kind[p].apply # "dynamic"
                      \/ \E p \in Considered : HasValue(p) /\ PendingRestart(p)
        /\ pc' = "update" /\ UNCHANGED code
  /\ UNCHANGED <<fixed, values, op, outside, tasks, input, result, waiting,
                 history>>

(* After the update: restart, say that a restart is required, or succeed.  *)
Concludes ==
  \/ restart /\ mode = "full" /\ pc' = "restart" /\ UNCHANGED code
  \/ restart /\ mode # "full" /\ Finish(10)
  \/ ~restart /\ Finish(0)

(* BeginBatchUpdate. Azure refuses a value it cannot use, and a second     *)
(* operation; the answer to one it took may be lost.                       *)
AzureUpdate ==
  LET updates == plan["instance"] IN
  /\ provider = "azure/mysql" /\ pc = "update"
  /\ \/ updates = {} /\ Concludes /\ UNCHANGED <<op, accepted>>
     \/ /\ updates # {} /\ \E c \in AzureErrorCodes : Finish(c)
        /\ UNCHANGED <<op, accepted>>
     \/ /\ updates # {} /\ op.state # "running"
        /\ \A p \in updates : kind[p].rec = "yes"
        /\ op' = [kind |-> "update", state |-> "running", flags |->
                    [p \in Params |-> IF p \in updates THEN "new" ELSE stored[p]]]
        /\ accepted' = accepted \cup ({"instance"} \X updates)
        /\ \/ pc' = "waitUpdate" /\ UNCHANGED code
           \/ Finish(8)
  /\ UNCHANGED <<fixed, values, outside, tasks, input, listed, plan, result,
                 waiting, restart, quiet, touched>>

(* PollUntilDone, without a deadline.                                      *)
AzureWaitUpdate ==
  /\ provider = "azure/mysql" /\ pc = "waitUpdate"
  /\ \/ \E c \in AzureErrorCodes : Finish(c)
     \/ op.state = "done" /\ Concludes
  /\ UNCHANGED <<fixed, values, op, outside, tasks, input, listed, plan, result,
                 waiting, restart, history>>

AzureRestart ==
  /\ provider = "azure/mysql" /\ pc = "restart"
  /\ \/ \E c \in AzureErrorCodes : Finish(c) /\ UNCHANGED op
     \/ /\ op.state # "running"
        /\ op' = [kind |-> "restart", state |-> "running", flags |-> stored]
        /\ \/ pc' = "waitRestart" /\ UNCHANGED code
           \/ Finish(8)
  /\ UNCHANGED <<fixed, values, outside, tasks, input, listed, plan, result,
                 waiting, restart, history>>

AzureWaitRestart ==
  /\ provider = "azure/mysql" /\ pc = "waitRestart"
  /\ \/ \E c \in AzureErrorCodes : Finish(c)
     \/ op.state = "done" /\ Finish(0)
  /\ UNCHANGED <<fixed, values, op, outside, tasks, input, listed, plan, result,
                 waiting, restart, history>>

AzureStep ==
  \/ AzureServer \/ AzureList \/ AzureUpdate \/ AzureWaitUpdate
  \/ AzureRestart \/ AzureWaitRestart
AzureNext == AzureBegin \/ AzureStep
=============================================================================
