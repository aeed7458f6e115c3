------------------------------ MODULE GcpApply ------------------------------
(***************************************************************************)
(* ApplyConfGcpCloudSQL of src/tasks/task_apply_gcp.go: one task reads the *)
(* flags of the instance, merges the recommended ones into them and        *)
(* replaces the whole list by one patch, then polls the operation until it *)
(* is done. The list it sends is the one it read: a flag an operator edits *)
(* in between is overwritten.                                              *)
(***************************************************************************)
EXTENDS CloudProvider

GcpBegin == provider = "gcp/cloudsql" /\ Begin("get", {1, 8})

GcpGet ==
  /\ provider = "gcp/cloudsql" /\ pc = "get"
  /\ \/ Finish(1) /\ UNCHANGED <<listed, plan>>
     \/ /\ listed' = [listed EXCEPT !["instance"] =
             [p \in Params |-> IF p \in Known THEN shown[p] ELSE Absent]]
        /\ plan' = [plan EXCEPT !["instance"] = Recommended]
        /\ pc' = IF mode = "dynamic" THEN "filter" ELSE "patch"
        /\ UNCHANGED code
  /\ UNCHANGED <<fixed, values, op, outside, tasks, input, result, waiting,
                 restart, history>>

(* filterGCPRecommendationsByApplyMode: a recommended flag Google does not *)
(* know fails the task, one that needs a restart is dropped.               *)
GcpFilter ==
  /\ provider = "gcp/cloudsql" /\ pc = "filter"
  /\ \/ Finish(8) /\ UNCHANGED plan
     \/ /\ Recommended \subseteq Known
        /\ plan' = [plan EXCEPT !["instance"] =
             {p \in @ : kind[p].apply = "dynamic"}]
        /\ pc' = "patch" /\ UNCHANGED code
  /\ UNCHANGED <<fixed, values, op, outside, tasks, input, listed, result,
                 waiting, restart, history>>

Updates == {p \in plan["instance"] :
              kind[p].rec = "malformed" \/ current[p] # "new"}

(* The list sent: the updated flags, and every flag read before.           *)
(* Mutant: only the updated flags are sent.                                *)
BrokenMergedFlags(updates) ==
  [p \in Params |-> IF p \in updates THEN "new" ELSE "unset"]

MergedFlags(updates) ==
  [p \in Params |-> IF p \in updates THEN "new"
                    ELSE IF p \in Known THEN listed["instance"][p] ELSE "unset"]

Patched(updates) ==
  /\ op' = [kind |-> "patch", state |-> "running", flags |-> MergedFlags(updates)]
  /\ accepted' = accepted \cup ({"instance"} \X updates)

(* A recommended value that is no string panics. Google refuses a patch    *)
(* with an unknown or fixed flag, and one while an operation is running.   *)
GcpPatch ==
  /\ provider = "gcp/cloudsql" /\ pc = "patch"
  /\ \/ /\ \E p \in Updates : kind[p].rec = "malformed"
        /\ Finish(Panicked) /\ UNCHANGED <<op, accepted>>
     \/ /\ \A p \in Updates : kind[p].rec # "malformed"
        /\ \/ \E c \in {8, 9} : Finish(c) /\ UNCHANGED <<op, accepted>>
           \/ /\ op.state # "running"
              /\ \A p \in Updates : p \in Known /\ kind[p].writable
              /\ Patched(Updates)
              /\ \/ pc' = "wait" /\ UNCHANGED code
                 \/ Finish(8)                   \* the answer is lost
  /\ UNCHANGED <<fixed, values, outside, tasks, input, listed, plan, result,
                 waiting, restart, quiet, touched>>

(* waitForOp: there is no deadline; the loop goes on while it is running.  *)
GcpWait ==
  /\ provider = "gcp/cloudsql" /\ pc = "wait"
  /\ \/ Finish(8)                               \* operations.get
     \/ op.state = "failed" /\ Finish(8)
     \/ op.state = "done" /\ Finish(0)
  /\ UNCHANGED <<fixed, values, op, outside, tasks, input, listed, plan, result,
                 waiting, restart, history>>

GcpStep == GcpGet \/ GcpFilter \/ GcpPatch \/ GcpWait
GcpNext == GcpBegin \/ GcpStep
=============================================================================
