----------------------------- MODULE CloudApply -----------------------------
(***************************************************************************)
(* The configuration tasks of a managed database: the agent runs the       *)
(* procedure of its provider (the switch on InstanceType in                *)
(* src/tasks/tasks.go), one task after the other, while the provider and   *)
(* its operators act on their own.                                         *)
(***************************************************************************)
EXTENDS AwsApply, GcpApply, AzureApply

TypeOK ==
  /\ provider \in Providers /\ kind \in [Params -> Kinds]
  /\ topology \in Topology
  /\ stored \in [Params -> Values] /\ shown \in [Params -> Values]
  /\ running \in [Params -> Values]
  /\ status \in [Scopes -> Syncs]
  /\ op \in [kind : {"none", "patch", "update", "restart"},
             state : {"running", "done", "failed"}, flags : [Params -> Values]]
  /\ reboots \in Nat /\ edits \in Nat /\ tasks \in Nat
  /\ pc \in {"idle", "discover", "listInstance", "listCluster", "modify",
             "poll", "describe", "sleep", "get", "filter", "patch", "wait",
             "server", "list", "update", "waitUpdate", "restart", "waitRestart"}
  /\ mode \in {"dynamic", "full"}
  /\ current \in [Params -> Values] /\ clusterStatus \in Syncs
  /\ listed \in [Scopes -> [Params -> Values \cup {Absent}]]
  /\ plan \in [Scopes -> SUBSET Params]
  /\ applied \in [Scopes -> SUBSET Params]
  /\ failed \in [Scopes -> SUBSET SUBSET Params]
  /\ error \in Errors
  /\ scope \in Scopes /\ ready \in [Scopes -> BOOLEAN] /\ expired \in BOOLEAN
  /\ restart \in BOOLEAN /\ code \in Codes
  /\ accepted \subseteq Scopes \X Params
  /\ quiet \in BOOLEAN /\ touched \subseteq Params

AgentStep == AwsStep \/ GcpStep \/ AzureStep
Next == AwsNext \/ GcpNext \/ AzureNext \/ Provider

(* The agent goes on with its task, and the timer of the wait fires. The   *)
(* provider owes nothing.                                                  *)
Spec == Init /\ [][Next]_vars /\ WF_vars(AgentStep) /\ WF_vars(Deadline)

-----------------------------------------------------------------------------
Over == pc = "idle" /\ code # Working

(* What a task has to bring into use: the recommended, usable values of    *)
(* the parameters it may change that were not in use when it looked.       *)
Due(p) ==
  /\ p \in Known /\ kind[p].rec = "yes" /\ kind[p].writable
  /\ current[p] # "new"
  /\ mode = "dynamic" => kind[p].apply = "dynamic"
  /\ provider = "aws/rds" =>
       /\ kind[p].apply # "other"
       /\ Home(p) = "cluster" => topology.aurora /\ topology.writer

(* A task that reports success leaves every value it had to change in use: *)
(* a value that waits for a restart, is not applied yet or failed to apply *)
(* is never reported as done, also by the retry of a task that had changed *)
(* it before. At AWS provided that no accepted change was still invisible  *)
(* when the task looked at the instance.                                   *)
SuccessIsEffective ==
  Over /\ code = 0 /\ quiet => \A p \in Params : Due(p) => running[p] = "new"

(* Whatever the outcome at AWS, every modification made, or perhaps made   *)
(* by a call that failed, is in the result; and those in "applied" were    *)
(* seen in the group or are listed as failed too, in both scopes.          *)
ModificationsAreReported ==
  Over /\ provider = "aws/rds" =>
    /\ \A m \in accepted : m[2] \in applied[m[1]] \cup UNION failed[m[1]]
    /\ \A s \in Scopes : applied[s] # {} =>
         \/ applied[s] \in failed[s]
         \/ ready[s] /\ \A p \in applied[s] : shown[p] = "new"

(* AWS: a parameter is changed in the group that decides its value (the    *)
(* instance's when both hold it), that group is the one attached to this   *)
(* instance, and a cluster's is changed by the agent of its writer only.   *)
ChangesItsOwnGroups ==
  \A m \in accepted :
    /\ m[1] = "cluster" => "instance" \notin kind[m[2]].homes
    /\ m[1] \in topology.own
    /\ provider = "aws/rds" /\ m[1] = "cluster" => topology.aurora /\ topology.writer

(* A task in dynamic mode that found nothing in flight when it looked      *)
(* (quiet) has only dynamic parameters accepted, does not restart the      *)
(* database and does not end with code 10, which asks for a restart.       *)
DynamicNeedsNoRestart ==
  pc # "idle" \/ code # Working => (mode = "dynamic" /\ quiet =>
    /\ code # 10 /\ pc \notin {"restart", "waitRestart"}
    /\ \A m \in accepted : kind[m[2]].apply = "dynamic")

(* The agent never changes a parameter that is not recommended; at Google, *)
(* where it writes the whole list back, except one edited by hand after it *)
(* read the list.                                                          *)
OthersKept ==
  [][\A p \in Params \ Recommended : stored'[p] # stored[p] =>
        edits' # edits \/ p \in touched]_vars

(* A task at AWS ends, whatever becomes of the changes it made: the wait    *)
(* has a deadline. That each call to the API answers, with a result or an   *)
(* error, is assumed (AgentStep is fair): those before the wait carry no    *)
(* deadline.                                                                *)
AwsTaskEnds == (provider = "aws/rds" /\ pc # "idle") ~> (pc = "idle")
=============================================================================
