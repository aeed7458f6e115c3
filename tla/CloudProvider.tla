--------------------------- MODULE CloudProvider ---------------------------
(***************************************************************************)
(* What a managed database is to the agent, and the state of one           *)
(* configuration task on it: the part AwsApply, GcpApply and AzureApply    *)
(* share. The provider's side is external: it is modelled from how         *)
(* src/tasks/task_apply_aws.go, _gcp.go and _azure.go use its API.         *)
(*                                                                         *)
(* A parameter has three values. stored is what the provider keeps in the  *)
(* configuration, shown is what its API lists (AWS shows a modification    *)
(* some time after it accepted it), running is what the database uses.     *)
(* The recommended value is always "new".                                  *)
(***************************************************************************)
EXTENDS Naturals, FiniteSets, FiniteSetsExt

CONSTANTS
  N,          \* the parameters are 1 .. N, in the order of their names
  Assignments,\* what the parameters may be: a set of functions from Params
  Topologies, \* how the instance may be set up at AWS
  BatchSize,  \* awsApplyBatchSize
  MaxTasks,   \* bound: configuration tasks of a behaviour
  MaxEdits,   \* bound: flags an operator sets by hand
  MaxReboots  \* bound: restarts ordered by an operator

Params    == 1 .. N
Scopes    == {"instance", "cluster"}
Providers == {"aws/rds", "gcp/cloudsql", "azure/mysql"}
Values    == {"unset", "old", "new", "foreign"}
Absent    == "absent"
Syncs     == {"in-sync", "applying", "pending-reboot", "failed"}
Errors    == {"none", "denied", "failure", "timeout"}

(* What a recommendation and the provider say of one parameter. rec: it is *)
(* not recommended, recommended, or with a value the agent cannot use.     *)
(* homes: the groups that hold it. writable: the provider lets a caller    *)
(* change it (and, at AWS, in this engine mode).                           *)
Kinds == [rec : {"no", "yes", "malformed"}, homes : SUBSET Scopes,
          apply : {"dynamic", "static", "other"}, writable : BOOLEAN,
          stored : {"unset", "old", "new"}, running : {"old", "new"}]

(* own: the scopes whose configured group is the attached one and not one  *)
(* of the default groups AWS manages.                                      *)
Topology == [aurora : BOOLEAN, writer : BOOLEAN, own : SUBSET Scopes]

ASSUME BoundsAssumption ==
  /\ N \in Nat
  /\ BatchSize \in Nat \ {0}
  /\ {MaxTasks, MaxEdits, MaxReboots} \subseteq Nat
ASSUME KindsAssumption ==
  /\ Assignments \subseteq [Params -> Kinds]
  /\ \A a \in Assignments, p \in Params : a[p].homes = {} => a[p].stored = "unset"
  /\ Topologies \subseteq Topology

(* Exit codes of a task; the first two stand for no code yet.              *)
Working  == 20
Panicked == 21
Codes    == (0 .. 10) \cup {Working, Panicked}

VARIABLES
  provider, kind, topology,  \* fixed in a behaviour
  stored, shown, running,    \* the values of each parameter
  status,                    \* AWS: apply status of each group
  op,                        \* Google and Azure: the operation under way
  reboots, edits,            \* counters of the bounds
  pc,                        \* the step the task is at
  tasks,                     \* counter of the bound
  mode,                      \* "dynamic" or "full"
  current,                   \* the running values the task collected
  clusterStatus,             \* AWS: the cluster's status when discovered
  listed,                    \* what the API listed to it, by scope
  plan,                      \* the parameters to change, by scope
  applied, failed,           \* its result, by scope: parameters, batches
  error,                     \* the first error of the apply
  scope, ready, expired,     \* the wait: scope polled, ready ones, deadline
  restart,                   \* Azure: restartRequired
  code,                      \* exit code of the last task
  accepted,                  \* history: <<scope, parameter>> changed for it
  quiet, touched             \* history: nothing was in flight when it looked;
                             \* flags edited by hand since it looked

fixed    == <<provider, kind, topology>>
values   == <<stored, shown, running, status>>
outside  == <<reboots, edits>>
input    == <<mode, current, clusterStatus>>
result   == <<applied, failed, error>>
waiting  == <<scope, ready, expired>>
history  == <<accepted, quiet, touched>>
vars == <<fixed, values, op, outside, pc, tasks, input, listed, plan, result,
          waiting, restart, code, history>>

Recommended == {p \in Params : kind[p].rec # "no"}
Home(p) == IF "instance" \in kind[p].homes THEN "instance" ELSE "cluster"
Known   == {p \in Params : kind[p].homes # {}}

(* The parameters whose new value waits for a restart.                     *)
Waits(p) == stored[p] # "unset" /\ stored[p] # running[p]

NothingListed == [s \in Scopes |-> [p \in Params |-> Absent]]
Nothing == [s \in Scopes |-> {}]
NoOperation == [kind |-> "none", state |-> "done", flags |-> stored]

Init ==
  /\ provider \in Providers
  /\ kind \in Assignments
  /\ topology \in IF provider = "aws/rds" THEN Topologies
                  ELSE {[aurora |-> FALSE, writer |-> FALSE, own |-> Scopes]}
  /\ stored = [p \in Params |-> kind[p].stored]
  /\ shown = stored
  /\ running = [p \in Params |-> kind[p].running]
  /\ provider = "gcp/cloudsql" => \A p \in Known : ~Waits(p)
  /\ provider = "azure/mysql" =>
       \A p \in Known : kind[p].apply = "dynamic" => ~Waits(p)
  /\ status = [s \in Scopes |->
                 IF \E p \in Known : Home(p) = s /\ Waits(p)
                 THEN "pending-reboot" ELSE "in-sync"]
  /\ op = NoOperation
  /\ reboots = 0 /\ edits = 0
  /\ pc = "idle" /\ tasks = 0
  /\ mode = "full" /\ current = running /\ clusterStatus = "in-sync"
  /\ listed = NothingListed /\ plan = Nothing
  /\ applied = Nothing /\ failed = Nothing /\ error = "none"
  /\ scope = "instance" /\ ready = [s \in Scopes |-> TRUE] /\ expired = FALSE
  /\ restart = FALSE
  /\ code = Working
  /\ accepted = {} /\ quiet = TRUE /\ touched = {}

(* The task ends with code c.                                              *)
Finish(c) == pc' = "idle" /\ code' = c

(* A task begins: it collects metrics and asks for the recommendations in  *)
(* its mode. It is refused (the agent's own settings, the task's details,  *)
(* nil metrics, a failed request, an answer that does not decode), or goes *)
(* on to its first step with the provider.                                 *)
Begin(firstStep, refusals) ==
  /\ pc = "idle" /\ tasks < MaxTasks
  /\ tasks' = tasks + 1
  /\ mode' \in {"dynamic", "full"}
  /\ current' = running /\ clusterStatus' = "in-sync"
  /\ listed' = NothingListed /\ plan' = Nothing
  /\ applied' = Nothing /\ failed' = Nothing /\ error' = "none"
  /\ scope' = "instance" /\ ready' = [s \in Scopes |-> TRUE]
  /\ expired' = FALSE /\ restart' = FALSE
  /\ accepted' = {} /\ quiet' = TRUE
  /\ touched' = IF op.state = "running" THEN touched ELSE {}
  /\ \/ pc' = firstStep /\ code' = Working
     \/ \E c \in refusals : Finish(c)
  /\ UNCHANGED <<fixed, values, op, outside>>

-----------------------------------------------------------------------------
(* The provider and its operators.                                         *)

(* The database restarts: every stored value is in use, and the groups are *)
(* in sync again.                                                          *)
InUse(v) == [p \in Params |-> IF v[p] = "unset" THEN running[p] ELSE v[p]]

Reboot ==
  /\ provider # "gcp/cloudsql" /\ op.state # "running"
  /\ reboots < MaxReboots /\ reboots' = reboots + 1
  /\ \E p \in Known : Waits(p)
  /\ shown = stored /\ \A s \in Scopes : status[s] # "applying"
  /\ running' = InUse(stored)
  /\ status' = [s \in Scopes |-> "in-sync"]
  /\ UNCHANGED <<fixed, stored, shown, op, edits, pc, tasks, input, listed,
                 plan, result, waiting, restart, code, history>>

(* AWS shows a modification and starts to apply it.                        *)
Propagate(s) ==
  /\ \E p \in Params : Home(p) = s /\ shown[p] # stored[p]
  /\ shown' = [p \in Params |-> IF Home(p) = s THEN stored[p] ELSE shown[p]]
  /\ status' = [status EXCEPT ![s] = "applying"]
  /\ UNCHANGED <<fixed, stored, running, op, outside, pc, tasks, input, listed,
                 plan, result, waiting, restart, code, history>>

(* AWS has applied what needs no restart, or could not apply the group.    *)
Settle(s) ==
  /\ status[s] = "applying"
  /\ \/ /\ running' = [p \in Params |->
             IF Home(p) = s /\ kind[p].apply = "dynamic"
             THEN InUse(shown)[p] ELSE running[p]]
        /\ status' = [status EXCEPT ![s] =
             IF \E p \in Known : /\ Home(p) = s /\ shown[p] # "unset"
                                 /\ shown[p] # running'[p]
             THEN "pending-reboot" ELSE "in-sync"]
     \/ status' = [status EXCEPT ![s] = "failed"] /\ UNCHANGED running
  /\ UNCHANGED <<fixed, stored, shown, op, outside, pc, tasks, input, listed,
                 plan, result, waiting, restart, code, history>>

(* An operation of Google or Azure ends. Google restarts the instance by   *)
(* itself; an update of Azure that ends badly may have stored its values;  *)
(* a value that needs no restart is in use as soon as it is stored.        *)
OperationEnds ==
  /\ op.state = "running"
  /\ \E well \in BOOLEAN :
       /\ op' = [op EXCEPT !.state = IF well THEN "done" ELSE "failed"]
       /\ stored' \in IF well THEN {op.flags}
                     ELSE IF op.kind = "update" THEN {stored, op.flags} ELSE {stored}
       /\ running' = [p \in Params |->
            IF \/ well /\ op.kind \in {"patch", "restart"}
               \/ kind[p].apply = "dynamic"
            THEN InUse(stored')[p] ELSE running[p]]
  /\ shown' = stored'
  /\ UNCHANGED <<fixed, status, outside, pc, tasks, input, listed, plan, result,
                 waiting, restart, code, history>>

(* Someone sets a flag of a Cloud SQL instance that is not recommended.    *)
OperatorEdits ==
  /\ provider = "gcp/cloudsql" /\ op.state # "running"
  /\ edits < MaxEdits /\ edits' = edits + 1
  /\ \E p \in Known \ Recommended :
       /\ stored[p] # "foreign"
       /\ stored' = [stored EXCEPT ![p] = "foreign"]
       /\ shown' = stored'
       /\ touched' = IF pc \in {"idle", "get"} THEN touched
                     ELSE touched \cup {p}
  /\ UNCHANGED <<fixed, running, status, op, reboots, pc, tasks, input, listed,
                 plan, result, waiting, restart, code, accepted, quiet>>

Provider ==
  \/ Reboot
  \/ \E s \in Scopes : Propagate(s) \/ Settle(s)
  \/ OperationEnds
  \/ OperatorEdits
=============================================================================
