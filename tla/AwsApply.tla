------------------------------ MODULE AwsApply ------------------------------
(***************************************************************************)
(* ApplyConfAwsRds of src/tasks/task_apply_aws.go, with the discovery of   *)
(* src/awsrds/discovery.go and the plan of src/awsrds/parameters.go: one   *)
(* task checks the instance and its groups, lists them, routes every       *)
(* recommendation to one group, modifies the groups in batches and waits   *)
(* until both are ready or the deadline has passed.                        *)
(*                                                                         *)
(* AWSApplyPendingRebootOnly is not modelled: no task type asks for it     *)
(* (src/tasks/tasks.go:107,125). Neither is the failure to serialize the   *)
(* result: its fields are strings and lists, which always serialize.       *)
(***************************************************************************)
EXTENDS CloudProvider

ExitCode(e) == IF e = "timeout" THEN 6 ELSE IF e = "denied" THEN 9 ELSE 8

(* An API call may be denied or fail; one made after the deadline of the   *)
(* wait fails with the deadline's error.                                   *)
CallErrors == IF expired THEN {"timeout"} ELSE {"denied", "failure"}
Answered == ~expired

AwsBegin == provider = "aws/rds" /\ Begin("discover", {8})

(* A failure that concerns no parameter: recordAWSApplyFailure and the     *)
(* records of a mismatched or not ready group.                             *)
Fails(s, c) ==
  /\ failed' = [failed EXCEPT ![s] = @ \cup {{}}]
  /\ Finish(c)

IsAurora == topology.aurora
Mismatched(s) == s \notin topology.own
(* Mutant: a group that waits for a restart is taken for one in sync.      *)
BrokenInSync(st) == st \in {"in-sync", "pending-reboot"}

InSync(st) == st = "in-sync"

(* DiscoverInstance, and the checks that need no listing.                  *)
AwsDiscover ==
  /\ provider = "aws/rds" /\ pc = "discover"
  /\ quiet' = (shown = stored)
  /\ clusterStatus' = status["cluster"]
  /\ \/ \E e \in CallErrors : Fails("instance", ExitCode(e))
     \/ Fails("instance", 1)                       \* not "available"
     \/ Mismatched("instance") /\ Fails("instance", 3)
     \/ /\ ~Mismatched("instance") /\ ~InSync(status["instance"])
        /\ Fails("instance", 2)
     \/ /\ ~Mismatched("instance") /\ InSync(status["instance"])
        /\ pc' = "listInstance" /\ UNCHANGED <<failed, code>>
  /\ UNCHANGED <<fixed, values, op, outside, tasks, mode, current, listed, plan,
                 applied, error, waiting, restart, accepted, touched>>

(* ListParameters reads every page of one group.                           *)
ListParameters(s) ==
  [p \in Params |-> IF s \in kind[p].homes THEN shown[p] ELSE Absent]

ClassificationNeeded(instanceParameters) ==
  IsAurora /\ \E p \in Recommended : instanceParameters[p] = Absent

(* BuildApplyPlan routes by membership of the listed groups, and the       *)
(* instance group has priority.                                            *)
Route(list, p) ==
  IF list["instance"][p] # Absent THEN "instance"
  ELSE IF list["cluster"][p] # Absent THEN "cluster" ELSE Absent

(* Mutant: the agent of a reader changes the cluster's group too.          *)
BrokenTopologyAllows(s) == s = "cluster" => IsAurora

TopologyAllows(s) == s = "cluster" => IsAurora /\ topology.writer

Unchanged(list, s, p) ==
  (IF list[s][p] = "unset" THEN current[p] ELSE list[s][p]) = "new"

Appliable(p) ==
  kind[p].apply = "dynamic" \/ (kind[p].apply = "static" /\ mode = "full")

(* normalizeAWSRecommendationValue: a number that does not parse, or a     *)
(* PostgreSQL size that is no multiple of the group's unit, is skipped;    *)
(* the other values are compared and sent in the group's own spelling.     *)
Normalizes(p) == kind[p].rec = "yes"

BuildScopeParameter(list, s, p) ==
  /\ TopologyAllows(s)
  /\ kind[p].writable
  /\ Normalizes(p)
  /\ ~Unchanged(list, s, p)
  /\ Appliable(p)

BuildApplyPlan(list) ==
  [s \in Scopes |-> {p \in Recommended :
      Route(list, p) = s /\ BuildScopeParameter(list, s, p)}]

AwsListInstance ==
  /\ provider = "aws/rds" /\ pc = "listInstance"
  /\ \/ /\ \E e \in CallErrors : Fails("instance", ExitCode(e))
        /\ UNCHANGED <<listed, plan>>
     \/ /\ listed' = [listed EXCEPT !["instance"] = ListParameters("instance")]
        /\ \/ /\ IsAurora /\ ~InSync(clusterStatus)
              /\ Fails("cluster", 4) /\ UNCHANGED plan
           \/ /\ IsAurora => InSync(clusterStatus)
              /\ ClassificationNeeded(listed'["instance"])
              /\ UNCHANGED plan
              /\ IF Mismatched("cluster") THEN Fails("cluster", 5)
                 ELSE pc' = "listCluster" /\ UNCHANGED <<failed, code>>
           \/ /\ IsAurora => InSync(clusterStatus)
              /\ ~ClassificationNeeded(listed'["instance"])
              /\ plan' = BuildApplyPlan(listed')
              /\ pc' = "modify" /\ UNCHANGED <<failed, code>>
  /\ UNCHANGED <<fixed, values, op, outside, tasks, input, applied, error,
                 waiting, restart, history>>

AwsListCluster ==
  /\ provider = "aws/rds" /\ pc = "listCluster"
  /\ \/ /\ \E e \in CallErrors : Fails("cluster", ExitCode(e))
        /\ UNCHANGED <<listed, plan>>
     \/ /\ listed' = [listed EXCEPT !["cluster"] = ListParameters("cluster")]
        /\ plan' = BuildApplyPlan(listed')
        /\ pc' = "modify" /\ UNCHANGED <<failed, code>>
  /\ UNCHANGED <<fixed, values, op, outside, tasks, input, applied, error,
                 waiting, restart, history>>

-----------------------------------------------------------------------------
(* applyAWSPlan: the batches of the instance group, then of the cluster's. *)

Left(s) == plan[s] \ applied[s]
Batch(s) == {p \in Left(s) : Cardinality({q \in Left(s) : q < p}) < BatchSize}
Turn == IF Left("instance") # {} THEN "instance" ELSE "cluster"

(* AWS takes a batch: the group of its parameters changes, if it is theirs.*)
Accept(s, batch) ==
  /\ accepted' = accepted \cup ({s} \X batch)
  /\ stored' = [p \in Params |->
       IF p \in batch /\ Home(p) = s /\ s \in topology.own THEN "new" ELSE stored[p]]

(* The wait starts with the first scope that was modified; without one the *)
(* task is over.                                                           *)
Modified(a) == {s \in Scopes : a[s] # {}}
StartWait(a, e) ==
  IF Modified(a) = {}
  THEN /\ Finish(IF e = "none" THEN 0 ELSE ExitCode(e))
       /\ UNCHANGED <<scope, ready>>
  ELSE /\ pc' = "poll" /\ UNCHANGED code
       /\ scope' = IF a["instance"] # {} THEN "instance" ELSE "cluster"
       /\ ready' = [s \in Scopes |-> a[s] = {}]

(* One batch: modified, or refused or failed (and a failed call may have   *)
(* been carried out); the first error ends the batches of both groups.     *)
AwsModify ==
  LET s == Turn IN
  /\ provider = "aws/rds" /\ pc = "modify" /\ Left(s) # {}
  /\ \/ /\ Accept(s, Batch(s))
        /\ applied' = [applied EXCEPT ![s] = @ \cup Batch(s)]
        /\ UNCHANGED <<failed, error, pc, code, scope, ready>>
     \/ \E e \in {"denied", "failure"} :
          /\ \/ UNCHANGED <<stored, accepted>>
             \/ e = "failure" /\ Accept(s, Batch(s))
          /\ failed' = [failed EXCEPT ![s] = @ \cup {Batch(s)}]
          /\ error' = e
          /\ StartWait(applied, e)
          /\ UNCHANGED applied
  /\ UNCHANGED <<fixed, shown, running, status, op, outside, tasks, input,
                 listed, plan, expired, restart, quiet, touched>>

AwsModified ==
  /\ provider = "aws/rds" /\ pc = "modify"
  /\ \A s \in Scopes : Left(s) = {}
  /\ StartWait(applied, "none")
  /\ UNCHANGED <<fixed, values, op, outside, tasks, input, listed, plan, result,
                 expired, restart, history>>

-----------------------------------------------------------------------------
(* defaultWaitForAWSApply: each modified scope in turn must list every     *)
(* applied value and then report "in-sync" or "pending-reboot".            *)

(* recordAWSWaitFailure: every scope that is not ready yet has failed.     *)
(* Mutant: only the scope that was polled has failed.                      *)
BrokenUnresolved == {scope}

Unresolved == {s \in Scopes : ~ready[s]}
WaitFails(e) ==
  /\ failed' = [s \in Scopes |->
       IF s \in Unresolved THEN failed[s] \cup {applied[s]} ELSE failed[s]]
  /\ error' = IF error = "none" THEN e ELSE error
  /\ Finish(ExitCode(error'))
  /\ UNCHANGED <<scope, ready, restart>>

(* awsAppliedParametersObserved.                                           *)
Observed(s) == \A p \in applied[s] : ListParameters(s)[p] = "new"

(* The loop goes on to the next scope, sleeps, or ends the task with the   *)
(* error of a batch, or with "a restart is pending", or well.              *)
Goes(r, reboot) ==
  /\ ready' = r /\ restart' = reboot
  /\ \/ /\ scope = "instance" /\ ~r["cluster"]
        /\ pc' = "poll" /\ scope' = "cluster" /\ UNCHANGED code
     \/ /\ r["cluster"] /\ r["instance"]
        /\ Finish(IF error # "none" THEN ExitCode(error)
                  ELSE IF reboot THEN 10 ELSE 0)
        /\ UNCHANGED scope
     \/ /\ IF scope = "instance" THEN r["cluster"] /\ ~r["instance"]
           ELSE ~(r["cluster"] /\ r["instance"])
        /\ pc' = "sleep" /\ UNCHANGED <<scope, code>>

AwsObserve ==
  /\ provider = "aws/rds" /\ pc = "poll"
  /\ \/ \E e \in CallErrors : WaitFails(e)
     \/ /\ Answered /\ ~Observed(scope)
        /\ Goes(ready, restart) /\ UNCHANGED <<failed, error>>
     \/ /\ Answered /\ Observed(scope)
        /\ pc' = "describe"
        /\ UNCHANGED <<failed, error, code, scope, ready, restart>>
  /\ UNCHANGED <<fixed, values, op, outside, tasks, input, listed, plan,
                 applied, expired, history>>

(* awsApplyScopeReady; restart collects what awsApplyRequiresReboot reads. *)
AwsDescribe ==
  /\ provider = "aws/rds" /\ pc = "describe"
  /\ \/ \E e \in CallErrors : WaitFails(e)
     \/ Answered /\ status[scope] = "failed" /\ WaitFails("failure")
     \/ /\ Answered                      \* not "available", or still applying
        /\ Goes(ready, restart) /\ UNCHANGED <<failed, error>>
     \/ /\ Answered /\ status[scope] \in {"in-sync", "pending-reboot"}
        /\ Goes([ready EXCEPT ![scope] = TRUE],
                restart \/ status[scope] = "pending-reboot")
        /\ UNCHANGED <<failed, error>>
  /\ UNCHANGED <<fixed, values, op, outside, tasks, input, listed, plan,
                 applied, expired, history>>

AwsSleep ==
  /\ provider = "aws/rds" /\ pc = "sleep"
  /\ \/ expired /\ WaitFails("timeout")
     \/ /\ ~expired
        /\ pc' = "poll"
        /\ scope' = IF ready["instance"] THEN "cluster" ELSE "instance"
        /\ UNCHANGED <<failed, error, code, ready, restart>>
  /\ UNCHANGED <<fixed, values, op, outside, tasks, input, listed, plan,
                 applied, expired, history>>

(* Mutant: the calls and the timer use the context without a deadline.     *)
BrokenDeadline == expired /\ UNCHANGED vars

Deadline ==
  /\ provider = "aws/rds" /\ pc \in {"poll", "describe", "sleep"} /\ ~expired
  /\ expired' = TRUE
  /\ UNCHANGED <<fixed, values, op, outside, pc, tasks, input, listed, plan,
                 result, scope, ready, restart, code, history>>

AwsStep ==
  \/ AwsDiscover \/ AwsListInstance \/ AwsListCluster
  \/ AwsModify \/ AwsModified
  \/ AwsObserve \/ AwsDescribe \/ AwsSleep
AwsNext == AwsBegin \/ AwsStep \/ Deadline
=============================================================================
