----------------------------- MODULE Deployment -----------------------------
(***************************************************************************)
(* A deployment of the service stack: CloudFormation updates the migration *)
(* custom resource first (infra/runtime/migration_handler.py starts a task *)
(* and is polled until it is done), then the ECS service, which replaces   *)
(* tasks of the old image by tasks of the new one, and rolls both back     *)
(* when either fails.  Meanwhile the service is scaled, and migration      *)
(* tasks are run that CloudFormation does not know of.                     *)
(***************************************************************************)
EXTENDS Migrations, Integers, FiniteSetsExt

CONSTANTS
  NoImage,
  PoolSize, MaxOverflow,  \* DB_POOL_SIZE and DB_MAX_OVERFLOW of a task
  DatabaseMax, Reserved,  \* max_connections, and those kept for operators
  MinTasks,               \* min_capacity, also the service's desired_count
  Deadline,               \* DEADLINE_SECONDS, in ticks
  TotalTimeout,           \* PROVIDER_TOTAL_TIMEOUT, in ticks
  MaxDeploys, MaxExtra, MaxScalings, MaxUnanswered   \* bounds of a run

ConnectionsPerTask == PoolSize + MaxOverflow

MaxTasks == (DatabaseMax - Reserved) \div ConnectionsPerTask

ASSUME DeploymentAssumption ==
  /\ NoImage \notin Image
  /\ {PoolSize, MinTasks} \subseteq Nat \ {0}
  /\ {MaxOverflow, DatabaseMax, Reserved} \subseteq Nat
  /\ {MaxDeploys, MaxExtra, MaxScalings, MaxUnanswered} \subseteq Nat
  /\ {Deadline, TotalTimeout} \subseteq Nat /\ Deadline < TotalTimeout
  /\ MinTasks <= MaxTasks
  /\ 2 * MaxDeploys + MaxExtra <= MaxRuns

VARIABLES
  stack,     \* what CloudFormation is doing
  deployed,  \* the image the stack was last deployed with, or NoImage
  target,    \* the image it is being deployed with
  physical,  \* the physical id of the migration resource: a run
  waited,    \* for how long the provider has been waiting for that run
  running,   \* what is_complete would compute as its running_for
  goal,      \* the image of the ECS service's primary deployment, or NoImage
  tasks,     \* [Image -> Nat], the running tasks of the service
  desired,   \* how many autoscaling wants
  used       \* [deploys, extra, scalings, unanswered], how much of the bounds is

clockVars == <<waited, running>>
stackVars == <<stack, deployed, target, physical, clockVars>>
serviceVars == <<goal, tasks, desired>>
vars == <<migrationVars, stackVars, serviceVars, used>>

Waiting == {"migrating", "reverting"}
Phases == {"stable", "rolling", "rollback", "restoring", "cleanup", "wedged"} \cup Waiting

Init ==
  /\ MigrationsInit
  /\ stack = "stable" /\ deployed = NoImage /\ target = NoImage
  /\ physical = None /\ waited = 0 /\ running = 0
  /\ goal = NoImage /\ tasks = [i \in Image |-> 0] /\ desired = MinTasks
  /\ used = [deploys |-> 0, extra |-> 0, scalings |-> 0, unanswered |-> 0]

-----------------------------------------------------------------------------
(* on_event for a Create or an Update: the task it starts becomes the      *)
(* physical id.  run_task may also refuse, which raises.                   *)
StartMigration(i) ==
  /\ Launch(i)
  /\ physical' = launched + 1
  /\ waited' = 0 /\ running' = 0

(* Mutant of Deploy: imageTag is no property of the resource, so the       *)
(* migration of an update is skipped.                                      *)
DeployUnmigrated(i) ==
  /\ stack = "stable" /\ i # deployed
  /\ used.deploys < MaxDeploys
  /\ used' = [used EXCEPT !.deploys = @ + 1]
  /\ target' = i
  /\ \/ deployed = NoImage /\ StartMigration(i) /\ stack' = "migrating" /\ goal' = goal
     \/ /\ deployed # NoImage /\ stack' = "rolling" /\ goal' = i
        /\ UNCHANGED <<migrationVars, physical, clockVars>>
  /\ UNCHANGED <<deployed, tasks, desired>>

(* cdk deploy with another imageTag: the custom resource's properties have *)
(* changed, so CloudFormation sends it a Create or an Update, before it    *)
(* touches the service that depends on it.                                 *)
Deploy(i) ==
  /\ stack = "stable" /\ i # deployed
  /\ used.deploys < MaxDeploys
  /\ used' = [used EXCEPT !.deploys = @ + 1]
  /\ target' = i
  /\ \/ StartMigration(i) /\ stack' = "migrating"
     \/ stack' = "rollback" /\ UNCHANGED <<migrationVars, physical, clockVars>>
  /\ UNCHANGED <<deployed, serviceVars>>

-----------------------------------------------------------------------------
(* Mutant of Verdict: the handler is no less patient than the provider.    *)
VerdictOfThePatient ==
  IF Started(physical) THEN IF running >= TotalTimeout THEN "raise" ELSE "incomplete"
  ELSE IF step[physical] = "ok" THEN "complete" ELSE "raise"

(* is_complete of a task that is described: not stopped, or for too long,  *)
(* or stopped with or without exit code 0.                                 *)
Verdict ==
  IF Started(physical) THEN IF running > Deadline THEN "raise" ELSE "incomplete"
  ELSE IF step[physical] = "ok" THEN "complete" ELSE "raise"

StopOverdue == stopping' = IF Started(physical) THEN stopping \cup {physical} ELSE stopping

EndWait(phase) ==
  /\ stack' = phase
  /\ waited' = 0 /\ running' = 0
  /\ UNCHANGED <<revision, advisory, launched, image, step, base, deployed, target,
                 physical, tasks, desired>>

(* The resource has failed: a rollback, and after a rollback a human.      *)
GiveUp ==
  /\ EndWait(IF stack = "migrating" THEN "rollback" ELSE "wedged")
  /\ UNCHANGED goal

(* The provider polls: a migration that is complete lets the service be    *)
(* updated (or restored), one that raised fails the resource.              *)
Poll ==
  /\ stack \in Waiting
  /\ \/ /\ Verdict = "complete"
        /\ EndWait(IF stack = "migrating" THEN "rolling" ELSE "restoring")
        /\ goal' = IF stack = "migrating" THEN target ELSE goal
        /\ UNCHANGED stopping
     \/ Verdict = "raise" /\ GiveUp /\ StopOverdue
  /\ UNCHANGED used

(* describe_tasks returns no task or fails, or stop_task does: is_complete *)
(* raises all the same, and nothing is stopped.                            *)
PollUnanswered ==
  /\ stack \in Waiting
  /\ used.unanswered < MaxUnanswered
  /\ used' = [used EXCEPT !.unanswered = @ + 1]
  /\ GiveUp /\ UNCHANGED stopping

(* total_timeout has passed: the handler is asked no more.                 *)
ProviderTimesOut ==
  /\ stack \in Waiting /\ waited = TotalTimeout
  /\ GiveUp /\ UNCHANGED <<stopping, used>>

(* Time passes while the provider waits.  It polls many times a tick, so   *)
(* no verdict it would have acted upon is a tick old.                      *)
Tick ==
  /\ stack \in Waiting /\ Verdict = "incomplete" /\ waited < TotalTimeout
  /\ waited' = waited + 1 /\ running' = running + 1
  /\ UNCHANGED <<migrationVars, stack, deployed, target, physical, serviceVars, used>>

(* The rollback sends the resource an Update with its former properties,   *)
(* so the former image migrates.                                           *)
Revert ==
  /\ stack = "rollback" /\ deployed # NoImage
  /\ \/ StartMigration(deployed) /\ stack' = "reverting"
     \/ stack' = "wedged" /\ UNCHANGED <<migrationVars, physical, clockVars>>
  /\ UNCHANGED <<deployed, target, serviceVars, used>>

(* The rollback of a first deployment deletes what it made; on_event does  *)
(* nothing on a Delete.                                                    *)
DeleteStack ==
  /\ stack = "rollback" /\ deployed = NoImage
  /\ stack' = "stable" /\ goal' = NoImage
  /\ tasks' = [i \in Image |-> 0]
  /\ UNCHANGED <<migrationVars, deployed, target, physical, clockVars, desired, used>>

(* A new physical id means that the old one was replaced: CloudFormation   *)
(* ends with a Delete of it, and on_event does nothing.                    *)
DeleteReplaced ==
  /\ stack = "cleanup"
  /\ stack' = "stable"
  /\ UNCHANGED <<migrationVars, deployed, target, physical, clockVars, serviceVars, used>>

-----------------------------------------------------------------------------
Total == MapThenSumSet(LAMBDA i : tasks[i], Image)

(* Mutant of StartTask: max_healthy_percent leaves no room for new tasks.  *)
StartTaskInPlace ==
  /\ goal # NoImage
  /\ tasks[goal] < desired /\ Total < desired
  /\ tasks' = [tasks EXCEPT ![goal] = @ + 1]
  /\ UNCHANGED <<migrationVars, stackVars, goal, desired, used>>

(* ECS starts tasks of the primary deployment up to max_healthy_percent,   *)
(* and stops others down to min_healthy_percent.                           *)
StartTask ==
  /\ goal # NoImage
  /\ tasks[goal] < desired /\ Total < 2 * desired
  /\ tasks' = [tasks EXCEPT ![goal] = @ + 1]
  /\ UNCHANGED <<migrationVars, stackVars, goal, desired, used>>

StopTask ==
  /\ Total > desired
  /\ \E i \in Image :
       /\ tasks[i] > IF i = goal THEN desired ELSE 0
       /\ tasks' = [tasks EXCEPT ![i] = @ - 1]
  /\ UNCHANGED <<migrationVars, stackVars, goal, desired, used>>

Converged == \A i \in Image : tasks[i] = IF i = goal THEN desired ELSE 0

(* The service is stable on its primary deployment.                        *)
Rolled ==
  /\ stack \in {"rolling", "restoring"} /\ Converged
  /\ stack' = "cleanup"
  /\ deployed' = goal
  /\ UNCHANGED <<migrationVars, target, physical, clockVars, serviceVars, used>>

(* Tasks of the new image do not become healthy: the circuit breaker rolls *)
(* the service back, which fails its update.                               *)
BreakerTrips ==
  /\ stack = "rolling"
  /\ stack' = "rollback"
  /\ goal' = deployed
  /\ UNCHANGED <<migrationVars, deployed, target, physical, clockVars, tasks, desired, used>>

(* Mutant of Scale: max_capacity leaves no room for the operators.         *)
ScaleIntoReserve ==
  /\ used.scalings < MaxScalings
  /\ used' = [used EXCEPT !.scalings = @ + 1]
  /\ \E n \in MinTasks .. DatabaseMax \div ConnectionsPerTask : desired' = n
  /\ UNCHANGED <<migrationVars, stackVars, goal, tasks>>

(* auto_scale_task_count, by requests or by CPU.                           *)
Scale ==
  /\ used.scalings < MaxScalings
  /\ used' = [used EXCEPT !.scalings = @ + 1]
  /\ \E n \in MinTasks .. MaxTasks : desired' = n
  /\ UNCHANGED <<migrationVars, stackVars, goal, tasks>>

(* A migration CloudFormation is not waiting for: a human's re-run, or a   *)
(* run_task sent twice because its first answer was lost.                  *)
ExtraRun ==
  /\ used.extra < MaxExtra
  /\ used' = [used EXCEPT !.extra = @ + 1]
  /\ \E i \in {deployed, target} \cap Image : Launch(i)
  /\ UNCHANGED <<stackVars, serviceVars>>

(* The handler counts from startedAt, and from createdAt only while the    *)
(* task is pending.                                                        *)
MigrationProceeds ==
  /\ \E r \in Run :
       /\ MigrationStep(r)
       /\ running' = IF r = physical /\ step'[r] = "starting" THEN 0 ELSE running
  /\ UNCHANGED <<stack, deployed, target, physical, waited, serviceVars, used>>

Killed == \E r \in Run : Kill(r) /\ UNCHANGED <<stackVars, serviceVars, used>>

(* No deployment is under way; MaxDeploys have been.                       *)
AtRest == stack \in {"stable", "wedged"} /\ UNCHANGED vars

Next ==
  \/ \E i \in Image : Deploy(i)
  \/ Poll \/ PollUnanswered \/ ProviderTimesOut \/ Tick \/ Revert \/ DeleteStack \/ DeleteReplaced
  \/ StartTask \/ StopTask \/ Rolled \/ BreakerTrips \/ Scale
  \/ ExtraRun \/ MigrationProceeds
  \/ AtRest

(* CloudFormation, its provider and ECS go on, and time passes; a          *)
(* migration may hang.                                                     *)
Fairness ==
  /\ WF_vars(Poll) /\ WF_vars(ProviderTimesOut) /\ WF_vars(Tick) /\ WF_vars(Revert)
  /\ WF_vars(DeleteStack) /\ WF_vars(DeleteReplaced)
  /\ WF_vars(StartTask \/ StopTask) /\ WF_vars(Rolled) /\ WF_vars(Killed)

Spec == Init /\ [][Next]_vars /\ Fairness
-----------------------------------------------------------------------------
(* Properties.                                                             *)

Usage == [deploys : 0 .. MaxDeploys, extra : 0 .. MaxExtra,
          scalings : 0 .. MaxScalings, unanswered : 0 .. MaxUnanswered]

(* Every variable holds what it can; autoscaling stays between its limits. *)
TypeOK ==
  /\ MigrationsTypeOK
  /\ stack \in Phases
  /\ {deployed, target, goal} \subseteq Image \cup {NoImage}
  /\ physical \in Run \cup {None}
  /\ waited \in 0 .. TotalTimeout /\ running \in 0 .. waited
  /\ tasks \in [Image -> Nat]
  /\ desired \in MinTasks .. MaxTasks
  /\ used \in Usage

(* service_stack.py: no task runs against a schema that has not been       *)
(* brought forward to what its image expects, whatever failed, was rolled  *)
(* back, scaled or re-run.                                                 *)
NoTaskAheadOfSchema ==
  \A i \in Image : tasks[i] > 0 => Head[i] <= revision

(* Nothing ever takes the schema back, a rollback and a Delete included.   *)
SchemaOnlyForward == [][revision <= revision']_vars

(* The resource is given up in this step, and its migration goes on.       *)
GivenUpRunning == stack \in Waiting /\ stack' \notin Waiting /\ Started(physical)'

(* Counted from its start, the deadline of this migration comes no earlier *)
(* than the end of the provider's patience.                                *)
PendingTooLong == (waited - running) + Deadline + 1 >= TotalTimeout

(* migration_runner.py, "strictly greater than DEADLINE_SECONDS":          *)
(* CloudFormation gives up on a migration that goes on only once it is     *)
(* being stopped, unless ECS failed to answer that poll, or the task was   *)
(* pending for too long.                                                   *)
StoppedBeforeGivenUp ==
  [][GivenUpRunning /\ used'.unanswered = used.unanswered
       => physical \in stopping' \/ PendingTooLong]_vars

(* Every deployment ends, rolled out, rolled back or handed to a human,    *)
(* even when a migration hangs.                                            *)
DeploymentSettles == stack \notin {"stable", "wedged"} ~> stack \in {"stable", "wedged"}

(* docker/migrate.py: a rollback does not leave the stack to a human       *)
(* because the database is ahead of the image it goes back to.             *)
AheadWedgesNoRollback ==
  stack = "wedged" => \A r \in Run :
    r = physical /\ image[r] = deployed => step[r] # "unknown revision"

(* service_stack.py: what the tasks may open and what is kept for          *)
(* operators fit what the database accepts.                                *)
FleetFitsBudget == Total * ConnectionsPerTask + Reserved <= DatabaseMax
=============================================================================
