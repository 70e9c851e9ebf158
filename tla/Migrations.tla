----------------------------- MODULE Migrations -----------------------------
(***************************************************************************)
(* Migration tasks against one database: docker/migrate.py reads the       *)
(* revision in one connection and, when its image knows that revision,     *)
(* runs alembic upgrade head in another, which alembic/env.py serializes   *)
(* with an advisory lock held to the end of its transaction.  Revisions    *)
(* form a line, so a revision is its place in it and an image is known by  *)
(* the last one it contains.                                               *)
(***************************************************************************)
EXTENDS Naturals, FiniteSets

CONSTANTS
  Image,    \* the image tags that may be deployed
  Head,     \* [Image -> Nat \ {0}], the last revision in each one's versions/
  MaxRuns   \* how many migration tasks may be run

ASSUME MigrationsAssumption ==
  /\ Image # {} /\ Head \in [Image -> Nat \ {0}]
  /\ MaxRuns \in Nat

Run == 1 .. MaxRuns
None == 0

VARIABLES
  revision,  \* alembic_version as committed; 0 while nothing is recorded
  advisory,  \* the run that holds the advisory lock, or None
  launched,  \* runs 1 .. launched have been started
  image,     \* [Run -> Image], the image a run was started with
  step,      \* [Run -> Steps]
  base,      \* [Run -> Nat], the revision a run upgrades from
  stopping   \* the runs that ecs.stop_task was called on

migrationVars == <<revision, advisory, launched, image, step, base, stopping>>

(* How a task ended: "ok" is exit code 0.                                  *)
Stopped == {"ok", "failed", "killed", "unknown revision"}

Steps == {"unused", "pending", "starting", "upgrading", "applying"} \cup Stopped

Started(r) == step[r] \notin {"unused"} \cup Stopped

MigrationsInit ==
  /\ revision = 0
  /\ advisory = None
  /\ launched = 0
  /\ image = [r \in Run |-> CHOOSE i \in Image : TRUE]
  /\ step = [r \in Run |-> "unused"]
  /\ base = [r \in Run |-> 0]
  /\ stopping = {}

-----------------------------------------------------------------------------
(* ecs.run_task.                                                           *)
Launch(i) ==
  /\ launched < MaxRuns
  /\ launched' = launched + 1
  /\ image' = [image EXCEPT ![launched + 1] = i]
  /\ step' = [step EXCEPT ![launched + 1] = "pending"]
  /\ UNCHANGED <<revision, advisory, base, stopping>>

(* The task ends; its connection and with it its transaction and its lock. *)
Exit(r, how) ==
  /\ step' = [step EXCEPT ![r] = how]
  /\ advisory' = IF advisory = r THEN None ELSE advisory
  /\ UNCHANGED <<launched, image, base, stopping>>

-----------------------------------------------------------------------------
(* ECS finds room for the task and runs its container, unless the task is  *)
(* to be stopped.                                                          *)
Begin(r) ==
  /\ step[r] = "pending" /\ r \notin stopping
  /\ step' = [step EXCEPT ![r] = "starting"]
  /\ UNCHANGED <<revision, advisory, launched, image, base, stopping>>

(* The image's versions/ contains the revision, or nothing is recorded.    *)
Knows(i, v) == v <= Head[i]

(* main() reads the revision, outside any lock: when the database is ahead *)
(* of the image there is nothing to apply.                                 *)
ReadRevision(r) ==
  /\ step[r] = "starting"
  /\ \/ /\ Knows(image[r], revision)
        /\ step' = [step EXCEPT ![r] = "upgrading"]
        /\ UNCHANGED <<advisory, launched, image, base, stopping>>
     \/ ~Knows(image[r], revision) /\ Exit(r, "ok")
  /\ UNCHANGED revision

(* Mutant of LockFree: env.py takes no advisory lock.                      *)
LockFreeAlways == TRUE

(* pg_advisory_xact_lock waits for the transaction that holds it.          *)
LockFree == advisory = None

(* Under the lock alembic reads the revision again, to find what is        *)
(* pending; a revision its versions/ lacks is an error.                    *)
TakeLock(r) ==
  /\ step[r] = "upgrading"
  /\ LockFree
  /\ Knows(image[r], revision)
  /\ advisory' = r
  /\ base' = [base EXCEPT ![r] = revision]
  /\ step' = [step EXCEPT ![r] = "applying"]
  /\ UNCHANGED <<revision, launched, image, stopping>>

CannotLocateRevision(r) ==
  /\ step[r] = "upgrading"
  /\ LockFree
  /\ ~Knows(image[r], revision)
  /\ Exit(r, "unknown revision")
  /\ UNCHANGED revision

(* All pending revisions are applied in one transaction.                   *)
Apply(r) ==
  /\ step[r] = "applying"
  /\ revision' = Head[image[r]]
  /\ Exit(r, "ok")

(* The image cannot be pulled, the database not reached, or a statement    *)
(* fails: a task that does not exit zero.                                  *)
Fail(r) ==
  /\ Started(r)
  /\ Exit(r, "failed")
  /\ UNCHANGED revision

(* ECS ends a stopped task after a grace period in which it runs on.       *)
Kill(r) ==
  /\ Started(r)
  /\ r \in stopping
  /\ Exit(r, "killed")
  /\ UNCHANGED revision

MigrationStep(r) ==
  \/ Begin(r) \/ ReadRevision(r) \/ TakeLock(r) \/ CannotLocateRevision(r)
  \/ Apply(r) \/ Fail(r) \/ Kill(r)

-----------------------------------------------------------------------------
MigrationsTypeOK ==
  /\ revision \in Nat
  /\ advisory \in Run \cup {None}
  /\ launched \in 0 .. MaxRuns
  /\ image \in [Run -> Image]
  /\ step \in [Run -> Steps]
  /\ base \in [Run -> Nat]
  /\ stopping \in SUBSET Run

(* Whoever applies revisions applies exactly those the database lacks:     *)
(* nobody else has committed one since it looked what was pending, so two  *)
(* runs at once (a deployment, a human, a rollback) never apply one twice. *)
PlanIsCurrent ==
  \A r \in Run : step[r] = "applying" => base[r] = revision /\ advisory = r
=============================================================================
