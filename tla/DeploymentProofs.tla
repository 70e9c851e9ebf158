-------------------------- MODULE DeploymentProofs --------------------------
(* Deployments, for any images, revisions, limits and numbers of runs.     *)
EXTENDS Deployment, TLAPS

-----------------------------------------------------------------------------
(* The inductive invariant, first of the migrations alone.                 *)

(* A migration that ended well has brought the schema to what its image    *)
(* expects, or found it there; who applies revisions is alone in it.       *)
RunFits(r) ==
  /\ r > launched => step[r] = "unused"
  /\ step[r] = "ok" => Head[image[r]] <= revision
  /\ step[r] = "applying" =>
       advisory = r /\ base[r] = revision /\ revision <= Head[image[r]]

MigrationsInductive == MigrationsTypeOK /\ \A r \in Run : RunFits(r)

Reached(i) == i # NoImage => Head[i] <= revision

(* The migration CloudFormation waits for is a run of the image it deploys.*)
WaitsForItsRun ==
  /\ physical <= launched
  /\ stack \in Waiting => physical # None
  /\ stack = "migrating" => target \in Image /\ image[physical] = target

(* The handler raises on a migration that is past its deadline, and it is  *)
(* asked before another tick has passed.                                   *)
ClockFits == stack \in Waiting /\ Started(physical) => running <= Deadline + 1

(* What every reachable state satisfies.                                   *)
DeploymentInductive ==
  /\ TypeOK
  /\ MigrationsInductive
  /\ Reached(goal) /\ Reached(deployed)
  /\ NoTaskAheadOfSchema
  /\ WaitsForItsRun
  /\ ClockFits

-----------------------------------------------------------------------------
LEMMA LimitsAreNumbers ==
  /\ MaxTasks \in Int /\ MinTasks \in Nat \ {0}
  /\ {MaxDeploys, MaxExtra, MaxScalings, MaxUnanswered, Deadline, TotalTimeout} \subseteq Nat
<1>1. ConnectionsPerTask \in Nat \ {0}
  BY DeploymentAssumption DEF ConnectionsPerTask
<1>2. DatabaseMax - Reserved \in Int
  BY DeploymentAssumption
<1>3. MaxTasks \in Int
  BY <1>1, <1>2 DEF MaxTasks
<1> QED BY <1>3, DeploymentAssumption

LEMMA DeploymentInit == Init => DeploymentInductive
<1> SUFFICES ASSUME Init PROVE DeploymentInductive
  OBVIOUS
<1> USE MigrationsAssumption, DeploymentAssumption DEF Init, MigrationsInit, None
<1>1. MigrationsTypeOK
  <2>1. (CHOOSE i \in Image : TRUE) \in Image
    OBVIOUS
  <2> QED BY <2>1 DEF MigrationsTypeOK, Steps
<1>2. \A r \in Run : RunFits(r)
  BY DEF RunFits
<1>3. TypeOK
  <2>1. desired \in MinTasks .. MaxTasks
    BY LimitsAreNumbers
  <2>2. used \in Usage
    BY LimitsAreNumbers DEF Usage
  <2>3. tasks \in [Image -> Nat] /\ {deployed, target, goal} \subseteq Image \cup {NoImage}
    OBVIOUS
  <2> QED BY <1>1, <2>1, <2>2, <2>3 DEF TypeOK, Phases
<1>4. Reached(goal) /\ Reached(deployed) /\ NoTaskAheadOfSchema /\ WaitsForItsRun /\ ClockFits
  BY DEF Reached, NoTaskAheadOfSchema, WaitsForItsRun, ClockFits, Waiting
<1> QED BY <1>1, <1>2, <1>3, <1>4 DEF DeploymentInductive, MigrationsInductive

-----------------------------------------------------------------------------
(* Migrations.                                                             *)

(* ecs.run_task disturbs no run there is.                                  *)
LEMMA LaunchKeeps ==
  ASSUME MigrationsInductive, NEW i \in Image, Launch(i)
  PROVE  /\ MigrationsInductive'
         /\ launched' = launched + 1 /\ launched' \in Run
         /\ image'[launched'] = i
         /\ UNCHANGED <<revision, stopping>>
         /\ \A r \in 1 .. launched : image'[r] = image[r] /\ step'[r] = step[r]
<1> USE MigrationsAssumption DEF MigrationsInductive, Launch, Run
<1>1. /\ launched \in Nat /\ launched + 1 \in Run /\ launched' = launched + 1
      /\ image'[launched + 1] = i /\ step'[launched + 1] = "pending"
      /\ \A r \in Run \ {launched + 1} : image'[r] = image[r] /\ step'[r] = step[r]
  BY DEF MigrationsTypeOK
<1>2. MigrationsTypeOK'
  <2>1. step' \in [Run -> Steps]
    BY DEF MigrationsTypeOK, Steps
  <2>2. image' \in [Run -> Image]
    BY DEF MigrationsTypeOK
  <2> QED BY <1>1, <2>1, <2>2 DEF MigrationsTypeOK
<1>3. ASSUME NEW r \in Run PROVE RunFits(r)'
  BY <1>1 DEF RunFits, MigrationsTypeOK
<1>4. \A r \in 1 .. launched : image'[r] = image[r] /\ step'[r] = step[r]
  BY <1>1 DEF MigrationsTypeOK
<1> QED BY <1>1, <1>2, <1>3, <1>4

(* A run that ends, and how, changes nothing for the others.               *)
LEMMA ExitFacts ==
  ASSUME MigrationsInductive, NEW r \in Run, NEW how \in Stopped, Exit(r, how)
  PROVE  /\ step' \in [Run -> Steps] /\ step'[r] = how
         /\ \A s \in Run \ {r} : step'[s] = step[s]
         /\ advisory' \in Run \cup {None}
         /\ \A s \in Run \ {r} : advisory = s => advisory' = s
         /\ UNCHANGED <<launched, image, base, stopping>>
BY DEF MigrationsInductive, MigrationsTypeOK, Exit, Steps

LEMMA ExitKeeps ==
  ASSUME MigrationsInductive, NEW r \in Run, NEW how \in Stopped, Exit(r, how),
         step[r] # "unused", UNCHANGED revision,
         how = "ok" => Head[image[r]] <= revision
  PROVE  MigrationsInductive'
<1>1. MigrationsTypeOK'
  BY ExitFacts DEF MigrationsInductive, MigrationsTypeOK
<1>2. ASSUME NEW s \in Run PROVE RunFits(s)'
  BY ExitFacts DEF MigrationsInductive, RunFits, Stopped
<1> QED BY <1>1, <1>2 DEF MigrationsInductive

(* A step of a migration takes the schema forward or leaves it, and starts *)
(* no run again.                                                           *)
LEMMA MigrationKeeps ==
  ASSUME MigrationsInductive, NEW r \in Run, MigrationStep(r)
  PROVE  /\ MigrationsInductive' /\ revision <= revision'
         /\ UNCHANGED <<launched, image, stopping>>
         /\ \A s \in Run : ~Started(s) => ~Started(s)'
<1>1. MigrationsTypeOK /\ \A s \in Run : RunFits(s)
  BY DEF MigrationsInductive
<1>2. revision \in Nat /\ Head[image[r]] \in Nat /\ None \notin Run
  BY <1>1, MigrationsAssumption DEF MigrationsTypeOK, None, Run
<1>3. ASSUME NEW to \in {"starting", "upgrading"}, step' = [step EXCEPT ![r] = to], Started(r),
             UNCHANGED <<revision, advisory, launched, image, base, stopping>>
      PROVE  /\ MigrationsInductive' /\ revision <= revision'
             /\ UNCHANGED <<launched, image, stopping>>
             /\ \A s \in Run : ~Started(s) => ~Started(s)'
  <2>1. MigrationsTypeOK'
    BY <1>1, <1>3 DEF MigrationsTypeOK, Steps
  <2>2. ASSUME NEW s \in Run PROVE RunFits(s)'
    BY <1>1, <1>3 DEF MigrationsTypeOK, RunFits, Started
  <2>3. ASSUME NEW s \in Run, ~Started(s) PROVE ~Started(s)'
    BY <1>1, <1>3, <2>3 DEF MigrationsTypeOK, Started, Stopped
  <2> QED BY <1>2, <1>3, <2>1, <2>2, <2>3 DEF MigrationsInductive
<1>4. ASSUME NEW how \in Stopped, Exit(r, how), step[r] # "unused", UNCHANGED revision,
             how = "ok" => Head[image[r]] <= revision, Started(r)
      PROVE  /\ MigrationsInductive' /\ revision <= revision'
             /\ UNCHANGED <<launched, image, stopping>>
             /\ \A s \in Run : ~Started(s) => ~Started(s)'
  BY <1>2, <1>4, ExitFacts, ExitKeeps DEF Started
<1>5. CASE ReadRevision(r)
  <2>1. ~Knows(image[r], revision) => Head[image[r]] <= revision
    BY <1>2 DEF Knows
  <2>2. Started(r)
    BY <1>5 DEF ReadRevision, Started, Stopped
  <2>3. CASE ~Knows(image[r], revision)
    <3>1. Exit(r, "ok") /\ UNCHANGED revision /\ "ok" \in Stopped /\ step[r] # "unused"
      BY <1>5, <2>3 DEF ReadRevision, Stopped
    <3> QED BY <1>4, <2>1, <2>2, <2>3, <3>1
  <2>4. CASE Knows(image[r], revision)
    BY <1>3, <1>5, <2>2, <2>4 DEF ReadRevision
  <2> QED BY <2>3, <2>4
<1>6. CASE TakeLock(r)
  <2>1. MigrationsTypeOK'
    BY <1>1, <1>6 DEF MigrationsTypeOK, Steps, TakeLock
  <2>2. ASSUME NEW s \in Run PROVE RunFits(s)'
    BY <1>1, <1>2, <1>6 DEF MigrationsTypeOK, RunFits, TakeLock, LockFree, Knows
  <2>3. ASSUME NEW s \in Run, ~Started(s) PROVE ~Started(s)'
    BY <1>1, <1>6, <2>3 DEF MigrationsTypeOK, Started, Stopped, TakeLock
  <2> QED BY <1>2, <1>6, <2>1, <2>2, <2>3 DEF MigrationsInductive, TakeLock
<1>7. CASE Apply(r)
  <2>1. Exit(r, "ok") /\ step[r] = "applying" /\ revision' = Head[image[r]] /\ "ok" \in Stopped
    BY <1>7 DEF Apply, Stopped
  <2>2. advisory = r /\ revision <= revision' /\ revision' \in Nat
    BY <1>1, <1>2, <2>1 DEF RunFits
  <2>3. MigrationsTypeOK'
    BY <1>1, <2>1, <2>2, ExitFacts DEF MigrationsTypeOK
  <2>4. ASSUME NEW s \in Run PROVE RunFits(s)'
    <3>1. CASE s = r
      BY <1>1, <1>2, <2>1, <2>2, <3>1, ExitFacts DEF RunFits
    <3>2. CASE s # r
      <4>1. step[s] # "applying"
        BY <1>1, <2>2, <3>2 DEF RunFits
      <4>2. step'[s] = step[s] /\ image'[s] = image[s] /\ launched' = launched
        BY <2>1, <3>2, ExitFacts
      <4>3. Head[image[s]] \in Nat
        BY <1>1, MigrationsAssumption DEF MigrationsTypeOK
      <4> QED BY <1>1, <1>2, <2>2, <4>1, <4>2, <4>3 DEF RunFits
    <3> QED BY <3>1, <3>2
  <2>5. ASSUME NEW s \in Run, ~Started(s) PROVE ~Started(s)'
    BY <2>1, <2>5, ExitFacts DEF Started
  <2> QED BY <2>1, <2>2, <2>3, <2>4, <2>5, ExitFacts DEF MigrationsInductive
<1>8. CASE CannotLocateRevision(r) \/ Fail(r) \/ Kill(r)
  BY <1>4, <1>8 DEF CannotLocateRevision, Fail, Kill, Started, Stopped
<1>9. CASE Begin(r)
  BY <1>3, <1>9 DEF Begin, Started, Stopped
<1> QED BY <1>5, <1>6, <1>7, <1>8, <1>9 DEF MigrationStep

-----------------------------------------------------------------------------
(* The stack and the service.                                              *)

(* Nothing that is known of the schema is lost while it does not go back.  *)
LEMMA SchemaFrame ==
  ASSUME DeploymentInductive, MigrationsInductive', revision <= revision',
         UNCHANGED <<goal, deployed, tasks>>
  PROVE  Reached(goal)' /\ Reached(deployed)' /\ NoTaskAheadOfSchema'
<1>1. revision \in Nat /\ revision' \in Nat /\ \A i \in Image : Head[i] \in Nat
  BY MigrationsAssumption DEF DeploymentInductive, MigrationsInductive, MigrationsTypeOK
<1>2. goal \in Image \cup {NoImage} /\ deployed \in Image \cup {NoImage}
  BY DEF DeploymentInductive, TypeOK
<1>3. Reached(goal) /\ Reached(deployed) /\ NoTaskAheadOfSchema
  BY DEF DeploymentInductive
<1> QED BY <1>1, <1>2, <1>3 DEF Reached, NoTaskAheadOfSchema

(* Each bound is used up one by one.                                       *)
LEMMA UsedUp ==
  ASSUME TypeOK
  PROVE  /\ used.deploys < MaxDeploys => [used EXCEPT !.deploys = @ + 1] \in Usage
         /\ used.extra < MaxExtra => [used EXCEPT !.extra = @ + 1] \in Usage
         /\ used.scalings < MaxScalings => [used EXCEPT !.scalings = @ + 1] \in Usage
         /\ used.unanswered < MaxUnanswered => [used EXCEPT !.unanswered = @ + 1] \in Usage
BY LimitsAreNumbers DEF TypeOK, Usage

(* A migration is started and waited for.                                  *)
LEMMA StartKeeps ==
  ASSUME DeploymentInductive, NEW i \in Image, NEW phase \in Waiting,
         StartMigration(i), stack' = phase, target' \in Image \cup {NoImage},
         phase = "migrating" => target' = i,
         used' \in Usage,
         UNCHANGED <<deployed, goal, tasks, desired>>
  PROVE  DeploymentInductive'
<1>1. MigrationsInductive /\ TypeOK
  BY DEF DeploymentInductive
<1>2. /\ MigrationsInductive' /\ launched' = launched + 1 /\ launched' \in Run
      /\ physical' = launched' /\ image'[physical'] = i /\ waited' = 0 /\ running' = 0
      /\ revision' = revision
  BY <1>1, LaunchKeeps DEF StartMigration
<1>3. revision <= revision' /\ physical' # None /\ physical' <= launched'
  BY <1>1, <1>2 DEF MigrationsInductive, MigrationsTypeOK, Run, None
<1>4. TypeOK'
  BY <1>1, <1>2, LimitsAreNumbers DEF TypeOK, MigrationsInductive, Phases
<1>5. WaitsForItsRun' /\ ClockFits'
  BY <1>2, <1>3, LimitsAreNumbers DEF WaitsForItsRun, ClockFits
<1> QED BY <1>2, <1>3, <1>4, <1>5, SchemaFrame DEF DeploymentInductive

(* The stack goes from one phase in which it waits for nothing to another. *)
LEMMA PhaseKeeps ==
  ASSUME DeploymentInductive, stack \notin Waiting, stack' \in Phases \ Waiting,
         UNCHANGED migrationVars, UNCHANGED <<physical, clockVars>>,
         target' \in Image \cup {NoImage},
         goal' \in {goal, deployed, NoImage}, deployed' \in {deployed, goal},
         tasks' = tasks \/ tasks' = [i \in Image |-> 0],
         desired' = desired,
         used' \in Usage
  PROVE  DeploymentInductive'
<1>1. TypeOK /\ MigrationsInductive /\ Reached(goal) /\ Reached(deployed)
        /\ NoTaskAheadOfSchema /\ WaitsForItsRun /\ ClockFits
  BY DEF DeploymentInductive
<1>2. MigrationsInductive'
  BY <1>1 DEF migrationVars, MigrationsInductive, MigrationsTypeOK, RunFits
<1>3. TypeOK'
  <2>1. tasks' \in [Image -> Nat] /\ {deployed, target, goal}' \subseteq Image \cup {NoImage}
    BY <1>1 DEF TypeOK
  <2> QED BY <1>1, <1>2, <2>1 DEF TypeOK, MigrationsInductive, clockVars
<1>4. Reached(goal)' /\ Reached(deployed)' /\ NoTaskAheadOfSchema'
  <2>1. revision' = revision
    BY DEF migrationVars
  <2>2. Reached(goal)' /\ Reached(deployed)'
    BY <1>1, <2>1 DEF Reached
  <2>3. NoTaskAheadOfSchema'
    BY <1>1, <2>1 DEF NoTaskAheadOfSchema
  <2> QED BY <2>2, <2>3
<1>5. WaitsForItsRun' /\ ClockFits'
  BY <1>1 DEF WaitsForItsRun, ClockFits, migrationVars, Waiting, Started
<1> QED BY <1>1, <1>2, <1>3, <1>4, <1>5 DEF DeploymentInductive

(* ECS and autoscaling touch the service alone, and start tasks of the     *)
(* primary deployment's image only.                                        *)
LEMMA ServiceKeeps ==
  ASSUME DeploymentInductive, UNCHANGED migrationVars, UNCHANGED stackVars, goal' = goal,
         tasks' \in [Image -> Nat], desired' \in MinTasks .. MaxTasks,
         used' \in Usage,
         \A i \in Image : tasks'[i] > 0 => tasks[i] > 0 \/ i = goal
  PROVE  DeploymentInductive'
<1>1. TypeOK /\ MigrationsInductive /\ Reached(goal) /\ Reached(deployed)
        /\ NoTaskAheadOfSchema /\ WaitsForItsRun /\ ClockFits
  BY DEF DeploymentInductive
<1>2. MigrationsInductive'
  BY <1>1 DEF migrationVars, MigrationsInductive, MigrationsTypeOK, RunFits
<1>3. TypeOK'
  BY <1>1, <1>2 DEF TypeOK, MigrationsInductive, stackVars, clockVars
<1>4. Reached(goal)' /\ Reached(deployed)' /\ NoTaskAheadOfSchema'
  <2>1. revision' = revision /\ deployed' = deployed
    BY DEF migrationVars, stackVars
  <2>2. \A i \in Image : i = goal => Head[i] <= revision
    BY <1>1, DeploymentAssumption DEF Reached
  <2> QED BY <1>1, <2>1, <2>2 DEF Reached, NoTaskAheadOfSchema
<1>5. WaitsForItsRun' /\ ClockFits'
  BY <1>1 DEF WaitsForItsRun, ClockFits, migrationVars, stackVars, clockVars, Started
<1> QED BY <1>1, <1>2, <1>3, <1>4, <1>5 DEF DeploymentInductive

(* What runs of the migration do while the stack does nothing.             *)
LEMMA RunsKeep ==
  ASSUME DeploymentInductive, MigrationsInductive', revision <= revision',
         UNCHANGED <<stack, deployed, target, physical, waited>>, running' \in {0, running},
         UNCHANGED serviceVars, launched <= launched',
         used' \in Usage,
         stopping' = stopping,
         physical # None => image'[physical] = image[physical],
         physical # None /\ ~Started(physical) => ~Started(physical)'
  PROVE  DeploymentInductive'
<1>1. TypeOK /\ MigrationsInductive /\ WaitsForItsRun /\ ClockFits
  BY DEF DeploymentInductive
<1>2. TypeOK'
  <2>1. running' \in 0 .. waited
    BY <1>1 DEF TypeOK
  <2> QED BY <1>1, <2>1 DEF TypeOK, MigrationsInductive, serviceVars
<1>3. Reached(goal)' /\ Reached(deployed)' /\ NoTaskAheadOfSchema'
  BY SchemaFrame DEF serviceVars
<1>4. WaitsForItsRun'
  <2>1. physical \in Nat /\ launched \in Nat /\ launched' \in Nat
    BY <1>1 DEF TypeOK, MigrationsInductive, MigrationsTypeOK, Run, None
  <2> QED BY <1>1, <2>1 DEF WaitsForItsRun, Waiting
<1>5. ClockFits'
  <2>1. stack \in Waiting /\ Started(physical)' => running <= Deadline + 1
    BY <1>1 DEF WaitsForItsRun, ClockFits
  <2> QED BY <2>1, LimitsAreNumbers DEF ClockFits, Started
<1> QED BY <1>1, <1>2, <1>3, <1>4, <1>5 DEF DeploymentInductive

(* The wait for a migration ends, however it ended.                        *)
LEMMA EndWaitKeeps ==
  ASSUME DeploymentInductive, NEW phase \in Phases \ Waiting, EndWait(phase),
         stopping' \in SUBSET Run, used' \in Usage,
         goal' \in Image \cup {NoImage}, goal' # goal => Head[goal'] <= revision
  PROVE  DeploymentInductive'
<1>1. TypeOK /\ MigrationsInductive /\ Reached(goal) /\ Reached(deployed)
        /\ NoTaskAheadOfSchema /\ WaitsForItsRun
  BY DEF DeploymentInductive
<1>2. MigrationsInductive'
  BY <1>1 DEF EndWait, MigrationsInductive, MigrationsTypeOK, RunFits
<1>3. TypeOK'
  BY <1>1, <1>2, LimitsAreNumbers DEF EndWait, TypeOK, MigrationsInductive
<1>4. Reached(goal)' /\ Reached(deployed)' /\ NoTaskAheadOfSchema'
  BY <1>1 DEF EndWait, Reached, NoTaskAheadOfSchema
<1>5. WaitsForItsRun' /\ ClockFits'
  BY <1>1 DEF EndWait, WaitsForItsRun, ClockFits, Waiting
<1> QED BY <1>2, <1>3, <1>4, <1>5 DEF DeploymentInductive

LEMMA GiveUpKeeps ==
  ASSUME DeploymentInductive, GiveUp, stopping' \in SUBSET Run, used' \in Usage
  PROVE  DeploymentInductive'
<1> DEFINE phase == IF stack = "migrating" THEN "rollback" ELSE "wedged"
<1>1. phase \in Phases \ Waiting /\ EndWait(phase) /\ goal' = goal
  BY DEF GiveUp, Phases, Waiting
<1>2. goal \in Image \cup {NoImage}
  BY DEF DeploymentInductive, TypeOK
<1> HIDE DEF phase
<1> QED BY <1>1, <1>2, EndWaitKeeps

(* The provider's verdict: a migration that is complete has brought the    *)
(* schema to the target.                                                   *)
LEMMA PollKeeps ==
  ASSUME DeploymentInductive, Poll
  PROVE  DeploymentInductive'
<1>1. TypeOK /\ MigrationsInductive /\ WaitsForItsRun
  BY DEF DeploymentInductive
<1>2. physical \in Run /\ stack \in Waiting
  BY <1>1 DEF Poll, TypeOK, WaitsForItsRun
<1>3. used' \in Usage /\ {goal, target} \subseteq Image \cup {NoImage} /\ stopping \in SUBSET Run
  BY <1>1 DEF Poll, TypeOK, MigrationsInductive, MigrationsTypeOK
<1>4. CASE Verdict = "complete"
  <2> DEFINE phase == IF stack = "migrating" THEN "rolling" ELSE "restoring"
  <2>1. EndWait(phase) /\ goal' = (IF stack = "migrating" THEN target ELSE goal) /\ stopping' = stopping
    BY <1>4 DEF Poll
  <2>2. step[physical] = "ok"
    BY <1>4 DEF Verdict
  <2>3. stack = "migrating" => Head[target] <= revision
    BY <1>1, <1>2, <2>2 DEF WaitsForItsRun, MigrationsInductive, RunFits
  <2>4. phase \in Phases \ Waiting
    BY DEF Phases, Waiting
  <2> HIDE DEF phase
  <2> QED BY <1>3, <2>1, <2>3, <2>4, EndWaitKeeps
<1>5. CASE GiveUp /\ StopOverdue
  <2>1. stopping' \in SUBSET Run
    BY <1>2, <1>3, <1>5 DEF StopOverdue
  <2> QED BY <1>3, <1>5, <2>1, GiveUpKeeps
<1> QED BY <1>4, <1>5 DEF Poll

(* A tick is followed by a poll as soon as the handler would act upon it.  *)
LEMMA TickKeeps ==
  ASSUME DeploymentInductive, Tick
  PROVE  DeploymentInductive'
<1>1. TypeOK /\ MigrationsInductive /\ WaitsForItsRun
  BY DEF DeploymentInductive
<1>2. /\ waited \in Nat /\ running \in 0 .. waited /\ waited < TotalTimeout
      /\ waited' = waited + 1 /\ running' = running + 1
  BY <1>1, LimitsAreNumbers DEF TypeOK, Tick
<1>3. MigrationsInductive'
  BY <1>1 DEF Tick, migrationVars, MigrationsInductive, MigrationsTypeOK, RunFits
<1>4. TypeOK'
  <2>1. waited' \in 0 .. TotalTimeout /\ running' \in 0 .. waited'
    BY <1>2, LimitsAreNumbers
  <2> QED BY <1>1, <1>3, <2>1 DEF Tick, TypeOK, MigrationsInductive, serviceVars
<1>5. ClockFits'
  <2>1. Started(physical) => running <= Deadline
    BY <1>2, LimitsAreNumbers DEF Tick, Verdict
  <2>2. Started(physical)' => Started(physical)
    BY DEF Tick, migrationVars, Started
  <2> QED BY <1>2, <2>1, <2>2, LimitsAreNumbers DEF ClockFits
<1>6. Reached(goal)' /\ Reached(deployed)' /\ NoTaskAheadOfSchema' /\ WaitsForItsRun'
  BY <1>1
     DEF DeploymentInductive, Tick, Reached, NoTaskAheadOfSchema, WaitsForItsRun, migrationVars, serviceVars
<1> QED BY <1>3, <1>4, <1>5, <1>6 DEF DeploymentInductive

(* Every step preserves it.                                                *)
LEMMA DeploymentStep == DeploymentInductive /\ [Next]_vars => DeploymentInductive'
<1> SUFFICES ASSUME DeploymentInductive, [Next]_vars PROVE DeploymentInductive'
  OBVIOUS
<1>1. /\ TypeOK /\ MigrationsInductive /\ physical \in Run \cup {None}
      /\ {deployed, target, goal} \subseteq Image \cup {NoImage}
      /\ tasks \in [Image -> Nat] /\ desired \in MinTasks .. MaxTasks
      /\ used \in Usage
  BY DEF DeploymentInductive, TypeOK
<1>2. ASSUME NEW i \in Image, Deploy(i) PROVE DeploymentInductive'
  <2>1. /\ target' = i /\ UNCHANGED <<deployed, goal, tasks, desired>> /\ stack = "stable"
        /\ used' \in Usage
    BY <1>1, <1>2, UsedUp DEF Deploy, serviceVars
  <2>2. CASE StartMigration(i) /\ stack' = "migrating"
    BY <2>1, <2>2, StartKeeps DEF Waiting
  <2>3. CASE stack' = "rollback" /\ UNCHANGED <<migrationVars, physical, clockVars>>
    BY <2>1, <2>3, PhaseKeeps DEF Waiting, Phases
  <2> QED BY <1>2, <2>2, <2>3 DEF Deploy
<1>3. CASE Poll
  BY <1>3, PollKeeps
<1>4. CASE Tick
  BY <1>4, TickKeeps
<1>16. CASE PollUnanswered
  BY <1>1, <1>16, UsedUp, GiveUpKeeps
     DEF PollUnanswered, MigrationsInductive, MigrationsTypeOK
<1>17. CASE ProviderTimesOut
  BY <1>1, <1>17, GiveUpKeeps DEF ProviderTimesOut, MigrationsInductive, MigrationsTypeOK
<1>5. CASE Revert
  <2>1. /\ deployed \in Image /\ UNCHANGED <<deployed, target, goal, tasks, desired, used>>
        /\ stack = "rollback"
    BY <1>1, <1>5 DEF Revert, serviceVars
  <2>2. CASE StartMigration(deployed) /\ stack' = "reverting"
    BY <1>1, <2>1, <2>2, StartKeeps DEF Waiting
  <2>3. CASE stack' = "wedged" /\ UNCHANGED <<migrationVars, physical, clockVars>>
    BY <1>1, <2>1, <2>3, PhaseKeeps DEF Waiting, Phases
  <2> QED BY <1>5, <2>2, <2>3 DEF Revert
<1>6. CASE DeleteStack
  BY <1>1, <1>6, PhaseKeeps DEF DeleteStack, Waiting, Phases
<1>7. CASE DeleteReplaced
  BY <1>1, <1>7, PhaseKeeps DEF DeleteReplaced, Waiting, Phases, serviceVars
<1>8. CASE Rolled
  BY <1>1, <1>8, PhaseKeeps DEF Rolled, Waiting, Phases, serviceVars
<1>9. CASE BreakerTrips
  BY <1>1, <1>9, PhaseKeeps DEF BreakerTrips, Waiting, Phases
<1>10. CASE StartTask
  <2>1. goal \in Image /\ tasks' = [tasks EXCEPT ![goal] = @ + 1]
    BY <1>1, <1>10 DEF StartTask
  <2>2. tasks' \in [Image -> Nat] /\ \A i \in Image : i # goal => tasks'[i] = tasks[i]
    BY <1>1, <2>1
  <2> QED BY <1>1, <1>10, <2>2, ServiceKeeps DEF StartTask
<1>11. CASE StopTask
  <2>1. PICK i \in Image : /\ tasks[i] > IF i = goal THEN desired ELSE 0
                           /\ tasks' = [tasks EXCEPT ![i] = @ - 1]
    BY <1>11 DEF StopTask
  <2>2. tasks[i] \in Nat /\ tasks[i] > 0
    BY <1>1, <2>1, LimitsAreNumbers
  <2>3. tasks' \in [Image -> Nat] /\ \A j \in Image : tasks'[j] > 0 => tasks[j] > 0
    BY <1>1, <2>1, <2>2
  <2> QED BY <1>1, <1>11, <2>3, ServiceKeeps DEF StopTask
<1>12. CASE Scale
  <2>1. desired' \in MinTasks .. MaxTasks
    BY <1>12 DEF Scale
  <2> QED BY <1>1, <1>12, <2>1, UsedUp, ServiceKeeps DEF Scale
<1>13. CASE ExtraRun
  <2>1. PICK i \in Image : Launch(i)
    BY <1>13 DEF ExtraRun
  <2>2. launched \in Nat /\ launched' = launched + 1 /\ physical <= launched
    BY <1>1, <2>1, LaunchKeeps
       DEF DeploymentInductive, WaitsForItsRun, MigrationsInductive, MigrationsTypeOK
  <2>3. physical # None => physical \in 1 .. launched
    BY <1>1, <2>2 DEF Run, None
  <2>4. physical # None => image'[physical] = image[physical] /\ step'[physical] = step[physical]
    BY <1>1, <2>1, <2>3, LaunchKeeps
  <2>5. revision \in Nat
    BY <1>1 DEF MigrationsInductive, MigrationsTypeOK
  <2>6. MigrationsInductive' /\ revision <= revision' /\ stopping' = stopping
    BY <1>1, <2>1, <2>5, LaunchKeeps
  <2>7. /\ UNCHANGED <<stack, deployed, target, physical, waited>> /\ running' = running
        /\ UNCHANGED serviceVars /\ launched <= launched'
    BY <1>13, <2>2 DEF ExtraRun, stackVars, clockVars
  <2>8. used' \in Usage
    BY <1>1, <1>13, UsedUp DEF ExtraRun
  <2>9. physical # None /\ ~Started(physical) => ~Started(physical)'
    BY <2>4, <2>7 DEF Started
  <2> QED BY <2>4, <2>6, <2>7, <2>8, <2>9, RunsKeep
<1>14. CASE MigrationProceeds
  <2>1. PICK r \in Run :
          /\ MigrationStep(r)
          /\ running' = IF r = physical /\ step'[r] = "starting" THEN 0 ELSE running
    BY <1>14 DEF MigrationProceeds
  <2>2. launched \in Nat
    BY <1>1 DEF MigrationsInductive, MigrationsTypeOK
  <2>3. /\ UNCHANGED <<stack, deployed, target, physical, waited>> /\ running' \in {0, running}
        /\ UNCHANGED serviceVars /\ used' = used
    BY <1>14, <2>1 DEF MigrationProceeds
  <2>4. /\ MigrationsInductive' /\ revision <= revision'
        /\ UNCHANGED <<launched, image, stopping>> /\ launched <= launched'
    BY <1>1, <2>1, <2>2, MigrationKeeps
  <2>5. physical # None /\ ~Started(physical) => ~Started(physical)'
    <3>1. \A s \in Run : ~Started(s) => ~(step'[s] \notin {"unused"} \cup Stopped)
      BY <1>1, <2>1, MigrationKeeps DEF Started
    <3> QED BY <1>1, <2>3, <3>1 DEF Started
  <2> QED BY <1>1, <2>3, <2>4, <2>5, RunsKeep
<1>15. CASE UNCHANGED vars
  <2>1. launched \in Nat /\ revision \in Nat
    BY <1>1 DEF MigrationsInductive, MigrationsTypeOK
  <2>2. MigrationsInductive'
    BY <1>1, <1>15 DEF vars, migrationVars, MigrationsInductive, MigrationsTypeOK, RunFits
  <2>3. /\ UNCHANGED <<stack, deployed, target, physical, waited>> /\ running' = running
        /\ UNCHANGED serviceVars /\ UNCHANGED migrationVars /\ used' = used
    BY <1>15 DEF vars, stackVars, clockVars
  <2>4. /\ launched <= launched' /\ revision <= revision' /\ stopping' = stopping
        /\ image' = image /\ (~Started(physical) => ~Started(physical)')
    BY <2>1, <2>3 DEF migrationVars, Started
  <2> QED BY <1>1, <2>2, <2>3, <2>4, RunsKeep
<1> QED
  BY <1>2, <1>3, <1>4, <1>5, <1>6, <1>7, <1>8, <1>9, <1>10, <1>11, <1>12, <1>13, <1>14, <1>15,
     <1>16, <1>17 DEF Next, AtRest

(* The invariant holds in every reachable state.                           *)
THEOREM DeploymentInvariant == Spec => []DeploymentInductive
BY DeploymentInit, DeploymentStep, PTL DEF Spec

-----------------------------------------------------------------------------
(* Every variable keeps its type; autoscaling stays between its limits.    *)
THEOREM DeploymentTypes == Spec => []TypeOK
<1>1. DeploymentInductive => TypeOK
  BY DEF DeploymentInductive
<1> QED BY <1>1, DeploymentInvariant, PTL

(* No task runs against a schema that was not brought forward to what its  *)
(* image expects.                                                          *)
THEOREM TasksFindTheirSchema == Spec => []NoTaskAheadOfSchema
<1>1. DeploymentInductive => NoTaskAheadOfSchema
  BY DEF DeploymentInductive
<1> QED BY <1>1, DeploymentInvariant, PTL

(* Who applies revisions applies exactly those the database lacks.         *)
THEOREM AppliedOnce == Spec => []PlanIsCurrent
<1>1. DeploymentInductive => PlanIsCurrent
  BY DEF DeploymentInductive, MigrationsInductive, RunFits, PlanIsCurrent
<1> QED BY <1>1, DeploymentInvariant, PTL

(* Unless ECS failed to answer, a migration that is given up while it goes *)
(* on is being stopped, or was pending for so long that the provider's     *)
(* patience ended before the handler's deadline.                           *)
THEOREM GivenUpIsStopped == Spec => StoppedBeforeGivenUp
<1>1. DeploymentInductive /\ [Next]_vars
        => [GivenUpRunning /\ used'.unanswered = used.unanswered
              => physical \in stopping' \/ PendingTooLong]_vars
  <2> SUFFICES ASSUME DeploymentInductive, Next, GivenUpRunning,
                      used'.unanswered = used.unanswered
               PROVE  physical \in stopping' \/ PendingTooLong
    OBVIOUS
  <2>1. /\ stack \in Waiting /\ stack' \notin Waiting /\ Started(physical)'
        /\ TypeOK /\ ClockFits
    BY DEF GivenUpRunning, DeploymentInductive
  <2>2. used.unanswered \in Nat /\ waited \in Int /\ running \in Int
    BY <2>1, LimitsAreNumbers DEF TypeOK, Usage
  <2>3. Poll \/ PollUnanswered \/ ProviderTimesOut
    <3>1. stack' # stack /\ stack \notin {"stable", "rollback", "cleanup", "rolling", "restoring"}
      BY <2>1 DEF Waiting
    <3> QED BY <3>1
            DEF Next, Deploy, Tick, Revert, DeleteStack, DeleteReplaced, StartTask, StopTask, Rolled,
                BreakerTrips, Scale, ExtraRun, MigrationProceeds, AtRest, vars, stackVars
  <2>4. step' = step /\ physical' = physical
    BY <2>3 DEF Poll, PollUnanswered, ProviderTimesOut, GiveUp, EndWait
  <2>5. Started(physical)
    BY <2>1, <2>4 DEF Started
  <2>6. CASE Poll
    <3>1. Verdict # "complete"
      BY <2>5 DEF Verdict
    <3> QED BY <2>5, <2>6, <3>1 DEF Poll, StopOverdue
  <2>7. CASE PollUnanswered
    <3>1. used'.unanswered = used.unanswered + 1
      BY <2>1, <2>7 DEF PollUnanswered, TypeOK, Usage
    <3> QED BY <2>2, <3>1
  <2>8. CASE ProviderTimesOut
    <3>1. waited = TotalTimeout /\ running <= Deadline + 1
      BY <2>1, <2>5, <2>8 DEF ProviderTimesOut, ClockFits
    <3> QED BY <2>2, <3>1, LimitsAreNumbers DEF PendingTooLong
  <2> QED BY <2>3, <2>6, <2>7, <2>8
<1> QED BY <1>1, DeploymentInvariant, PTL DEF Spec, StoppedBeforeGivenUp

(* No step takes the schema back.                                          *)
THEOREM NeverDowngraded == Spec => SchemaOnlyForward
<1>1. DeploymentInductive /\ [Next]_vars => [revision <= revision']_vars
  <2> SUFFICES ASSUME DeploymentInductive, Next PROVE revision <= revision'
    OBVIOUS
  <2>1. MigrationsInductive /\ revision \in Nat
    BY DEF DeploymentInductive, MigrationsInductive, MigrationsTypeOK
  <2>2. CASE MigrationProceeds
    BY <2>1, <2>2, MigrationKeeps DEF MigrationProceeds
  <2>3. CASE ~MigrationProceeds
    <3>1. revision' = revision
      BY <2>3 DEF Next, Deploy, StartMigration, Launch, Poll, PollUnanswered,
                  ProviderTimesOut, GiveUp, EndWait, Tick, Revert, DeleteStack, DeleteReplaced,
                  StartTask, StopTask, Rolled, BreakerTrips, Scale, ExtraRun, AtRest, vars, migrationVars
    <3> QED BY <2>1, <3>1
  <2> QED BY <2>2, <2>3
<1> QED BY <1>1, DeploymentInvariant, PTL DEF Spec, SchemaOnlyForward
=============================================================================
