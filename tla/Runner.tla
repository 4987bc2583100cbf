-------------------------------- MODULE Runner --------------------------------
(***************************************************************************)
(* The life of a run in the tf-apply service, from the trigger that admits *)
(* it to the drop of its guard, together with the start, the crash and the *)
(* start-up reconciliation of the process that executes it:                *)
(*   routes.rs  apply, execute_run, finalize_outcome, finalize             *)
(*   runner.rs  run, classify                                              *)
(*   locks.rs   LockRegistry (instantiated), the status record,            *)
(*              reconcile_on_startup                                       *)
(*   main.rs    reconcile, then bind, then serve                           *)
(*                                                                         *)
(* One action per stretch of code between two points where something else  *)
(* can run or the process can die.  A status file is written with a rename *)
(* and is one atomic register per run as long as it has one writer at a    *)
(* time, which StatusFile shows; two writers share a temporary file, and   *)
(* what they leave is open (mixed).  Every write and every task emission   *)
(* may fail, which the code logs and goes on.                              *)
(***************************************************************************)
EXTENDS Naturals, FiniteSets

CONSTANTS Processes,          \* instances of the service on this runs directory
          Dirs, Runs, NoRun, NoDir, MaxConcurrentRuns,   \* as in LockRegistry
          MaxRetries,         \* STATE_LOCK_MAX_RETRIES
          MaxCrashes,         \* bound: how often a process dies
          MaxLost,            \* bound: how many file operations fail
          MaxPanics,          \* bound: how many run tasks panic
          Overlap,            \* may an instance start while another is up?
          Supervised          \* does a supervisor kill the terraform children
                              \* of a process that died (systemd, a container)?

ASSUME RegistryAssumption ==
    /\ IsFiniteSet(Runs) /\ NoRun \notin Runs
    /\ IsFiniteSet(Dirs) /\ NoDir \notin Dirs
    /\ MaxConcurrentRuns \in Nat
ASSUME RetriesAssumption == MaxRetries \in Nat
ASSUME BoundsAssumption ==
    MaxCrashes \in Nat /\ MaxLost \in Nat /\ MaxPanics \in Nat
ASSUME DeploymentAssumption == Overlap \in BOOLEAN /\ Supervised \in BOOLEAN

VARIABLES inflight, sem, guard, lockDir    \* the LockRegistry of the server

Reg == INSTANCE LockRegistry

VARIABLES
    phase,     \* phase[p]: "down", "reconciling" or "serving"
    walk,      \* walk[p]: the entries reconcile_on_startup has still to visit
    stale,     \* stale[p]: the record it has read and is about to rewrite
    applies,   \* applies[r]: the `apply` flag of the trigger
    stage,     \* stage[r]: how far the handler or the task of r has come
    retries,   \* retries[r]: retries_left
    alive,     \* the runs whose terraform process is running
    exit,      \* exit[r]: how the last terraform of r ended
    outcome,   \* outcome[r]: what the driver made of it
    status,    \* status[r]: `state` in runs/<r>.status, "absent", or "torn"
               \* where the file is there and does not parse
    task,      \* task[r]: the pipeline task emitted for r, or "none"
    crashes,   \* number of process deaths so far
    lost,      \* <<r, what>>: the file operations that failed so far
    mixed      \* mixed[r]: the states that writers who have <r>.status.tmp
               \* open at once are writing, {} if none are

registry == <<inflight, sem, guard, lockDir>>
process  == <<phase, walk, stale>>
driver   == <<retries, alive, exit, outcome>>
disk     == <<status, task, lost, mixed>>
vars     == <<registry, process, applies, stage, driver, disk, crashes>>

-------------------------------------------------------------------------------
\* Data.

\* What terraform leaves behind: its exit code, where 1 stands for every code
\* but 0 and 2 and for a death by signal, and whether its last output holds the
\* diagnostic "Error acquiring the state lock".
Exits  == {<<0, FALSE>>, <<2, FALSE>>, <<1, FALSE>>, <<1, TRUE>>}
NoExit == <<3, FALSE>>

Outcomes == {"ApplySuccess", "PlanNoChanges", "PlanChanges", "StateLock",
             "ConfigError", "DriverError"}

\* Faulty variant: the apply flag is not consulted on success.
Classify_IgnoresApply(apply, e) ==
    CASE e[1] = 0         -> "PlanNoChanges"
      [] e[1] = 2         -> "PlanChanges"
      [] e[1] = 1 /\ e[2] -> "StateLock"
      [] OTHER            -> "ConfigError"

\* How an exit is read: 2 means changes whether or not this was a plan.
Classify(apply, e) ==
    CASE e[1] = 0 /\ apply  -> "ApplySuccess"
      [] e[1] = 0 /\ ~apply -> "PlanNoChanges"
      [] e[1] = 2           -> "PlanChanges"
      [] e[1] = 1 /\ e[2]   -> "StateLock"
      [] OTHER              -> "ConfigError"

\* Faulty variant: an unresolved lock is recorded like a broken configuration.
StateOf_Coarse(o) ==
    CASE o = "ApplySuccess"  -> "apply_success"
      [] o = "PlanNoChanges" -> "plan_no_changes"
      [] o = "PlanChanges"   -> "plan_changes"
      [] o \in {"ConfigError", "StateLock"} -> "config_error"
      [] OTHER               -> "driver_error"

\* The `state` string an outcome is recorded under.
StateOf(o) ==
    CASE o = "ApplySuccess"  -> "apply_success"
      [] o = "PlanNoChanges" -> "plan_no_changes"
      [] o = "PlanChanges"   -> "plan_changes"
      [] o = "ConfigError"   -> "config_error"
      [] o = "StateLock"     -> "state_lock_unresolved"
      [] OTHER               -> "driver_error"

\* Faulty variant: an unresolved lock is handed to nobody.
TaskOf_ConfigOnly(o) == IF o = "ConfigError" THEN "config" ELSE "none"

\* The pipeline task an outcome calls for.
TaskOf(o) ==
    CASE o = "ConfigError" -> "config"
      [] o = "StateLock"   -> "stale_lock"
      [] OTHER             -> "none"

States == {StateOf(o) : o \in Outcomes} \cup {"absent", "torn", "running", "interrupted"}

\* A file that does not parse is no record: it is neither polled nor rewritten.
Readable(s) == s \notin {"absent", "torn"}

IsTerminal(s) == Readable(s) /\ s # "running"

\* The stages of a run.  "admitted" and "persisted" are the handler; "ready",
\* "executing", "exited", "backoff", "concluded", "emitted" and "finalized" are
\* the task; "panicked" is the task unwinding; "lost" ended with its process.
Stages == {"unborn", "admitted", "persisted", "ready", "executing", "exited",
           "backoff", "concluded", "emitted", "finalized", "panicked", "lost"}

\* The file operations that may fail, by what they would have written.
Writes == {"running", "task", "terminal", "reconcile"}

\* The handler or the task of r still has something to do before it drops the
\* guard.
InFlight(r) == stage[r] \notin {"unborn", "finalized", "panicked", "lost"}

Serving == \E p \in Processes : phase[p] = "serving"

-------------------------------------------------------------------------------
Init ==
    /\ Reg!Init
    /\ phase = [p \in Processes |-> "down"]
    /\ walk = [p \in Processes |-> {}]
    /\ stale = [p \in Processes |-> NoRun]
    /\ applies = [r \in Runs |-> FALSE]
    /\ stage = [r \in Runs |-> "unborn"]
    /\ retries = [r \in Runs |-> MaxRetries]
    /\ alive = {}
    /\ exit = [r \in Runs |-> NoExit]
    /\ outcome = [r \in Runs |-> "none"]
    /\ status = [r \in Runs |-> "absent"]
    /\ task = [r \in Runs |-> "none"]
    /\ crashes = 0
    /\ lost = {}
    /\ mixed = [r \in Runs |-> {}]

\* A file operation of r fails; MaxLost bounds how often.
Lose(r, what) ==
    /\ Cardinality(lost) < MaxLost
    /\ lost' = lost \cup {<<r, what>>}

Goto(r, from, to) ==
    /\ stage[r] = from
    /\ stage' = [stage EXCEPT ![r] = to]

\* What the writers of the record of r are about to write: the instances that
\* rewrite it, and its task.  The handler writes before there is a record to rewrite.
InHand(r) ==
    {s \in {"interrupted"} : \E p \in Processes : stale[p] = r}
        \cup {s \in {StateOf(outcome[r])} : stage[r] = "emitted"}

\* Two of them are at it.
Contended(r) ==
    \E p \in Processes :
        /\ stale[p] = r
        /\ stage[r] = "emitted" \/ \E q \in Processes \ {p} : stale[q] = r

\* The one that renames first takes the file of the others with it, who go on
\* writing under the final name.
Published(r) == status[r] \in mixed[r] \cup {"torn"}

\* What the rename of s leaves on record: s; or, if others had the file open too,
\* what they wrote, a mixture, or what the one who was first has published.
Left(r, s) ==
    IF s \notin mixed[r]
    THEN {s}
    ELSE {s, "torn"} \cup IF Published(r) THEN {status[r]} ELSE mixed[r]

\* The mixture of r is over when none of those who were in it is still writing.
StillMixed(r) == IF mixed[r] \cap InHand(r)' = {} THEN {} ELSE mixed[r]

\* write_status: the record is replaced, or the write fails and the old record
\* stays; the caller logs the error and continues in both cases.
Record(r, s, what) ==
    /\ \/ \E left \in Left(r, s) : status' = [status EXCEPT ![r] = left] /\ UNCHANGED lost
       \/ Lose(r, what) /\ UNCHANGED status
    /\ mixed' = [mixed EXCEPT ![r] = StillMixed(r)]

-------------------------------------------------------------------------------
\* The handler of POST /apply, after the token, the body and the directory have
\* been accepted.  It has no await point, so only the process can cut it short.

\* A trigger for d is admitted as run r.
Admit(d, r, apply) ==
    /\ Serving
    /\ Reg!Admit(d, r)
    /\ Goto(r, "unborn", "admitted")
    /\ applies' = [applies EXCEPT ![r] = apply]
    /\ UNCHANGED <<process, driver, disk, crashes>>

\* The record "running" is written before the caller is answered.
PersistRunning(r) ==
    /\ Goto(r, "admitted", "persisted")
    /\ UNCHANGED <<registry, process, applies, driver, task, crashes>>
    /\ Record(r, "running", "running")

\* Faulty variants: the task drops the guard at once (`let _ = guard` where the
\* code has `let _guard = guard`); the task is spawned and the caller answered
\* whether or not the record is written.
SpawnTask_DropsGuard(r) ==
    /\ Goto(r, "persisted", "ready")
    /\ inflight' = [inflight EXCEPT ![lockDir[r]] = NoRun]
    /\ sem' = sem + 1
    /\ guard' = [guard EXCEPT ![r] = "gone"]
    /\ UNCHANGED <<lockDir, process, applies, driver, disk, crashes>>

SpawnTask_Unrecorded(r) ==
    /\ \E at \in {"admitted", "persisted"} : Goto(r, at, "ready")
    /\ UNCHANGED <<registry, process, applies, driver, disk, crashes>>

\* The guard moves into the spawned task and the caller gets the run id.
SpawnTask(r) ==
    /\ Goto(r, "persisted", "ready")
    /\ UNCHANGED <<registry, process, applies, driver, disk, crashes>>

-------------------------------------------------------------------------------
\* The run task: execute_run around runner::run.

StartTerraform(r) ==
    /\ Goto(r, "ready", "executing")
    /\ alive' = alive \cup {r}
    /\ UNCHANGED <<registry, process, applies, retries, exit, outcome, disk, crashes>>

\* runs/ cannot be created or terraform cannot be spawned.
SpawnFails(r) ==
    /\ Goto(r, "ready", "concluded")
    /\ outcome' = [outcome EXCEPT ![r] = "DriverError"]
    /\ UNCHANGED <<registry, process, applies, retries, alive, exit, disk, crashes>>

\* The environment: terraform ends in whatever way it ends.
TerraformExit(r, e) ==
    /\ r \in alive
    /\ Goto(r, "executing", "exited")
    /\ alive' = alive \ {r}
    /\ exit' = [exit EXCEPT ![r] = e]
    /\ UNCHANGED <<registry, process, applies, retries, outcome, disk, crashes>>

\* Faulty variant: the retry budget is not looked at.
Collect_Unbounded(r) ==
    /\ IF Classify(applies[r], exit[r]) = "StateLock"
       THEN Goto(r, "exited", "backoff") /\ UNCHANGED outcome
       ELSE /\ Goto(r, "exited", "concluded")
            /\ outcome' = [outcome EXCEPT ![r] = Classify(applies[r], exit[r])]
    /\ UNCHANGED <<registry, process, applies, retries, alive, exit, disk, crashes>>

\* A state lock with retries left is slept on, anything else is the result.
Collect(r) ==
    /\ IF Classify(applies[r], exit[r]) = "StateLock" /\ retries[r] > 0
       THEN Goto(r, "exited", "backoff") /\ UNCHANGED outcome
       ELSE /\ Goto(r, "exited", "concluded")
            /\ outcome' = [outcome EXCEPT ![r] = Classify(applies[r], exit[r])]
    /\ UNCHANGED <<registry, process, applies, retries, alive, exit, disk, crashes>>

\* A drain failed (log file, a line that is not UTF-8): the exit is discarded.
DrainFails(r) ==
    /\ Goto(r, "exited", "concluded")
    /\ outcome' = [outcome EXCEPT ![r] = "DriverError"]
    /\ UNCHANGED <<registry, process, applies, retries, alive, exit, disk, crashes>>

\* The backoff has elapsed.
Retry(r) ==
    /\ Goto(r, "backoff", "ready")
    /\ retries' = [retries EXCEPT ![r] = @ - 1]
    /\ UNCHANGED <<registry, process, applies, alive, exit, outcome, disk, crashes>>

\* finalize_outcome: a failure is handed to a pipeline task before the record
\* is written, every other outcome goes straight to finalize.
EmitTask(r) ==
    /\ Goto(r, "concluded", "emitted")
    /\ IF TaskOf(outcome[r]) = "none"
       THEN UNCHANGED <<task, lost>>
       ELSE \/ task' = [task EXCEPT ![r] = TaskOf(outcome[r])] /\ UNCHANGED lost
            \/ Lose(r, "task") /\ UNCHANGED task
    /\ UNCHANGED <<registry, process, applies, driver, status, mixed, crashes>>

Finalize(r) ==
    /\ Goto(r, "emitted", "finalized")
    /\ UNCHANGED <<registry, process, applies, driver, task, crashes>>
    /\ Record(r, StateOf(outcome[r]), "terminal")

\* Two writers have the temporary file of r open at the same time, or one more
\* joins them.
Meet(r) ==
    /\ Contended(r)
    /\ ~(InHand(r) \subseteq mixed[r])
    /\ mixed' = [mixed EXCEPT ![r] = @ \cup InHand(r)]
    /\ UNCHANGED <<registry, process, applies, stage, driver, status, task, lost, crashes>>

\* One that was not the first to rename writes on into the published file.  For
\* three writers at once this allows more than the files would.
Scribble(r) ==
    /\ mixed[r] # {} /\ Published(r)
    /\ \E s \in (InHand(r) \cap mixed[r]) \cup {"torn"} :
          status' = [status EXCEPT ![r] = s]
    /\ UNCHANGED <<registry, process, applies, stage, driver, task, lost, mixed, crashes>>

\* The task's own code panics (it has no child at any of these points), but not
\* within write_status, which returns its errors.
Panicked == {r \in Runs : stage[r] = "panicked"}

TaskPanic(r) ==
    /\ Cardinality(Panicked) < MaxPanics
    /\ \E at \in {"ready", "exited", "concluded", "emitted"} : Goto(r, at, "panicked")
    /\ stage[r] = "emitted" => StateOf(outcome[r]) \notin mixed[r]
    /\ UNCHANGED <<registry, process, applies, driver, disk, crashes>>

\* Faulty variants: the guard is released before the terminal record is written;
\* it is released by hand at the end, which a panic skips.
DropEntry_BeforeRecord(r) ==
    /\ stage[r] \in {"emitted", "finalized", "panicked"}
    /\ Reg!DropEntry(r)
    /\ UNCHANGED <<process, applies, stage, driver, disk, crashes>>

DropEntry_NotOnPanic(r) ==
    /\ stage[r] = "finalized"
    /\ Reg!DropEntry(r)
    /\ UNCHANGED <<process, applies, stage, driver, disk, crashes>>

\* The end of the task, normal or unwinding, drops the guard.
DropEntry(r) ==
    /\ stage[r] \in {"finalized", "panicked"}
    /\ Reg!DropEntry(r)
    /\ UNCHANGED <<process, applies, stage, driver, disk, crashes>>

DropPermit(r) ==
    /\ Reg!DropPermit(r)
    /\ UNCHANGED <<process, applies, stage, driver, disk, crashes>>

-------------------------------------------------------------------------------
\* Processes.

\* Faulty variant: a serving instance reconciles again, beside its own tasks.
Start_Reload(p) ==
    /\ phase[p] \in {"down", "serving"}
    /\ Overlap \/ \A q \in Processes \ {p} : phase[q] = "down"
    /\ phase' = [phase EXCEPT ![p] = "reconciling"]
    /\ walk' = [walk EXCEPT ![p] = {r \in Runs : status[r] # "absent"}]
    /\ UNCHANGED <<registry, stale, applies, stage, driver, disk, crashes>>

\* A new instance lists runs/.  Entries that a live server adds during the walk
\* may be returned by the directory stream or not; a directory that cannot be
\* read is passed over with all its records.
Start(p) ==
    /\ phase[p] = "down"
    /\ Overlap \/ \A q \in Processes : phase[q] = "down"
    /\ phase' = [phase EXCEPT ![p] = "reconciling"]
    /\ LET entries == {r \in Runs : status[r] # "absent"} IN
          \/ /\ \E late \in SUBSET {r \in Runs \ entries : Serving} :
                    walk' = [walk EXCEPT ![p] = entries \cup late]
             /\ UNCHANGED lost
          \/ /\ Cardinality(lost) < MaxLost
             /\ lost' = lost \cup (entries \X {"reconcile"})
             /\ UNCHANGED walk
    /\ UNCHANGED <<registry, stale, applies, stage, driver, status, task, mixed, crashes>>

\* Faulty variants: every record is rewritten; none is.
ReconcileRead_Unfiltered(p, r) ==
    /\ phase[p] = "reconciling"
    /\ stale[p] = NoRun
    /\ r \in walk[p]
    /\ walk' = [walk EXCEPT ![p] = @ \ {r}]
    /\ stale' = [stale EXCEPT ![p] = r]
    /\ UNCHANGED <<registry, phase, applies, stage, driver, disk, crashes>>

ReconcileRead_SkipsAll(p, r) ==
    /\ phase[p] = "reconciling"
    /\ stale[p] = NoRun
    /\ r \in walk[p]
    /\ walk' = [walk EXCEPT ![p] = @ \ {r}]
    /\ UNCHANGED <<registry, phase, stale, applies, stage, driver, disk, crashes>>

\* One entry is read: a terminal record is left alone, a "running" one is to be
\* rewritten, and one that cannot be read is skipped.
ReconcileRead(p, r) ==
    /\ phase[p] = "reconciling"
    /\ stale[p] = NoRun
    /\ r \in walk[p]
    /\ walk' = [walk EXCEPT ![p] = @ \ {r}]
    /\ IF status[r] = "running"
       THEN \/ stale' = [stale EXCEPT ![p] = r] /\ UNCHANGED lost
            \/ Lose(r, "reconcile") /\ UNCHANGED stale
       ELSE UNCHANGED <<stale, lost>>
    /\ UNCHANGED <<registry, phase, applies, stage, driver, status, task, mixed, crashes>>

\* The copy just read is written back as "interrupted".
ReconcileWrite(p, r) ==
    /\ phase[p] = "reconciling"
    /\ stale[p] = r
    /\ stale' = [stale EXCEPT ![p] = NoRun]
    /\ UNCHANGED <<registry, phase, walk, applies, stage, driver, task, crashes>>
    /\ Record(r, "interrupted", "reconcile")

\* Faulty variant: the port is bound while the walk is still going on.
Reconciled_Always(p) == phase[p] = "reconciling"

Reconciled(p) == phase[p] = "reconciling" /\ walk[p] = {} /\ stale[p] = NoRun

\* After the walk the port is bound; the registry of this process is new.
Serve(p) ==
    /\ Reconciled(p)
    /\ ~Serving
    /\ phase' = [phase EXCEPT ![p] = "serving"]
    /\ UNCHANGED <<registry, walk, stale, applies, stage, driver, disk, crashes>>

\* The port is taken: main returns the error, after the walk.
BindFails(p) ==
    /\ Reconciled(p)
    /\ Serving
    /\ phase' = [phase EXCEPT ![p] = "down"]
    /\ UNCHANGED <<registry, walk, stale, applies, stage, driver, disk, crashes>>

\* Faulty variant: the terraform children always survive.
Crash_LeavesChildren(p) ==
    /\ phase[p] # "down"
    /\ crashes < MaxCrashes
    /\ crashes' = crashes + 1
    /\ phase' = [phase EXCEPT ![p] = "down"]
    /\ walk' = [walk EXCEPT ![p] = {}]
    /\ stale' = [stale EXCEPT ![p] = NoRun]
    /\ IF phase[p] = "serving"
       THEN /\ Reg!Restart
            /\ stage' = [r \in Runs |-> IF InFlight(r) THEN "lost" ELSE stage[r]]
       ELSE UNCHANGED <<registry, stage>>
    /\ UNCHANGED <<applies, driver, status, task, lost>>
    /\ mixed' = [r \in Runs |-> StillMixed(r)]

\* A process dies.  No destructor runs, so kill_on_drop does not: a terraform
\* child ends with a server only if the supervisor kills it too.
Crash(p) ==
    /\ phase[p] # "down"
    /\ crashes < MaxCrashes
    /\ crashes' = crashes + 1
    /\ phase' = [phase EXCEPT ![p] = "down"]
    /\ walk' = [walk EXCEPT ![p] = {}]
    /\ stale' = [stale EXCEPT ![p] = NoRun]
    /\ IF phase[p] = "serving"
       THEN /\ Reg!Restart
            /\ stage' = [r \in Runs |-> IF InFlight(r) THEN "lost" ELSE stage[r]]
            /\ alive' = IF Supervised THEN {} ELSE alive
       ELSE UNCHANGED <<registry, stage, alive>>
    /\ UNCHANGED <<applies, retries, exit, outcome, status, task, lost>>
    /\ mixed' = [r \in Runs |-> StillMixed(r)]

\* The environment: a terraform that outlived its server ends.
OrphanExit(r) ==
    /\ r \in alive
    /\ stage[r] = "lost"
    /\ alive' = alive \ {r}
    /\ UNCHANGED <<registry, process, applies, stage, retries, exit, outcome, disk, crashes>>

-------------------------------------------------------------------------------
\* The end of every scenario: the run ids of the model are used up, all runs are
\* over, and the server waits for triggers that do not come.
Idle ==
    /\ Serving
    /\ alive = {}
    /\ \A r \in Runs : guard[r] = "gone"
    /\ UNCHANGED vars

HandlerStep(r) == PersistRunning(r) \/ SpawnTask(r)

TaskStep(r) ==
    \/ StartTerraform(r)
    \/ SpawnFails(r)
    \/ Collect(r)
    \/ DrainFails(r)
    \/ Retry(r)
    \/ EmitTask(r)
    \/ Finalize(r)
    \/ DropEntry(r)
    \/ DropPermit(r)

TerraformStep(r) == OrphanExit(r) \/ \E e \in Exits : TerraformExit(r, e)

SharedWrite(r) == Meet(r) \/ Scribble(r)

StartupStep(p) ==
    \/ Start(p)
    \/ \E r \in Runs : ReconcileRead(p, r) \/ ReconcileWrite(p, r)
    \/ Serve(p)
    \/ BindFails(p)

Next ==
    \/ \E d \in Dirs, r \in Runs, apply \in BOOLEAN : Admit(d, r, apply)
    \/ \E r \in Runs : HandlerStep(r) \/ TaskStep(r) \/ TerraformStep(r) \/ TaskPanic(r)
    \/ \E r \in Runs : SharedWrite(r)
    \/ \E p \in Processes : StartupStep(p) \/ Crash(p)
    \/ Idle

Spec == Init /\ [][Next]_vars

\* The runtime polls every task and handler that can go on, the supervisor
\* restarts a dead process (Restart=on-failure), and terraform does not run for
\* ever: the code sets no timeout, so that last one is an assumption about the
\* environment.  Nothing obliges a caller to trigger or a process to die.
Fairness ==
    /\ \A r \in Runs :
          WF_vars(HandlerStep(r)) /\ WF_vars(TaskStep(r)) /\ WF_vars(TerraformStep(r))
    /\ \A p \in Processes : WF_vars(StartupStep(p))

FairSpec == Spec /\ Fairness

-------------------------------------------------------------------------------
\* Every variable keeps its type: the variables of the run and process, and
\* those of the registry.  `retries_left` is unsigned and decremented after the
\* backoff, so a run that backs off has budget left, or it would wrap.
RunTypeOK ==
    /\ phase \in [Processes -> {"down", "reconciling", "serving"}]
    /\ walk \in [Processes -> SUBSET Runs]
    /\ stale \in [Processes -> Runs \cup {NoRun}]
    /\ applies \in [Runs -> BOOLEAN]
    /\ stage \in [Runs -> Stages]
    /\ retries \in [Runs -> 0..MaxRetries]
    /\ \A r \in Runs : stage[r] = "backoff" => retries[r] > 0
    /\ alive \in SUBSET Runs
    /\ exit \in [Runs -> Exits \cup {NoExit}]
    /\ outcome \in [Runs -> Outcomes \cup {"none"}]
    /\ status \in [Runs -> States]
    /\ task \in [Runs -> {"none", "config", "stale_lock"}]
    /\ crashes \in 0..MaxCrashes
    /\ lost \in SUBSET (Runs \X Writes)
    /\ mixed \in [Runs -> SUBSET {s \in States : IsTerminal(s)}]

TypeOK == Reg!TypeOK /\ RunTypeOK

\* Two terraform processes never work in one directory, whatever the order of
\* triggers, retries, panics, crashes and restarts.
DirExclusive ==
    \A r, s \in alive : r # s => lockDir[r] # lockDir[s]

\* The service never runs more terraform processes than it has permits; the ones
\* that outlived an earlier server are out of its hands.
Orphans == {r \in alive : stage[r] = "lost"}

ConcurrencyCap == Cardinality(alive \ Orphans) <= Reg!Permits

\* The guard outlives the work: while the handler or the task of a run has
\* anything left to do, its guard is held, so the directory and the permit are
\* still its own when it starts terraform again or writes its record.  No terraform
\* works outside the task that started it, but for those that outlive their
\* server where no supervisor kills them.
GuardCoversRun ==
    /\ \A r \in Runs : InFlight(r) => guard[r] = "held"
    /\ \A r \in alive : stage[r] = "executing" \/ (stage[r] = "lost" /\ ~Supervised)

\* A run whose record may stay "running" for good: a file operation on the
\* record failed, or its task panicked.
Excused(r) ==
    \/ stage[r] = "panicked"
    \/ <<r, "terminal">> \in lost
    \/ <<r, "reconcile">> \in lost

\* Whoever polls a "running" record of a serving instance polls a live run, so
\* no record of an earlier process is left for a caller to wait on.
RunningRecordIsLive ==
    Serving => \A r \in Runs :
        status[r] = "running" => InFlight(r) \/ Excused(r)

\* The caller that has a run id finds the record: it is written before the id
\* is returned, nothing removes it, and it can be read.
AnsweredIsRecorded ==
    \A r \in Runs :
        stage[r] \notin {"unborn", "admitted", "lost"} /\ <<r, "running">> \notin lost
            => Readable(status[r])

\* "Write-then-rename for a single-writer-per-run model": the task of a run and a
\* reconciling instance, or two of these, never write one record at once.  It is what
\* StatusFile assumes of its writers.
SingleWriterPerRun == \A r \in Runs : ~Contended(r)

\* A record says what the LAST terraform of the run did, for the kind of run it
\* was, and gives up on a state lock only with the retry budget spent.
RecordMatchesExit ==
    \A r \in Runs :
        /\ status[r] = "apply_success" => applies[r] /\ exit[r] = <<0, FALSE>>
        /\ status[r] = "plan_no_changes" => ~applies[r] /\ exit[r] = <<0, FALSE>>
        /\ status[r] = "plan_changes" => exit[r] = <<2, FALSE>>
        /\ status[r] = "config_error" => exit[r] = <<1, FALSE>>
        /\ status[r] = "state_lock_unresolved" => exit[r] = <<1, TRUE>> /\ retries[r] = 0

\* A failure on record has its pipeline task, of the right kind, unless the
\* emission itself failed; and a task on file belongs to a run that failed so,
\* even if a crash kept the verdict off the record.
TaskBacksFailure ==
    \A r \in Runs :
        /\ status[r] = "config_error" => task[r] = "config" \/ <<r, "task">> \in lost
        /\ status[r] = "state_lock_unresolved" =>
              task[r] = "stale_lock" \/ <<r, "task">> \in lost
        /\ task[r] # "none" =>
              \/ status[r] = StateOf(outcome[r]) /\ task[r] = TaskOf(outcome[r])
              \/ ~IsTerminal(status[r])
              \/ status[r] = "interrupted"

\* "interrupted" is told only of a run that was cut short, or whose record could
\* not be brought up to date before its process died.
InterruptedOnlyAfterLoss ==
    \A r \in Runs : status[r] = "interrupted" =>
        stage[r] = "lost" \/ stage[r] = "panicked" \/ <<r, "terminal">> \in lost

\* No terraform is at work for a run that is reported as interrupted.
InterruptedMeansDead ==
    \A r \in Runs : status[r] = "interrupted" => r \notin alive

\* A terminal record is final: no later write, restart or reconciliation changes
\* what a caller was once told.
TerminalIsFinal ==
    [][\A r \in Runs : IsTerminal(status[r]) => status'[r] = status[r]]_vars

\* A record is settled when the run is over, no instance holds a copy of it, and it
\* can be read and is terminal.  From then on nothing rewrites it and nobody sets out
\* to, also where instances overlap: what a second instance can spoil is the record
\* of a run that is still at work, and no other.
Settled(r) ==
    /\ ~InFlight(r)
    /\ \A p \in Processes : stale[p] # r
    /\ IsTerminal(status[r])

SettledIsFinal ==
    [][\A r \in Runs : Settled(r) => Settled(r)' /\ status'[r] = status[r]]_vars

\* As the classifier documents it: 2 is the exit code of a PLAN that found
\* changes, an apply knows 0 and failure ("apply has no -detailed-exitcode").
\* The code reads 2 without looking at the flag.
PlanVerdictIsForPlans ==
    \A r \in Runs : status[r] = "plan_changes" => ~applies[r]

\* To a caller and to the pipeline every run keeps the contract: it is announced,
\* hands on one task at most, and gets one verdict that agrees with it, or is
\* declared interrupted, for good.
Contract == INSTANCE RunContract
ImplementsContract == Contract!Spec

\* Every admitted run gives its directory and its permit back, through panics, crashes
\* and failing file operations (RunReport's Concludes has the retries).
RunSettles ==
    \A r \in Runs : guard[r] = "held" ~> guard[r] = "gone"

\* A full registry is a passing state: 429 is answered for a while, never for
\* good, even with a cap configured as 0.
CapacityReturns == sem = 0 ~> sem > 0

\* The run a 409 names is one that can be polled: it is named from its admission
\* on, before its record is on disk, but the record follows, unless the process
\* dies first or the write of the record failed, which the handler logs and ignores.
ConflictIsRecorded ==
    \A d \in Dirs, r \in Runs :
        inflight[d] = r ~>
            \/ Readable(status[r])
            \/ stage[r] = "lost"
            \/ <<r, "running">> \in lost

\* Every "running" record becomes terminal, written by its task or, after a
\* crash, by the next process.
RecordSettles ==
    \A r \in Runs : status[r] = "running" ~> IsTerminal(status[r]) \/ Excused(r)

===============================================================================
