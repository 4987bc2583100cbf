# A verification model of tf-apply-runner

tf-apply-runner lets agents trigger `terraform plan` and `terraform apply` without
giving them credentials or terraform output. A long-lived service (`tf-apply`) runs
terraform in directories below configured roots; each agent has a small MCP server
(`tf-apply-mcp`, "the door") that forwards a trigger and returns a run id.

The TLA+ modules in this directory model the service and the door, TLC checks them
on small instances, and TLAPS proves their safety for every instance. Paths such as
`locks.rs:54` are below `src/tf-apply/src/`, `mcp/main.rs` is
`src/tf-apply-mcp/src/main.rs`.

## 1. The system

### Components

| Component | State | Operations | Modelled in |
|---|---|---|---|
| Lock registry, `locks.rs` 12-92 | map from canonical directory to run id (one mutex), a semaphore of permits, one `RunGuard` per admitted run | `new` (clamps the cap to at least 1), `admit` (409, then 429, else a guard), the drop of a guard | `AdmissionGate`, `LockRegistry` |
| Run lifecycle, `routes.rs` 63-269 | the stage of each run, `retries_left`, the detached task | `apply`, `execute_run`, `finalize_outcome`, `finalize`, `parse_lock_info` | `RunContract`, `Runner`; one run in detail in `RunReport` |
| Terraform driver, `runner.rs` | child process, its exit status, two pipes, the log file, the tail ring, the kept stderr | `run`, `classify`, `is_state_lock`, `tail_of` | `TerraformDrain`; as one attempt in `Runner` |
| Status records, `locks.rs` 94-175 | `runs/<id>.status` and `.status.tmp` | `write_status`, `read_status`, `reconcile_on_startup` | `RecordRegister`, `StatusFile`; as a register in `Runner` |
| Process start, `main.rs` | is an instance down, reconciling or serving; the canonical roots | reconcile, then bind, then serve; `canonicalize_roots` | `Runner`, `Door` (roots) |
| Task emitter, `emit.rs` | one task file per failed run | `emit_config_error`, `emit_stale_lock` | `RunReport`; as one step in `Runner`. Of the text only the tail and the named lock are kept |
| Request checks, `auth.rs`, `allowlist.rs` | none | `check_token`, `validate` | `Door` |
| MCP door, `mcp/main.rs` | one HTTP call per tool call | `tf_apply` | `Door` |
| Deployment (`deploy/`, `docker-compose.yml`) | - | restart on failure, kill the control group | constants `Supervised` and `Overlap`, fairness of start-up |
| Leak guard, compose wrapper | - | - | not modelled: developer tooling |

### How they interact

A tool call becomes a POST. The handler checks token, body and directory, asks the
registry for a guard, writes the record "running", spawns a task that owns the
guard, and answers with the run id. The task drives terraform (again after a
backoff while the state is locked and retries are left), emits a pipeline task for
a broken configuration or an unresolved lock, writes the terminal record, and ends;
its end drops the guard. Memory (registry, tasks, children) dies with the process;
the `runs/` directory survives and is the only thing a new process, or a second one
beside the first, shares with the old one.

### What is hard about it

* Handlers, tasks, guard drops and a second instance interleave. A guard is dropped
  in two steps: `RunGuard::drop` removes the map entry under the mutex, and the
  permit field is dropped only after the body has returned.
* The process can die between any two steps. No destructor runs then, so
  `kill_on_drop` does not act; whether terraform dies too is up to the supervisor.
* Each file operation can fail; the code logs the error and continues.
* Reconciliation reads a record and later writes it back, before the instance knows
  whether it owns the port.
* terraform writes to two pipes of bounded size, its plugins can hold them open after
  it has exited, and its verdict depends on the last lines of one and the first of the
  other.
* The attempts of a run share one log file, whose last line may still be in a buffer,
  and a task file is created and written in two steps under its final name.
* The door stops waiting after 30 s; the handler does not learn of it.

### What makes each part correct

* registry: a directory has one owner, permits are neither lost nor doubled, a
  refusal is true when it is given, and 429 passes (even with a cap of 0);
* lifecycle: the guard lives as long as the work, two terraform processes never share a
  directory, a record says what the last terraform did, a failure has its task, a
  terminal record is final, a "running" record belongs to a live run;
* driver: no order of writes and reads blocks, the verdict rests on the whole output;
* report: one task per run at most, for the last attempt, whole once the failure is on
  record;
* status file: a record has one writer at a time and is replaced as a whole or not at
  all; a settled one stays as it is;
* door: an answer is about the caller's own run, and a refusal left nothing behind.

The hazards behind these properties are listed one by one in `PROJECT.json`.

## 2. Modules

| Module | What it is |
|---|---|
| `AdmissionGate` | abstract specification of the registry: each directory has at most one holder, and grants respect a capacity |
| `LockRegistry` | `admit`, the two-step drop, the restart; `ImplementsGate` is the refinement |
| `LockRegistry_proofs` | proofs about it |
| `Runner` | the service: instantiates `LockRegistry`, adds handler, task, terraform, records, processes |
| `Runner_proofs` | proofs about it, reusing those of the registry: types, guards, exclusion, the cap |
| `RunnerRecords_proofs` | proofs about its records and tasks, and that it implements `RunContract` |
| `RecordRegister` | abstract specification of one status record: an atomic register |
| `StatusFile` | write-then-rename and read at system-call level; `ImplementsRegister` is the refinement |
| `StatusFile_proofs` | proofs about it |
| `RunContract` | abstract specification of a run as its caller and the pipeline see it; `Runner`'s `ImplementsContract` is the refinement |
| `TerraformDrain` | `runner::run` from spawn to result, with bounded pipes: the state and the steps of one attempt |
| `RunReport` | extends `TerraformDrain` with the retries around it, the task file and the record of one run |
| `TerraformDrain_proofs` | lemmas about sequences and about every step of an attempt |
| `RunReport_proofs` | proofs about a run, from those lemmas |
| `Door` | tool call, request checks, admission, answer; instantiates `LockRegistry` |
| `Door_proofs` | proofs about it, reusing those of the registry |
| `MC_*` | instances for TLC |

The layers fit together by refinement and by instantiation: `Runner` and `Door` take
every registry step from `LockRegistry`; `Runner` treats a record as the register
that `StatusFile` is shown to implement for one writer at a time, and leaves open what
two at once make of it, as `StatusFile` shows; `Runner` treats an attempt of terraform as
one exit with one flag, which `TerraformDrain` looks into, and the emission of a task as
one write, which `RunReport` looks into; `Runner` as a whole implements `RunContract`.

### How state and actions correspond to the code

**LockRegistry.** `inflight` is the map, `sem` the free permits, `guard[r]` where the
`RunGuard` of `r` is in its life, `lockDir[r]` its `dir` field. `Admit` is the
critical section of `admit`: both refusals are the other values of `Verdict` and
change nothing. `DropEntry` and `DropPermit` are the two halves of a drop. `Restart`
is the loss of the process and the `new()` of the next.

**Runner.** `stage[r]` is the program counter of the handler ("admitted",
"persisted") and then of the task ("ready" to "finalized"); "panicked" is a task
unwinding, "lost" a run whose process died. One action is the code between two
points where something else can run or the process can die. `applies`, `retries`,
`exit`, `outcome` are the locals of `execute_run`; `alive` is the set of terraform
processes; `status` and `task` are the files; `phase`, `walk` and `stale` are the
start-up of each instance. `lost` and `crashes` count injected faults.
`reconcile_on_startup` is `Start` (list the directory, or fail to and pass over all of
it), `ReconcileRead` and `ReconcileWrite` per entry. There is one registry, that of the
serving instance: the port admits one. Of a record only its `state` field is kept.

A record with one writer is an atomic register. Two writers have one `<id>.status.tmp`
(`locks.rs:130`): a reconciling instance and the task that finalizes, or two reconciling
instances. `Contended(r)` says that two of them are at it, `Meet` that both have the file
open, and `mixed[r]` what they are writing. What a rename then leaves (`Left`) is one of
the records they write, or "torn", a file that does not parse and that
`GET /status` answers with 404; who is late goes on writing into the published file
(`Scribble`). With three writers at once this allows more than the files would, never
less. `SingleWriterPerRun` says that none of it happens, and holds where instances do
not overlap.

**StatusFile.** Two names, inodes, and file descriptors that stay with their inode.
A record is two halves, so that a write or read can be interrupted in the middle.
`CutShort` is an error of a system call or the death of the process. `mixed` is history:
the records of writers who have met, kept until all of them have left.

**TerraformDrain.** A line is "text", "lock" (on stdout the error diagnostic, on stderr any
line with its summary), "warn" (on stdout a warning with that summary), "blank" (told
apart on stderr only, where a text of blank lines is not used as the tail) or "garbled"
(not UTF-8). `todo` is what terraform, or a plugin that outlives it, has still to write;
a pipe ends when nobody can write to it any more (`Closed(s)`), each on its own.
`DrainOut`, `DrainErr` are one turn of each drain task; `OpenLog` is the `File::create` in
the stdout task, which truncates the log of the attempt before; `unwritten` is the line tokio's `File` has accepted and writes in the background
(`LogWritten`), so that `DrainDone` of stdout, with its flush, waits for it. `Spawn`,
`Wait`, `JoinOut`, `JoinErr` are the driver, in the order of its awaits. The module has
state and steps but no `Spec` of its own: `RunReport` supplies it.

**RunReport.** `Retry` is the backoff and the next turn of the loop in `execute_run`;
`SkipTask`, `OpenTask`, `WriteTask`, `EmitFails` are `finalize_outcome` with the two
emitters, `Finalize` is `finalize`. A task file is absent, torn or whole; a whole one
has the tail and the line `parse_lock_info` takes the lock fields from. That is the first
diagnostic with the summary that has any of the fields, or else whatever line of the tail
has one; which lines have them is not modelled, so `LocksNamed` is any line of the tail
or none. A plaintext diagnostic on stderr counts as one line. `said` and `lost` are
history.

**RunContract.** Per run a record and a task: `Announce`, `HandOn`, `Settle`,
`Interrupt`. `Runner` maps to it with its own `status` and `task`.

**Door.** `handler[c]` is how far the service is with a call, `result[c]` what the tool
has returned. `GiveUp` is the timeout or a broken connection, at any moment;
`DeliverBroken` a success whose body breaks off. `Refusal` is `check_token` and
`validate` as one pure operator: a path is the sequence of its components, `Canon`
stands for `canonicalize` and is fixed during a behaviour, `Roots` is what
`canonicalize_roots` makes of `TF_ALLOWED_ROOTS`. `MC_Door` assumes the table of refusals
that the tests of `auth.rs` and `allowlist.rs` state, an unset token and an empty list of
roots included (`RefusalBy`), and TLC evaluates it. `Forget` is the HTTP server, which may
drop a request whose connection is closed before it is handled.

Definitions marked "Faulty variant" are plausible bugs of the code, one for each
checked property. They are used nowhere in the specifications. Putting one in the
place of its original must make TLC report the property, which shows that the
property can fail; the pairs are listed under "mutants" in `PROJECT.json`.

## 3. Runs

Run `tlc -config <cfg> <module>` in this directory. State counts are for orientation.

| Run | Config | What it shows | States |
|---|---|---|---|
| `registry` | `MC_LockRegistry.cfg` | types, guards and map agree, permits conserved, refusals true, refinement of `AdmissionGate` | 5 thousand |
| `runner` | `MC_Runner.cfg` | the safety of the whole service under crashes, a failed file operation and a panic, with one supervised instance; single writers; refinement of `RunContract` | 3.6 million |
| `runner_live` | `MC_Runner_live.cfg` | every run gives back what it holds, 429 passes, the run a 409 names gets its record, "running" records settle | 363 thousand |
| `runner_overlap` | `MC_Runner_overlap.cfg` | with a second instance, mixed records and surviving children: the cap on the service's own processes, and settled records stay | 1.6 million |
| `status_file` | `MC_StatusFile.cfg` | no torn record, refinement of `RecordRegister`, for one writer at a time | 522 thousand |
| `report` | `MC_RunReport.cfg` | no deadlock, no early verdict; log, tail, verdict, task and record of the whole output of the last attempt | 1.7 million |
| `door` | `MC_Door.cfg` | answers, refusals, aliases, timeouts | 212 thousand |
| `second_instance`, `orphan`, `apply_exit_2`, `warning_as_lock`, `lost_reply` | `MC_Runner_second.cfg`, `_orphan`, `_exit2`, `MC_RunReport_warn.cfg`, `MC_Door_lost.cfg` | expected violations, section 6 | |

### Bounds, and why they are enough

* `registry`: four runs, three directories, two permits. A 409, a 429 on a free
  directory and a trigger that meets a half-dropped guard while another run holds
  the other permit all occur. The proofs remove the bounds.
* `runner`: two runs suffice for every pairwise property (exclusion, overwritten
  records). `MaxCrashes` 2 lets the reconciliation itself be killed; `MaxRetries` 1
  gives a retry and an exhausted budget (the code has 3; the budget only counts
  down); `MaxLost` 1 puts one failing file operation in every place; `MaxPanics` 1
  likewise. The cap is 2 so that both runs can be at work. Symmetry is on for
  directories, runs and processes, which are only compared for equality.
* `runner_live`: cap 0 is the configuration the clamp exists for, so the second run
  depends on the first one giving its permit back. One crash, one panic and one failed
  file operation suffice to leave a run without any record (the write of "running"
  fails, then the task panics). `ConflictIsRecorded` excuses a run whose write of
  "running" failed, `RecordSettles` a record whose last write failed or whose task
  panicked: the code logs these and goes on. The loss of a task excuses neither.
  `MaxRetries` is 0 to keep the run small; that a run comes to an end through its retries
  is `Concludes` in `report`. No symmetry, since the properties are temporal.
* `runner_overlap`: two instances, one crash, children that survive, two runs in two
  directories under a cap of one.
* `status_file`: three records, two writers that take turns, one reader, four inodes
  (temporary, final, one held open by the reader, a spare). The model is finite
  without a bound, so any number of writes and of crashes is covered.
* `report`: pipes of one line, a tail of one, two kept lines of stderr, one retry, and
  in each attempt every script of up to three lines over both streams: long enough to
  fill a pipe, to push a diagnostic out of the tail and past the stderr cap, and to make
  the tail of stderr shorter than what is kept. Everything that counts is bounded by
  nature, so no fault needs a bound.
* `door`: three calls, two permits, one directory with two names, a root configured by a
  link. Every call has its own run id, as the code mints a fresh UUID for each trigger.
  Calls differ only in what they post; each has two or three requests to choose from,
  so that every pair of requests meets, a name of a directory with its other name,
  with itself, with another directory and with a refused request.

Deadlock is checked in every run. Where a scenario is over because the finite supply
of run ids or calls is used up, an explicit `Idle` step says so.

### Fairness

* `Runner`: weak fairness of each run's handler and task (the tokio runtime polls what
  can go on), of start-up (systemd `Restart=on-failure`, compose `unless-stopped`),
  and of terraform's end. The last is an assumption about the environment: the code
  sets no timeout, and a terraform that hangs holds its directory for ever. Triggers,
  crashes, panics, failing file operations and writers that meet are never forced.
* `RunReport`: weak fairness of terraform and its plugins, of each drain task, of the
  background write of the log, of the driver and of `execute_run`. An early exit, a kill,
  a failing file and a crash are not forced.
* `Door`: none. That a call ends is the timeout and nothing else, so nothing is said of it.

## 4. Proofs

`tlapm M.tla` checks each `*_proofs` module `M` to the last leaf. Every invariant and
every action property of the passing runs is a theorem there, and so are the three
refinements. The theorems hold for every value of the constants under the named
`ASSUME`s, which say that run ids and directories are finite sets without their "none"
values, that a run id (a UUID) is none of the words a tool call returns instead
(`RunIdAssumption`), that requests name paths and `Canon` maps paths, and that numbers are
numbers, positive where the code has a positive constant. Some theorems name a
deployment: `Supervised` (children die with the server), `~Overlap` (no second instance),
`SingleWriter`. Section 6 shows that the first two are needed.

* **Registry.** The inductive invariant `RegistryInv` is
  `TypeOK /\ GuardOwnsEntry /\ PermitsConserved`. `PermitsConserved` is not inductive
  without the rest: that `sem` stays in its range needs the count of outstanding
  guards, and that a drop frees the right entry needs `GuardOwnsEntry`, because the
  code removes an entry by directory and not by run. From it follow `VerdictSound`
  and the refinement `RegistryImplementsGate`; the capacity of the gate is respected
  because distinct entries belong to distinct outstanding guards.
* **Runner.** `RunnerInv` is the registry's invariant, `RunTypeOK` and
  `GuardCoversRun`. The service touches the registry only through its actions
  (`RegistryOnlyThroughActions`), so the registry's proof is reused by instantiation.
  `DirectoryExclusion`: two terraform processes in one directory would be covered by
  two guards that own one map entry. It assumes `Supervised`: with children that
  survive their server it is false. `CapRespected` needs no such assumption, since it
  counts the service's own processes, each of which has a guard and hence a permit.
* **Records and tasks of Runner.** Two more invariants. `LedgerInv` holds in every
  deployment: per run the outcome rests on the last exit, the task and the verdict on
  record rest on the outcome, what is mixed is what the run's own writers write, and an
  answered run has a file under the name of its record. It gives `RecordMatchesExit` and
  `TaskBacksFailure`; those alone are not inductive, since between the exit and the record
  the truth is only in `outcome`. It also gives the action property `SettledIsFinal`: once
  a run is over, no instance has a copy of its record in hand and the record is terminal,
  no step of any instance changes it.
  `SoloInv` holds under `~Overlap`: at most one instance is up, runs are in flight only
  while it serves, so reconciliation meets no live run, no two writers have a record in
  hand, and what reconciliation has read of a record (`stale`) is still what the record
  says when it writes (`WalkCovers`). It gives `SingleWriterPerRun` and with it
  `AnsweredIsRecorded`, then `RunningRecordIsLive`, `InterruptedOnlyAfterLoss`, the
  action property `TerminalIsFinal`, with `Supervised` also `InterruptedMeansDead`, and the refinement
  `ServiceKeepsContract`: each step of a run or of a starting process is a step of
  `RunContract` or changes neither record nor task.
* **Status file.** `FileInv` says which inode each name, writer and reader has:
  nobody writes to the file under the final name, a written temporary file holds one
  whole record, and a reader's inode does not change. `NeverTornAlways` and
  `FileImplementsRegister` follow, under `SingleWriter`, the assumption that the
  comment at `locks.rs:125` states and that `WritersAreSingle` proves of the service
  without overlapping instances. `MixturesAreTheirs` needs no such assumption: `MixInv`
  says of every number of writers that one who is alone has the temporary file for
  itself, and that an inode on which writers have met holds halves of their records only.
  This theorem is what `Runner` rests on where instances overlap, and has no run of its
  own: TLC finds `MixesOnlyTheirs` to hold with `SingleWriter = FALSE`, two records and
  three inodes in `MC_StatusFile.cfg`, and `NeverTorn` violated.
* **An attempt.** `AttemptInv` places every line that went into a pipe. Of stdout the
  log holds a beginning, the buffer of the file at most the next line, the pipe the
  rest, and the ring the last `TailLines` of what has been read; of stderr the text
  holds the first `StderrLines` of what has been read, the pipe the rest. A drain that
  is done has left nothing in its pipe, nor in the buffer, and nobody can write any
  more; the driver has an outcome only when both are done. The clauses of a drain hold
  while it has not failed, and a failed drain allows no outcome. Each step moves at most
  one line from one place to the next, which the lemmas on `Begins` and `EndsAt` say once
  for all sequences. So `LogComplete`, `ReportIsTail` and `VerdictMatchesOutput` hold for
  outputs, pipes and tails of any length.
* **A run and its files.** `ReportInv` adds, while the process lives, that a task is
  opened only when the loop has ended, in the kind its result calls for, and that the
  verdict on record is that result. With an outcome no step of the attempt is possible
  any more (`OutcomeIsLast`), so what the task says cannot become stale. At a crash the
  memory is lost, but the files and the history stay, and with them
  `TaskTellsLastAttempt` and `OneTaskPerRun`.
* **Door.** `DoorInv` is the registry's invariant, with canonical paths for directories
  and calls for runs, and per call what guard, response and result have to do with each
  other. `NeverSideBySide` follows from the registry: two held guards own two entries, so
  two canonical paths.

Only model-checked: liveness (`RunSettles`, `CapacityReturns`, `RecordSettles`,
`ConflictIsRecorded`, `Concludes`), which is out of reach of the provers,
and the absence of deadlock. Each inductive invariant was checked by TLC on the
configurations of its module before it was proved.

## 5. What is not modelled

* Texts: status bodies, the layout and the scrubbing of a task, log wording, and where in
  a diagnostic the lock fields stand. No property is about them.
* `env_parse` and the defaults it falls back to (they pick values of constants), the MCP
  session and the command line of the door: no behaviour over time.
* A file system that changes while a run is under way (renamed directories, retargeted
  links). `Canon` is constant.
* A plugin that never ends and keeps a pipe open: the drain, and with it the run, waits
  as long. The code has no timeout and promises nothing; fairness assumes it away.
* A reader of the task directory. Tasks are written in place, so it may see half a file;
  `RecordedFailureHasTask` says when it cannot any more.
* Poisoning of the registry's mutex: nothing inside its critical sections can panic.

## 6. Where code and documentation disagree

Each has a run whose violated property states what the comment says.

1. `second_instance`: `main.rs` reconciles (line 47) before it binds the port
   (line 59). An instance started beside a serving one rewrites live runs as
   "interrupted", and can overwrite a terminal record with a stale copy, before it
   fails to bind. `locks.rs:145` takes every "running" record for one of a prior process.
   It is also a second writer of these records, under one temporary name, although
   `locks.rs:125` says "Write-then-rename for a single-writer-per-run model": what is
   published may be a mixture that does not parse.
2. `orphan`: the same comment says that terraform died with the process
   "(kill_on_drop)". That is a destructor; when the process is killed none runs. Only
   a supervisor that kills the whole group makes the sentence true.
3. `apply_exit_2`: exit code 2 is read as "changes" for an apply too, although
   `runner.rs:53` says that an apply has only success and failure.
4. `warning_as_lock`: `runner.rs:167` says that a warning with the summary of the lock
   "must never be read as the lock", and the classifier checks the severity;
   `parse_lock_info` (`routes.rs:288`) does not, so the ID in a task's force-unlock
   command can be that of a warning with lock fields that stands before the lock in the
   tail.
5. `lost_reply`: "could not reach the tf-apply runner" (`mcp/main.rs:106`) is also said
   after a timeout, when the trigger may have been handled and a run started.

Seen while modelling, without a run:

* The README says logs are under `RUNS_DIR/<run_id>/`, the code writes
  `RUNS_DIR/<run_id>.jsonl`.
* An unset `UNROUTED_DIR` is announced as "failure tasks cannot be emitted"
  (`main.rs:44`), but tasks are then written to the working directory: creating the empty
  path succeeds.
* A terminal record that could not be written (`routes.rs:266`, logged and ignored) leaves
  "running" behind, and the next start turns a completed run into "interrupted", which
  `locks.rs:145` takes for a run that was being executed. `Runner` models it (`Lose`), and
  its properties excuse it by name.
* `runner.rs:17` says that the tail is both what is classified and what is embedded. A
  lock on stderr is classified although the tail is that of stdout, and the task then
  refers to the run log for the lock ID (`emit.rs:138`), which holds stdout only.

The positive counterparts are checked where the deployment excludes the trouble:
`SingleWriterPerRun`, `InterruptedOnlyAfterLoss`, `InterruptedMeansDead` and
`TerminalIsFinal` hold in `runner` with one supervised instance, and `SettledIsFinal` in
every deployment. `RunningRecordIsLive` is likewise a property
of one instance at a time: with overlapping instances a server that dies after the
other's walk leaves records that nobody settles until the next start.

## 7. Plan

Done, in this order: the registry and its refinement, the runner, their proofs, the
status file with its refinement and proofs, the driver, the door, then the contract of
a run, the report around the driver (retries, log, task file), the checks of a
request as they are configured, and what writers at once make of a record.

What is left of modelling is outside what the code promises (section 5). A composition of
`Runner` and `Door` would add no property that the two do not have: they share the
registry, and what a poller sees of a run is stated on `Runner` (`AnsweredIsRecorded`,
`ConflictIsRecorded`).

Proved, in this order: the registry, exclusion and cap of the runner, the status file, the
records and tasks of the runner with its contract, the door, the attempt and the report.
What is left of the checked properties is liveness, which stays with TLC. Worth adding: the
report of one run as an implementation of `RunContract`, so that the task written in two
steps and the one-step emission of `Runner` meet in one abstract specification.
