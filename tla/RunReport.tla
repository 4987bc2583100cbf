------------------------------- MODULE RunReport -------------------------------
(***************************************************************************)
(* execute_run and finalize_outcome of src/tf-apply/src/routes.rs around   *)
(* the attempts of TerraformDrain, down to the two files a run leaves for  *)
(* others: the pipeline task of emit.rs, written in place, and the         *)
(* terminal record.  One run, from its first attempt to its end or to the  *)
(* death of the process.                                                   *)
(*                                                                         *)
(* Runner takes an attempt as one step and a task as one write; here both  *)
(* are looked into, and Runner's admission, guards and restarts are not.   *)
(***************************************************************************)
EXTENDS TerraformDrain

CONSTANT MaxRetries    \* STATE_LOCK_MAX_RETRIES

ASSUME RetriesAssumption == MaxRetries \in Nat

VARIABLES retries,   \* retries_left
          stage,     \* "driving" the attempts, "writing" the task, "emitted",
                     \* "recorded", or "dead" with the process
          taskFile,  \* taskFile[k]: the file of kind k in the task directory
          record,    \* the verdict on record, or "running"
          lost       \* the file operations that failed

report == <<retries, stage, taskFile, record, lost>>
vars   == <<attempt, report>>

Kinds  == {"task_tf_apply_fail", "task_tf_apply_lock"}
Stages == {"driving", "writing", "emitted", "recorded", "dead"}
Verdicts == Outcomes \cup {"driver_error"}

-------------------------------------------------------------------------------
\* What a task says.

\* parse_lock_info: the line whose ID, holder and time go into the task.  It compares
\* the summary of a diagnostic, but neither its type nor its severity; a diagnostic
\* without any of the three is passed over, and when all are, the whole tail is searched.
\* Which lines have them is left open, so it may be any line of the tail, or none.
LocksNamed == {"none"} \cup {LogTail[i] : i \in 1..Len(LogTail)}

\* A task file: absent, created but not written to the end, or whole.
NoFile   == [state |-> "none", tail |-> <<>>, lock |-> "none"]
TornFile == [NoFile EXCEPT !.state = "torn"]
TaskText(lock) == [state |-> "whole", tail |-> LogTail, lock |-> lock]

\* What emit_config_error and emit_stale_lock may write.
TaskTexts(k) ==
    {TaskText(lock) : lock \in IF k = "task_tf_apply_lock" THEN LocksNamed ELSE {"none"}}

\* The kind of task the verdict calls for, if any.
TaskKind ==
    CASE result = "ConfigError" -> {"task_tf_apply_fail"}
      [] result = "StateLock"   -> {"task_tf_apply_lock"}
      [] OTHER                  -> {}

Init ==
    /\ AttemptInit
    /\ retries = MaxRetries
    /\ stage = "driving"
    /\ taskFile = [k \in Kinds |-> NoFile]
    /\ record = "running"
    /\ lost = {}

-------------------------------------------------------------------------------
\* execute_run.

WillRetry == result = "StateLock" /\ retries > 0

\* Faulty variant: every lock is reported, whether or not it is retried.
Retry_Reports ==
    /\ stage = "driving" /\ pc = "end" /\ WillRetry
    /\ retries' = retries - 1
    /\ \E text \in TaskTexts("task_tf_apply_lock") :
          taskFile' = [taskFile EXCEPT !["task_tf_apply_lock"] = text]
    /\ pc' = "spawn" /\ result' = "none"
    /\ UNCHANGED <<child, pipe, drains, stage, record, lost>>

\* A state lock with retries left: the backoff elapses, and run() is called again.
Retry ==
    /\ stage = "driving" /\ pc = "end" /\ WillRetry
    /\ retries' = retries - 1
    /\ pc' = "spawn" /\ result' = "none"
    /\ UNCHANGED <<child, pipe, drains, stage, taskFile, record, lost>>

\* The loop ends with its result.
LoopEnds == stage = "driving" /\ pc = "end" /\ ~WillRetry

\* finalize_outcome.

\* No task for a success, for changes, or for a driver that failed.
SkipTask ==
    /\ LoopEnds /\ TaskKind = {}
    /\ stage' = "emitted"
    /\ UNCHANGED <<attempt, retries, taskFile, record, lost>>

\* Faulty variant: the write of the task is left to the background.
OpenTask_Detached ==
    /\ LoopEnds
    /\ \E k \in TaskKind : taskFile' = [taskFile EXCEPT ![k] = TornFile]
    /\ stage' = "emitted"
    /\ UNCHANGED <<attempt, retries, record, lost>>

\* The file is created under its own name, and is empty until it is written.
OpenTask ==
    /\ LoopEnds
    /\ \E k \in TaskKind : taskFile' = [taskFile EXCEPT ![k] = TornFile]
    /\ stage' = "writing"
    /\ UNCHANGED <<attempt, retries, record, lost>>

WriteTask ==
    /\ stage = "writing" /\ stage' = "emitted"
    /\ \E k \in TaskKind : \E text \in TaskTexts(k) : taskFile' = [taskFile EXCEPT ![k] = text]
    /\ UNCHANGED <<attempt, retries, record, lost>>

\* The directory or the file cannot be created, or the disk fills up in the
\* middle: logged, and the run goes on.
EmitFails ==
    /\ stage = "writing" \/ (LoopEnds /\ TaskKind # {})
    /\ stage' = "emitted"
    /\ lost' = lost \cup {"task"}
    /\ UNCHANGED <<attempt, retries, taskFile, record>>

\* The record of the verdict replaces "running", or its write fails.
Finalize ==
    /\ stage = "emitted" /\ stage' = "recorded"
    /\ \/ record' = result /\ UNCHANGED lost
       \/ lost' = lost \cup {"record"} /\ UNCHANGED record
    /\ UNCHANGED <<attempt, retries, taskFile>>

\* The process dies: its memory and its pipes are gone, the files stay as they are.
Crash ==
    /\ stage \notin {"recorded", "dead"}
    /\ stage' = "dead"
    /\ todo' = <<>> /\ pipe' = NoLines
    /\ unwritten' = <<>> /\ ring' = <<>> /\ collected' = <<>>
    /\ pc' = "end" /\ result' = "none"
    /\ UNCHANGED <<exit, said, drain, log, retries, taskFile, record, lost>>

\* The run is over, and so is a drain that outlived a driver error.
Idle ==
    /\ stage = "dead" \/ (stage = "recorded" /\ \A s \in Streams : drain[s] \in {"done", "failed"})
    /\ UNCHANGED vars

ReportStep == Retry \/ SkipTask \/ OpenTask \/ WriteTask \/ Finalize

\* An attempt goes on while the process lives.
InAttempt == stage # "dead" /\ UNCHANGED report

Next ==
    \/ InAttempt /\ (ChildStep \/ DrainOutStep \/ LogWritten \/ DrainErrStep \/ DriverStep)
    \/ InAttempt /\ FaultStep
    \/ ReportStep \/ EmitFails \/ Crash \/ Idle

Spec == Init /\ [][Next]_vars

\* The runtime polls every task that can go on and terraform goes on unless a
\* pipe holds it up.  Nothing obliges anybody to kill it, or a file to fail.
Fairness ==
    /\ WF_vars(InAttempt /\ ChildStep)
    /\ WF_vars(InAttempt /\ DrainOutStep)
    /\ WF_vars(InAttempt /\ LogWritten)
    /\ WF_vars(InAttempt /\ DrainErrStep)
    /\ WF_vars(InAttempt /\ DriverStep)
    /\ WF_vars(ReportStep)

FairSpec == Spec /\ Fairness

-------------------------------------------------------------------------------
\* Every variable keeps its type, those of the attempt included, whose memory is
\* bounded however much terraform writes.
TypeOK ==
    /\ AttemptTypeOK
    /\ retries \in 0..MaxRetries
    /\ stage \in Stages
    /\ taskFile \in [Kinds -> [state : {"none", "torn", "whole"}, tail : Seq(Lines),
                               lock : Lines \cup {"none"}]]
    /\ record \in Verdicts \cup {"running"}
    /\ lost \subseteq {"task", "record"}

IsWhole(k) == taskFile[k].state = "whole"

\* A task speaks of the last attempt and of nothing before it: it is of the kind
\* that attempt failed with, its tail is the end of what that terraform wrote, and
\* the log it points to holds all of it.  A lock is handed on only when the retries
\* are spent.
TaskTellsLastAttempt ==
    \A k \in Kinds : IsWhole(k) =>
        /\ exit = 1
        /\ k = IF LockSaid THEN "task_tf_apply_lock" ELSE "task_tf_apply_fail"
        /\ taskFile[k].tail = TailOfSaid
        /\ log = said["out"]
        /\ k = "task_tf_apply_lock" => retries = 0

\* A run leaves ONE task at most, and none if it ended well: a lock that clears in
\* a retry leaves no task behind, and a retry that meets a broken configuration no
\* second one.
OneTaskPerRun ==
    /\ \A k, l \in Kinds : k # l => taskFile[k] = NoFile \/ taskFile[l] = NoFile
    /\ record \in {"Success", "PlanChanges", "driver_error"} =>
          \A k \in Kinds : taskFile[k] = NoFile

\* A task is written in place, so a reader of the directory may meet half of one;
\* a reader who waits for the failure to be on record does not, unless the write
\* of the task failed.
RecordedFailureHasTask ==
    record \in {"ConfigError", "StateLock"} =>
        \/ "task" \in lost
        \/ record = "ConfigError" /\ IsWhole("task_tf_apply_fail")
        \/ record = "StateLock" /\ IsWhole("task_tf_apply_lock")

\* The run always comes to a recorded end, or dies with its process: no order of
\* writes, drains and drain failures, in any attempt, leaves the child, a drain and
\* the driver waiting for each other.
Concludes == <>(stage \in {"recorded", "dead"})

\* As the classifier documents it, a warning with the summary of the lock "must
\* never be read as the lock".  It does not take one for the lock; but the lock ID
\* in the task is that of the first diagnostic with the summary that has one, warnings
\* included.
WarningIsNotTheLock ==
    IsWhole("task_tf_apply_lock") => taskFile["task_tf_apply_lock"].lock # "warn"

===============================================================================
