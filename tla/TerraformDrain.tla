---------------------------- MODULE TerraformDrain ----------------------------
(***************************************************************************)
(* runner::run of src/tf-apply/src/runner.rs from the spawn of terraform   *)
(* to its result: the child writes lines to two pipes of bounded capacity  *)
(* and blocks on a full one, two spawned tasks drain them, and the driver  *)
(* waits for the exit, joins the stdout drain and then the stderr drain,   *)
(* and classifies what they kept.  RunReport calls it once per attempt.    *)
(*                                                                         *)
(* A line is abstracted to what the driver tells apart.  "lock" is the     *)
(* state-lock error: on stdout a diagnostic, on stderr any line with its   *)
(* summary.  "warn" is a warning with that summary, "blank" has nothing    *)
(* but space, "garbled" is not UTF-8, "text" is anything else.             *)
(***************************************************************************)
EXTENDS Naturals, Sequences

CONSTANTS PipeCap,       \* lines a pipe holds
          TailLines,     \* TAIL_LINES, the size of the tail ring
          StderrLines,   \* STDERR_CAP_BYTES, in lines
          MaxLines       \* bound: lines terraform writes

ASSUME SizesAssumption ==
    PipeCap \in Nat \ {0} /\ TailLines \in Nat \ {0} /\ StderrLines \in Nat \ {0}
ASSUME MaxLinesAssumption == MaxLines \in Nat

VARIABLES todo,        \* what terraform has still to write, stream by line
          exit,        \* its exit code, or Running; the plugins may outlive it
          pipe,        \* pipe[s]: lines written and not yet read
          said,        \* history: said[s], the lines that went into pipe s
          drain,       \* drain[s]: "opening", "reading", "done" or "failed"
          log,         \* the lines in runs/<id>.jsonl, on disk
          unwritten,   \* the line the file has accepted but not yet written
          ring,        \* the tail ring of the stdout drain
          collected,   \* the text of the stderr drain
          pc,          \* where the driver is: "spawn", "wait", "join out",
                       \* "join err" or "end"
          result       \* "none", "driver_error", or the outcome

child  == <<todo, exit, said>>
file   == <<log, unwritten>>
drains == <<drain, file, ring, collected>>
driver == <<pc, result>>
attempt == <<child, pipe, drains, driver>>

Streams == {"out", "err"}
Lines   == {"text", "lock", "warn", "blank", "garbled"}

\* Only stdout has diagnostics, and only of stderr is a blank line told apart.
Writes == {"out", "err"} \X {"text", "lock", "garbled"} \cup {<<"out", "warn">>, <<"err", "blank">>}

Scripts == UNION {[1..n -> Writes] : n \in 0..MaxLines}

\* Exit code 1 stands for every code but 0 and 2 and for a death by signal.
Codes   == {0, 1, 2}
Running == 3
Outcomes == {"Success", "PlanChanges", "StateLock", "ConfigError"}

\* The last n elements of a sequence, all of a shorter one.
LastOf(s, n) == SubSeq(s, IF Len(s) > n THEN Len(s) - n + 1 ELSE 1, Len(s))

Contains(s, line) == \E i \in 1..Len(s) : s[i] = line

Exited == exit # Running

NoLines == [s \in Streams |-> <<>>]

\* Nothing has been spawned yet, and the run has no log.
AttemptInit ==
    /\ todo = <<>> /\ exit = Running
    /\ pipe = NoLines /\ said = NoLines
    /\ drain = [s \in Streams |-> "done"]
    /\ log = <<>> /\ unwritten = <<>> /\ ring = <<>> /\ collected = <<>>
    /\ pc = "spawn" /\ result = "none"

-------------------------------------------------------------------------------
\* Faulty variant: the tail ring is not a local of the attempt.
Spawn_KeepsRing ==
    /\ pc = "spawn"
    /\ todo' \in Scripts /\ exit' = Running
    /\ pipe' = NoLines /\ said' = NoLines
    /\ drain' = [out |-> "opening", err |-> "reading"]
    /\ unwritten' = <<>> /\ collected' = <<>>
    /\ pc' = "wait"
    /\ UNCHANGED <<log, ring, result>>

\* terraform is spawned with fresh pipes, and a task for each of them with
\* fresh locals.  The log is not touched before the stdout task runs.
Spawn ==
    /\ pc = "spawn"
    /\ todo' \in Scripts /\ exit' = Running
    /\ pipe' = NoLines /\ said' = NoLines
    /\ drain' = [out |-> "opening", err |-> "reading"]
    /\ unwritten' = <<>> /\ ring' = <<>> /\ collected' = <<>>
    /\ pc' = "wait"
    /\ UNCHANGED <<log, result>>

\* The directory name is not UTF-8, runs/ cannot be created, or there is no
\* terraform to spawn.
SpawnFails ==
    /\ pc = "spawn"
    /\ pc' = "end" /\ result' = "driver_error"
    /\ UNCHANGED <<child, pipe, drains>>

-------------------------------------------------------------------------------
\* terraform, the environment, together with the plugins it starts: they hold its
\* ends of the pipes too, and may go on writing when it has exited.

\* A write blocks on a full pipe.
ChildWrite ==
    /\ todo # <<>>
    /\ LET s == Head(todo)[1]  line == Head(todo)[2] IN
          /\ drain[s] # "failed"
          /\ Len(pipe[s]) < PipeCap
          /\ pipe' = [pipe EXCEPT ![s] = Append(@, line)]
          /\ said' = [said EXCEPT ![s] = Append(@, line)]
    /\ todo' = Tail(todo)
    /\ UNCHANGED <<exit, drains, driver>>

\* A pipe whose reader is gone breaks: the line is lost, or the writer dies of it.
ChildBrokenPipe ==
    /\ todo # <<>>
    /\ drain[Head(todo)[1]] = "failed"
    /\ todo' \in {Tail(todo), <<>>}
    /\ UNCHANGED <<exit, said, pipe, drains, driver>>

\* terraform has written everything.
ChildExit ==
    /\ pc = "wait" /\ ~Exited /\ todo = <<>>
    /\ exit' \in Codes
    /\ UNCHANGED <<todo, said, pipe, drains, driver>>

\* It is killed, or ends and leaves the rest of the output to a plugin.
ChildExitEarly ==
    /\ pc = "wait" /\ ~Exited /\ todo # <<>>
    /\ exit' \in Codes
    /\ todo' \in {todo, <<>>}
    /\ UNCHANGED <<said, pipe, drains, driver>>

AllWritten(s) == \A i \in 1..Len(todo) : todo[i][1] # s

\* Nobody holds a writing end of the pipe any more.  Each pipe ends on its own.
Closed(s) == Exited /\ AllWritten(s)

-------------------------------------------------------------------------------
\* The drains.

\* Faulty variant: stderr is read only once stdout has ended.
CanDrain_InTurn(s) ==
    drain[s] = "reading" /\ (s = "err" => drain["out"] \in {"done", "failed"})

\* Both tasks are spawned before the driver waits, and run side by side.
CanDrain(s) == drain[s] = "reading"

\* Faulty variant: the ring grows with the output.
Push_Unbounded(line) == Append(ring, line)

\* The ring gives up its oldest line for a new one.
Push(line) == IF Len(ring) = TailLines THEN Append(Tail(ring), line)
                                       ELSE Append(ring, line)

\* Faulty variant: the log is opened for appending.
OpenLog_Appends ==
    /\ drain["out"] = "opening"
    /\ drain' = [drain EXCEPT !["out"] = "reading"]
    /\ UNCHANGED <<child, pipe, file, ring, collected, driver>>

\* The stdout task creates the log, or truncates that of the attempt before.
OpenLog ==
    /\ drain["out"] = "opening"
    /\ drain' = [drain EXCEPT !["out"] = "reading"]
    /\ log' = <<>>
    /\ UNCHANGED <<child, pipe, unwritten, ring, collected, driver>>

\* A line of stdout goes to the file and into the ring.  The file takes it when
\* its last write is over, and writes it in the background.
DrainOut ==
    /\ CanDrain("out")
    /\ pipe["out"] # <<>> /\ Head(pipe["out"]) # "garbled"
    /\ unwritten = <<>>
    /\ unwritten' = <<Head(pipe["out"])>>
    /\ ring' = Push(Head(pipe["out"]))
    /\ pipe' = [pipe EXCEPT !["out"] = Tail(@)]
    /\ UNCHANGED <<child, drain, log, collected, driver>>

LogWritten ==
    /\ unwritten # <<>>
    /\ log' = log \o unwritten
    /\ unwritten' = <<>>
    /\ UNCHANGED <<child, pipe, drain, ring, collected, driver>>

\* A line of stderr is kept while the text is below its cap, and read anyway.
DrainErr ==
    /\ CanDrain("err")
    /\ pipe["err"] # <<>> /\ Head(pipe["err"]) # "garbled"
    /\ collected' = IF Len(collected) < StderrLines
                    THEN Append(collected, Head(pipe["err"])) ELSE collected
    /\ pipe' = [pipe EXCEPT !["err"] = Tail(@)]
    /\ UNCHANGED <<child, drain, file, ring, driver>>

\* A task that returns an error closes its end of the pipe.
Abort(s) ==
    /\ drain' = [drain EXCEPT ![s] = "failed"]
    /\ pipe' = [pipe EXCEPT ![s] = <<>>]
    /\ UNCHANGED <<child, log, ring, collected, driver>>

\* A line that is not UTF-8 ends the task; what the file was still writing is
\* written all the same.
DrainGarbled(s) ==
    /\ CanDrain(s)
    /\ pipe[s] # <<>> /\ Head(pipe[s]) = "garbled"
    /\ Abort(s)
    /\ UNCHANGED unwritten

\* So does an error of the log file: at its creation, with a line at hand, or in
\* the flush.
LogFails ==
    /\ drain["out"] = "opening" \/ (CanDrain("out") /\ (pipe["out"] # <<>> \/ Closed("out")))
    /\ Abort("out")
    /\ unwritten' = <<>>

\* Faulty variant: the file is dropped without a flush.
DrainDone_NoFlush(s) ==
    /\ CanDrain(s)
    /\ Closed(s) /\ pipe[s] = <<>>
    /\ drain' = [drain EXCEPT ![s] = "done"]
    /\ UNCHANGED <<child, pipe, file, ring, collected, driver>>

\* End of file: every writer is gone and the pipe is empty.  The stdout task flushes
\* the log, which waits for the last write, before it hands over the tail.
DrainDone(s) ==
    /\ CanDrain(s)
    /\ Closed(s) /\ pipe[s] = <<>>
    /\ s = "out" => unwritten = <<>>
    /\ drain' = [drain EXCEPT ![s] = "done"]
    /\ UNCHANGED <<child, pipe, file, ring, collected, driver>>

-------------------------------------------------------------------------------
\* The driver.

\* On stdout an error diagnostic with the summary, on stderr the bare text.
IsStateLock == Contains(ring, "lock") \/ Contains(collected, "lock")

Classify ==
    CASE exit = 0                -> "Success"
      [] exit = 2                -> "PlanChanges"
      [] exit = 1 /\ IsStateLock -> "StateLock"
      [] OTHER                   -> "ConfigError"

Wait ==
    /\ pc = "wait" /\ Exited
    /\ pc' = "join out"
    /\ UNCHANGED <<child, pipe, drains, result>>

\* Faulty variant: stdout is not waited for, only looked at for a failure.
JoinOut_Hasty ==
    /\ pc = "join out"
    /\ IF drain["out"] = "failed" THEN pc' = "end" /\ result' = "driver_error"
                                  ELSE pc' = "join err" /\ UNCHANGED result
    /\ UNCHANGED <<child, pipe, drains>>

\* A failed drain is the error of the whole call; the other drain is detached.
JoinOut ==
    /\ pc = "join out" /\ drain["out"] \in {"done", "failed"}
    /\ IF drain["out"] = "failed" THEN pc' = "end" /\ result' = "driver_error"
                                  ELSE pc' = "join err" /\ UNCHANGED result
    /\ UNCHANGED <<child, pipe, drains>>

JoinErr ==
    /\ pc = "join err" /\ drain["err"] # "reading"
    /\ pc' = "end"
    /\ result' = IF drain["err"] = "failed" THEN "driver_error" ELSE Classify
    /\ UNCHANGED <<child, pipe, drains>>

AllBlank(s) == \A i \in 1..Len(s) : s[i] = "blank"

\* The tail that goes into a task: stdout, or, if there is none, stderr, unless it is
\* blank.
LogTail == IF ring = <<>> /\ ~AllBlank(collected) THEN LastOf(collected, TailLines) ELSE ring

ChildStep   == ChildWrite \/ ChildBrokenPipe \/ ChildExit
DrainOutStep == OpenLog \/ DrainOut \/ DrainGarbled("out") \/ DrainDone("out")
DrainErrStep == DrainErr \/ DrainGarbled("err") \/ DrainDone("err")
DriverStep  == Spawn \/ Wait \/ JoinOut \/ JoinErr
FaultStep   == ChildExitEarly \/ LogFails \/ SpawnFails

-------------------------------------------------------------------------------
\* Every variable keeps its type, and the memory of the driver stays bounded
\* however much terraform writes.
AttemptTypeOK ==
    /\ todo \in Seq(Streams \X Lines)
    /\ exit \in Codes \cup {Running}
    /\ pipe \in [Streams -> Seq(Lines)] /\ \A s \in Streams : Len(pipe[s]) <= PipeCap
    /\ said \in [Streams -> Seq(Lines)]
    /\ drain \in [Streams -> {"opening", "reading", "done", "failed"}]
    /\ log \in Seq(Lines)
    /\ unwritten \in Seq(Lines) /\ Len(unwritten) <= 1
    /\ ring \in Seq(Lines) /\ Len(ring) <= TailLines
    /\ collected \in Seq(Lines) /\ Len(collected) <= StderrLines
    /\ pc \in {"spawn", "wait", "join out", "join err", "end"}
    /\ result \in Outcomes \cup {"none", "driver_error"}

Concluded == result \in Outcomes

\* The part of stderr that is kept: its first lines.
ErrSaid ==
    SubSeq(said["err"], 1,
           IF Len(said["err"]) < StderrLines THEN Len(said["err"]) ELSE StderrLines)

\* What terraform said last on stdout, or else in that part of stderr, if it says
\* anything: the tail a report on this attempt has to hold.
TailOfSaid ==
    IF said["out"] # <<>> THEN LastOf(said["out"], TailLines)
    ELSE IF AllBlank(ErrSaid) THEN <<>>
    ELSE LastOf(ErrSaid, TailLines)

\* An outcome is given only on the whole output of its attempt: the log on disk
\* is everything this terraform wrote to stdout, in order, down to the last line,
\* and nothing of the attempt before.
LogComplete == Concluded => log = said["out"]

\* The tail that goes into a task is the end of what terraform wrote in this
\* attempt.
ReportIsTail == Concluded => LogTail = TailOfSaid

\* The lock is among the last lines of stdout as an error diagnostic, or as mere text
\* among the first of stderr.
LockSaid ==
    \/ \E i \in 1..Len(said["out"]) :
          said["out"][i] = "lock" /\ i + TailLines > Len(said["out"])
    \/ \E i \in 1..Len(said["err"]) :
          said["err"][i] = "lock" /\ i <= StderrLines

\* A failure is put down to the state lock exactly if terraform said so where the
\* driver promises to look.  In particular a lock reported on the very last line is
\* never taken for a broken configuration, nor a warning on stdout for a lock.
VerdictMatchesOutput ==
    Concluded => (result = "StateLock" <=> exit = 1 /\ LockSaid)

===============================================================================
