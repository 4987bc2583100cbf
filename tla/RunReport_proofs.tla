---------------------------- MODULE RunReport_proofs ----------------------------
(***************************************************************************)
(* Proofs about a run and the files it leaves, for every number of retries *)
(* and every size.                                                         *)
(*                                                                         *)
(* While the process lives the attempt keeps AttemptInv, so an outcome     *)
(* rests on the whole output of its attempt and nothing moves any more     *)
(* when it is there.  The rest of the invariant ties the task and the      *)
(* record to that outcome; what a written task says stays true when the    *)
(* process dies, as the files and the history do not change then.          *)
(***************************************************************************)
EXTENDS RunReport, TerraformDrain_proofs

\* A task is written, and a verdict recorded, when the loop has ended.
LoopIsOver ==
    stage \in {"writing", "emitted", "recorded"} => pc = "end" /\ ~WillRetry

\* There is no file before that, then only one of the kind called for, whole when
\* the emission is over, unless it failed.
TaskFollows ==
    /\ stage = "driving" => \A k \in Kinds : taskFile[k] = NoFile
    /\ \A k \in Kinds : taskFile[k] # NoFile => k \in TaskKind
    /\ \A k \in Kinds : IsWhole(k) => stage \in {"emitted", "recorded"}
    /\ stage \in {"emitted", "recorded"} =>
          \A k \in TaskKind : IsWhole(k) \/ "task" \in lost

\* A verdict on record is the result of the loop.
RecordFollows == record # "running" => stage = "recorded" /\ record = result

AtMostOneTask == \A k, l \in Kinds : k # l => taskFile[k] = NoFile \/ taskFile[l] = NoFile

\* Only a living process has an outcome.
OutcomeIsAlive == stage = "dead" => result = "none"

ReportInv ==
    /\ TypeOK
    /\ stage # "dead" => AttemptInv /\ LoopIsOver /\ TaskFollows
    /\ OutcomeIsAlive
    /\ RecordFollows
    /\ AtMostOneTask
    /\ TaskTellsLastAttempt

-------------------------------------------------------------------------------
\* What a task says has its type.

LEMMA LastOfIsSequence ==
    ASSUME NEW s \in Seq(Lines), NEW n \in Nat
    PROVE  LastOf(s, n) \in Seq(Lines)
<1> DEFINE m == IF Len(s) > n THEN Len(s) - n + 1 ELSE 1
<1>1. m \in Nat /\ m >= 1 /\ Len(s) \in Nat
  <2>1. Len(s) \in Nat
    BY LenProperties
  <2> QED
    BY <2>1
<1>2. \A i \in m..Len(s) : s[i] \in Lines
  BY <1>1, ElementOfSeq
<1> HIDE DEF m
<1>3. SubSeq(s, m, Len(s)) \in Seq(Lines)
  BY <1>1, <1>2, SubSeqProperties
<1> QED
  BY <1>3 DEF LastOf, m

\* What WriteTask writes is a whole file with the tail, of its type: the lock is a line
\* of that tail.
LEMMA TaskTextIsTyped ==
    ASSUME AttemptTypeOK, NEW k, NEW text \in TaskTexts(k)
    PROVE  /\ text \in [state : {"none", "torn", "whole"}, tail : Seq(Lines),
                        lock : Lines \cup {"none"}]
           /\ text.state = "whole" /\ text.tail = LogTail
<1>1. LogTail \in Seq(Lines)
  BY SizesAssumption, LastOfIsSequence DEF LogTail, AttemptTypeOK
<1>2. LocksNamed \subseteq Lines \cup {"none"}
  BY <1>1, ElementOfSeq DEF LocksNamed
<1>3. PICK lock \in LocksNamed \cup {"none"} : text = TaskText(lock)
  BY DEF TaskTexts
<1>4. text = [state |-> "whole", tail |-> LogTail, lock |-> lock]
  BY <1>3 DEF TaskText
<1>5. lock \in Lines \cup {"none"}
  BY <1>2
<1> QED
  BY <1>1, <1>4, <1>5

LEMMA FilesAreTyped ==
    /\ {NoFile, TornFile} \subseteq [state : {"none", "torn", "whole"}, tail : Seq(Lines),
                                     lock : Lines \cup {"none"}]
    /\ NoFile.state = "none" /\ TornFile.state = "torn"
<1>1. /\ NoFile = [state |-> "none", tail |-> <<>>, lock |-> "none"]
      /\ TornFile = [state |-> "torn", tail |-> <<>>, lock |-> "none"]
  BY DEF NoFile, TornFile
<1>2. <<>> \in Seq(Lines)
  OBVIOUS
<1> QED
  BY <1>1, <1>2

-------------------------------------------------------------------------------
\* The attempts.

\* The attempt goes on: the run around it stands still.
AttemptGoesOn == InAttempt /\ AttemptStep

\* A step is one of the attempt, or one of the run around it.
LEMMA AttemptOrReport ==
    Next <=> AttemptGoesOn \/ ReportStep \/ EmitFails \/ Crash \/ Idle
BY DEF Next, AttemptGoesOn, AttemptStep, InAttempt

\* When the loop is over, so is the driver.
LEMMA DriverIsOver ==
    ASSUME AttemptStep, pc = "end"
    PROVE  pc' = pc /\ result' = result
BY DEF AttemptStep, ChildStep, ChildWrite, ChildBrokenPipe, ChildExit, DrainOutStep, OpenLog,
       DrainOut, DrainGarbled, DrainDone, LogWritten, DrainErrStep, DrainErr, Abort,
       DriverStep, Spawn, Wait, JoinOut, JoinErr, FaultStep, ChildExitEarly, LogFails,
       SpawnFails, driver

\* The attempt keeps its invariant, and the files do not notice it.
LEMMA AttemptKeepsReport ==
    ASSUME ReportInv, AttemptGoesOn
    PROVE  ReportInv'
<1>1. /\ stage # "dead" /\ AttemptStep /\ AttemptInv
      /\ UNCHANGED <<retries, stage, taskFile, record, lost>>
  BY DEF AttemptGoesOn, InAttempt, ReportInv, report
<1>2. AttemptInv'
  BY <1>1, AttemptKeeps
<1>3. TypeOK'
  BY <1>1, <1>2 DEF ReportInv, TypeOK, AttemptInv
<1>4. stage # "driving" => pc = "end" /\ pc' = pc /\ result' = result
  <2>1. stage # "driving" => pc = "end"
    BY <1>1 DEF ReportInv, LoopIsOver, TypeOK, Stages
  <2> QED
    BY <1>1, <2>1, DriverIsOver
<1>5. LoopIsOver'
  BY <1>1, <1>4 DEF ReportInv, LoopIsOver, WillRetry
<1>6. TaskFollows'
  <2>1. CASE stage = "driving"
    BY <1>1, <2>1, FilesAreTyped DEF ReportInv, TaskFollows, IsWhole
  <2>2. CASE stage # "driving"
    <3>1. TaskKind' = TaskKind
      BY <1>4, <2>2 DEF TaskKind
    <3> QED
      BY <1>1, <2>2, <3>1 DEF ReportInv, TaskFollows, IsWhole
  <2> QED
    BY <2>1, <2>2
<1>7. RecordFollows'
  BY <1>1, <1>4 DEF ReportInv, RecordFollows
<1>8. AtMostOneTask'
  BY <1>1 DEF ReportInv, AtMostOneTask
<1>9. TaskTellsLastAttempt'
  <2>1. \A k \in Kinds : ~IsWhole(k)
    <3> SUFFICES ASSUME NEW k \in Kinds, IsWhole(k) PROVE FALSE
      OBVIOUS
    <3>1. taskFile[k] # NoFile
      BY FilesAreTyped DEF IsWhole
    <3>2. k \in TaskKind
      BY <1>1, <3>1 DEF ReportInv, TaskFollows
    <3>3. Concluded
      BY <3>2 DEF TaskKind, Concluded, Outcomes
    <3> QED
      BY <1>1, <3>3, OutcomeIsLast
  <2> QED
    BY <1>1, <2>1 DEF TaskTellsLastAttempt, IsWhole
<1> QED
  BY <1>1, <1>2, <1>3, <1>5, <1>6, <1>7, <1>8, <1>9 DEF ReportInv, OutcomeIsAlive

\* The next attempt starts from an attempt that is over.
LEMMA RetryKeepsReport ==
    ASSUME ReportInv, Retry
    PROVE  ReportInv'
<1>1. /\ stage = "driving" /\ pc = "end" /\ result = "StateLock" /\ retries > 0
      /\ retries' = retries - 1 /\ pc' = "spawn" /\ result' = "none"
      /\ UNCHANGED <<todo, exit, said, pipe, drain, log, unwritten, ring, collected,
                     stage, taskFile, record, lost>>
  BY DEF Retry, WillRetry, child, drains, file
<1>2. AttemptInv
  BY <1>1 DEF ReportInv
<1>3. AttemptTypeOK'
  BY <1>1, <1>2 DEF AttemptInv, AttemptTypeOK
<1>4. retries' \in 0..MaxRetries
  BY <1>1, RetriesAssumption DEF ReportInv, TypeOK
<1>5. TypeOK'
  BY <1>1, <1>3, <1>4 DEF ReportInv, TypeOK
<1>6. LinesPlaced' /\ DoneIsAll'
  BY <1>1, <1>2 DEF AttemptInv, LinesPlaced, PipeHoldsRest, OutFresh, OutKept, ErrKept, Read,
                    DoneIsAll, AllWritten
<1>7. DriverWaits'
  BY <1>1 DEF DriverWaits, Concluded, Outcomes
<1>8. \A k \in Kinds : taskFile'[k] = NoFile
  BY <1>1 DEF ReportInv, TaskFollows
<1>9. LoopIsOver' /\ TaskFollows' /\ AtMostOneTask' /\ TaskTellsLastAttempt'
  BY <1>1, <1>8, FilesAreTyped DEF LoopIsOver, TaskFollows, AtMostOneTask,
                                   TaskTellsLastAttempt, IsWhole
<1>10. RecordFollows'
  BY <1>1 DEF ReportInv, RecordFollows
<1> QED
  BY <1>1, <1>3, <1>5, <1>6, <1>7, <1>9, <1>10 DEF ReportInv, OutcomeIsAlive, AttemptInv

-------------------------------------------------------------------------------
\* The end of the run.

\* When the attempt stands still, so does what is known of it.
LEMMA AttemptStands ==
    ASSUME UNCHANGED attempt
    PROVE  /\ AttemptInv' = AttemptInv /\ AttemptTypeOK' = AttemptTypeOK
           /\ TaskKind' = TaskKind
           /\ LockSaid' = LockSaid /\ TailOfSaid' = TailOfSaid
<1>1. UNCHANGED <<todo, exit, said, pipe, drain, log, unwritten, ring, collected, pc, result>>
  BY DEF attempt, child, drains, file, driver
<1>2. AttemptTypeOK' = AttemptTypeOK
  BY <1>1 DEF AttemptTypeOK
<1>3. AttemptInv' = AttemptInv
  BY <1>1, <1>2 DEF AttemptInv, LinesPlaced, PipeHoldsRest, OutFresh, OutKept, ErrKept, Read,
               DoneIsAll, AllWritten, DriverWaits, Exited, Concluded, Classify, IsStateLock, Contains
<1>4. TaskKind' = TaskKind /\ LockSaid' = LockSaid /\ TailOfSaid' = TailOfSaid
  BY <1>1 DEF TaskKind, LockSaid, TailOfSaid, ErrSaid
<1> QED
  BY <1>2, <1>3, <1>4

\* What the end of the loop says of its result.
LEMMA LoopEndsConcluded ==
    ASSUME ReportInv, stage # "dead", pc = "end", ~WillRetry
    PROVE  /\ result \in Verdicts
           /\ result = "StateLock" => retries = 0
           /\ \A k \in TaskKind : k \in Kinds /\ Concluded
<1>1. result \in Verdicts
  BY DEF ReportInv, AttemptInv, DriverWaits, AttemptTypeOK, Verdicts
<1>2. retries \in Nat
  BY RetriesAssumption DEF ReportInv, TypeOK
<1>3. result = "StateLock" => retries = 0
  BY <1>2 DEF WillRetry
<1>4. \A k \in TaskKind : k \in Kinds /\ Concluded
  BY DEF TaskKind, Kinds, Concluded, Outcomes
<1> QED
  BY <1>1, <1>3, <1>4

\* A verdict calls for one kind of task at most.
LEMMA OneKind == \A k, l \in TaskKind : k = l
BY DEF TaskKind

\* Without a task, and when the emission fails, the files stay as they are.
LEMMA NoWriteKeepsReport ==
    ASSUME ReportInv, SkipTask \/ EmitFails
    PROVE  ReportInv'
<1>1. /\ stage \in {"driving", "writing"} /\ stage' = "emitted"
      /\ pc = "end" /\ ~WillRetry
      /\ TaskKind # {} => lost' = lost \cup {"task"}
      /\ lost' \in {lost, lost \cup {"task"}}
      /\ UNCHANGED <<attempt, retries, taskFile, record>>
  <2>1. CASE SkipTask
    BY <2>1 DEF SkipTask, LoopEnds
  <2>2. CASE EmitFails
    BY <2>2 DEF EmitFails, LoopEnds, ReportInv, LoopIsOver
  <2> QED
    BY <2>1, <2>2
<1>2. /\ AttemptInv' /\ AttemptTypeOK' /\ TaskKind' = TaskKind
      /\ LockSaid' = LockSaid /\ TailOfSaid' = TailOfSaid
  BY <1>1, AttemptStands DEF ReportInv, TypeOK
<1>3. UNCHANGED <<exit, said, log, pc, result>>
  BY <1>1 DEF attempt, child, drains, file, driver
<1>4. TypeOK'
  BY <1>1, <1>2 DEF ReportInv, TypeOK, Stages
<1>5. LoopIsOver'
  BY <1>1, <1>3 DEF LoopIsOver, WillRetry
<1>6. TaskFollows'
  <2>1. \A k \in Kinds : taskFile[k] # NoFile => k \in TaskKind
    BY <1>1 DEF ReportInv, TaskFollows
  <2>2. \A k \in TaskKind : "task" \in lost'
    BY <1>1
  <2> QED
    BY <1>1, <1>2, <2>1, <2>2 DEF TaskFollows
<1>7. RecordFollows' /\ AtMostOneTask'
  BY <1>1 DEF ReportInv, RecordFollows, AtMostOneTask
<1>8. TaskTellsLastAttempt'
  BY <1>1, <1>2, <1>3 DEF ReportInv, TaskTellsLastAttempt, IsWhole
<1> QED
  BY <1>1, <1>2, <1>4, <1>5, <1>6, <1>7, <1>8 DEF ReportInv, OutcomeIsAlive

\* The file is created, and is torn until it is written.
LEMMA OpenKeepsReport ==
    ASSUME ReportInv, OpenTask
    PROVE  ReportInv'
<1>1. /\ stage = "driving" /\ stage' = "writing" /\ pc = "end" /\ ~WillRetry
      /\ UNCHANGED <<attempt, retries, record, lost>>
  BY DEF OpenTask, LoopEnds
<1>2. PICK k \in TaskKind : taskFile' = [taskFile EXCEPT ![k] = TornFile]
  BY DEF OpenTask
<1>3. k \in Kinds
  BY <1>1, LoopEndsConcluded
<1>4. \A l \in Kinds : taskFile[l] = NoFile
  BY <1>1 DEF ReportInv, TaskFollows
<1>5. /\ taskFile'[k] = TornFile /\ \A l \in Kinds \ {k} : taskFile'[l] = NoFile
      /\ taskFile' \in [Kinds -> [state : {"none", "torn", "whole"}, tail : Seq(Lines),
                                  lock : Lines \cup {"none"}]]
  <2>1. taskFile \in [Kinds -> [state : {"none", "torn", "whole"}, tail : Seq(Lines),
                                lock : Lines \cup {"none"}]]
    BY DEF ReportInv, TypeOK
  <2> QED
    BY <1>2, <1>3, <1>4, <2>1, FilesAreTyped
<1>6. \A l \in Kinds : ~IsWhole(l)'
  BY <1>5, FilesAreTyped DEF IsWhole
<1>7. /\ AttemptInv' /\ AttemptTypeOK' /\ TaskKind' = TaskKind
  BY <1>1, AttemptStands DEF ReportInv, TypeOK
<1>8. UNCHANGED <<pc, result>>
  BY <1>1 DEF attempt, driver
<1>9. TypeOK'
  BY <1>1, <1>5, <1>7 DEF ReportInv, TypeOK, Stages
<1>10. LoopIsOver'
  BY <1>1, <1>8 DEF LoopIsOver, WillRetry
<1>11. TaskFollows'
  BY <1>1, <1>2, <1>5, <1>6, <1>7 DEF TaskFollows
<1>12. RecordFollows' /\ AtMostOneTask' /\ TaskTellsLastAttempt'
  BY <1>1, <1>5, <1>6 DEF ReportInv, RecordFollows, AtMostOneTask, TaskTellsLastAttempt
<1> QED
  BY <1>1, <1>7, <1>9, <1>10, <1>11, <1>12 DEF ReportInv, OutcomeIsAlive

\* The task is written: it tells of the attempt that ended the loop.
LEMMA WriteKeepsReport ==
    ASSUME ReportInv, WriteTask
    PROVE  ReportInv'
<1>1. /\ stage = "writing" /\ stage' = "emitted"
      /\ UNCHANGED <<attempt, retries, record, lost>>
  BY DEF WriteTask
<1>2. AttemptInv /\ pc = "end" /\ ~WillRetry
  BY <1>1 DEF ReportInv, LoopIsOver
<1>0. PICK k \in TaskKind : \E text \in TaskTexts(k) : taskFile' = [taskFile EXCEPT ![k] = text]
  BY DEF WriteTask
<1>3. PICK text \in TaskTexts(k) : taskFile' = [taskFile EXCEPT ![k] = text]
  BY <1>0
<1>4. k \in Kinds /\ Concluded /\ (result = "StateLock" => retries = 0)
  BY <1>0, <1>1, <1>2, LoopEndsConcluded
<1>5. /\ \A l \in Kinds \ {k} : taskFile[l] = NoFile
      /\ \A l \in Kinds : ~IsWhole(l)
  BY <1>0, <1>1, OneKind DEF ReportInv, TaskFollows
<1>6. /\ taskFile'[k] = text /\ text.state = "whole" /\ text.tail = LogTail
      /\ \A l \in Kinds \ {k} : taskFile'[l] = NoFile
      /\ taskFile' \in [Kinds -> [state : {"none", "torn", "whole"}, tail : Seq(Lines),
                                  lock : Lines \cup {"none"}]]
  <2>1. taskFile \in [Kinds -> [state : {"none", "torn", "whole"}, tail : Seq(Lines),
                                lock : Lines \cup {"none"}]]
    BY DEF ReportInv, TypeOK
  <2>2. /\ text.state = "whole" /\ text.tail = LogTail
        /\ text \in [state : {"none", "torn", "whole"}, tail : Seq(Lines),
                     lock : Lines \cup {"none"}]
    BY TaskTextIsTyped DEF ReportInv, TypeOK
  <2> QED
    BY <1>3, <1>4, <1>5, <2>1, <2>2
<1>7. IsWhole(k)' /\ \A l \in Kinds : IsWhole(l)' => l = k
  BY <1>6, FilesAreTyped DEF IsWhole
<1>8. /\ AttemptInv' /\ AttemptTypeOK' /\ TaskKind' = TaskKind
      /\ LockSaid' = LockSaid /\ TailOfSaid' = TailOfSaid
  BY <1>1, <1>2, AttemptStands DEF ReportInv, TypeOK
<1>9. UNCHANGED <<exit, said, log, pc, result>>
  BY <1>1 DEF attempt, child, drains, file, driver
<1>10. TypeOK'
  BY <1>1, <1>6, <1>8 DEF ReportInv, TypeOK, Stages
<1>11. LoopIsOver'
  BY <1>1, <1>2, <1>9 DEF LoopIsOver, WillRetry
<1>12. TaskFollows'
  <2>1. \A l \in Kinds : taskFile'[l] # NoFile => l = k
    BY <1>6
  <2>2. \A l \in TaskKind : l = k
    BY <1>0, OneKind
  <2> QED
    BY <1>0, <1>1, <1>7, <1>8, <2>1, <2>2 DEF TaskFollows
<1>13. RecordFollows' /\ AtMostOneTask'
  BY <1>1, <1>6 DEF ReportInv, RecordFollows, AtMostOneTask
<1>14. TaskTellsLastAttempt'
  <2>1. /\ exit = 1
        /\ k = IF LockSaid THEN "task_tf_apply_lock" ELSE "task_tf_apply_fail"
        /\ k = "task_tf_apply_lock" => retries = 0
    <3>1. /\ result = "StateLock" <=> exit = 1 /\ LockSaid
          /\ result = "ConfigError" <=> exit = 1 /\ ~LockSaid
      BY <1>2, <1>4, VerdictIsRight DEF VerdictMatchesOutput
    <3>2. CASE result = "StateLock"
      BY <1>0, <1>4, <3>1, <3>2 DEF TaskKind
    <3>3. CASE result = "ConfigError"
      BY <1>0, <3>1, <3>3 DEF TaskKind
    <3> QED
      BY <1>0, <3>2, <3>3 DEF TaskKind
  <2>2. taskFile'[k].tail = TailOfSaid
    BY <1>2, <1>4, <1>6, TailIsReported, FilesAreTyped DEF ReportIsTail
  <2>3. log = said["out"]
    BY <1>2, <1>4, LogIsComplete DEF LogComplete
  <2> QED
    BY <1>1, <1>7, <1>8, <1>9, <2>1, <2>2, <2>3 DEF TaskTellsLastAttempt
<1> QED
  BY <1>1, <1>8, <1>10, <1>11, <1>12, <1>13, <1>14 DEF ReportInv, OutcomeIsAlive

\* The verdict goes on record.
LEMMA FinalizeKeepsReport ==
    ASSUME ReportInv, Finalize
    PROVE  ReportInv'
<1>1. /\ stage = "emitted" /\ stage' = "recorded"
      /\ record' = result \/ record' = record
      /\ lost' \in {lost, lost \cup {"record"}}
      /\ UNCHANGED <<attempt, retries, taskFile>>
  BY DEF Finalize
<1>2. /\ AttemptInv' /\ AttemptTypeOK' /\ TaskKind' = TaskKind
      /\ LockSaid' = LockSaid /\ TailOfSaid' = TailOfSaid
  BY <1>1, AttemptStands DEF ReportInv, TypeOK
<1>3. UNCHANGED <<exit, said, log, pc, result>>
  BY <1>1 DEF attempt, child, drains, file, driver
<1>4. pc = "end" /\ ~WillRetry /\ record = "running"
  BY <1>1 DEF ReportInv, LoopIsOver, RecordFollows
<1>5. result \in Verdicts
  BY <1>1, <1>4, LoopEndsConcluded
<1>6. TypeOK'
  BY <1>1, <1>2, <1>5 DEF ReportInv, TypeOK, Stages
<1>7. LoopIsOver'
  BY <1>1, <1>3, <1>4 DEF LoopIsOver, WillRetry
<1>8. TaskFollows'
  BY <1>1, <1>2 DEF ReportInv, TaskFollows, IsWhole
<1>9. RecordFollows'
  BY <1>1, <1>3, <1>4 DEF RecordFollows
<1>10. AtMostOneTask' /\ TaskTellsLastAttempt'
  BY <1>1, <1>2, <1>3 DEF ReportInv, AtMostOneTask, TaskTellsLastAttempt, IsWhole
<1> QED
  BY <1>1, <1>2, <1>6, <1>7, <1>8, <1>9, <1>10 DEF ReportInv, OutcomeIsAlive

\* The process dies: what the files say of the past stays true.
LEMMA CrashKeepsReport ==
    ASSUME ReportInv, Crash
    PROVE  ReportInv'
<1>1. /\ stage # "recorded" /\ stage' = "dead"
      /\ todo' = <<>> /\ pipe' = NoLines
      /\ unwritten' = <<>> /\ ring' = <<>> /\ collected' = <<>>
      /\ pc' = "end" /\ result' = "none"
      /\ UNCHANGED <<exit, said, drain, log, retries, taskFile, record, lost>>
  BY DEF Crash
<1>2. <<>> \in Seq(Lines) /\ <<>> \in Seq(Streams \X Lines) /\ Len(<<>>) = 0
  OBVIOUS
<1>3. AttemptTypeOK'
  <2>1. pipe' \in [Streams -> Seq(Lines)] /\ \A s \in Streams : pipe'[s] = <<>>
    BY <1>1, <1>2 DEF NoLines
  <2>2. \A s \in Streams : Len(pipe'[s]) <= PipeCap
    BY <1>2, <2>1, SizesAssumption
  <2>3. Len(unwritten') <= 1 /\ Len(ring') <= TailLines /\ Len(collected') <= StderrLines
    BY <1>1, <1>2, SizesAssumption
  <2> QED
    BY <1>1, <1>2, <2>1, <2>2, <2>3 DEF ReportInv, TypeOK, AttemptTypeOK
<1>4. TypeOK'
  BY <1>1, <1>3 DEF ReportInv, TypeOK, Stages
<1>5. RecordFollows' /\ AtMostOneTask'
  BY <1>1 DEF ReportInv, RecordFollows, AtMostOneTask
<1>6. LockSaid' = LockSaid /\ TailOfSaid' = TailOfSaid
  BY <1>1 DEF LockSaid, TailOfSaid, ErrSaid
<1>7. TaskTellsLastAttempt'
  BY <1>1, <1>6 DEF ReportInv, TaskTellsLastAttempt, IsWhole
<1> QED
  BY <1>1, <1>4, <1>5, <1>7 DEF ReportInv, OutcomeIsAlive

-------------------------------------------------------------------------------
\* The invariant.

LEMMA ReportStarts ==
    ASSUME Init
    PROVE  ReportInv
<1>1. AttemptInv
  BY AttemptStarts DEF Init
<1>2. \A k \in Kinds : taskFile[k] = NoFile
  BY DEF Init
<1>3. TypeOK
  <2>1. taskFile \in [Kinds -> [state : {"none", "torn", "whole"}, tail : Seq(Lines),
                                lock : Lines \cup {"none"}]]
    BY FilesAreTyped DEF Init
  <2> QED
    BY <1>1, <2>1, RetriesAssumption DEF Init, TypeOK, AttemptInv, Stages
<1>4. LoopIsOver /\ TaskFollows /\ RecordFollows /\ AtMostOneTask /\ TaskTellsLastAttempt
  BY <1>2, FilesAreTyped DEF Init, LoopIsOver, TaskFollows, RecordFollows, AtMostOneTask,
                             TaskTellsLastAttempt, IsWhole
<1> QED
  BY <1>1, <1>3, <1>4 DEF Init, ReportInv, OutcomeIsAlive

LEMMA StutterKeepsReport ==
    ASSUME ReportInv, UNCHANGED vars
    PROVE  ReportInv'
<1>1. UNCHANGED <<attempt, retries, stage, taskFile, record, lost>>
  BY DEF vars, report
<1>2. UNCHANGED <<exit, said, log, pc, result>>
  BY <1>1 DEF attempt, child, drains, file, driver
<1>3. /\ AttemptInv' = AttemptInv /\ AttemptTypeOK' = AttemptTypeOK
      /\ TaskKind' = TaskKind /\ LockSaid' = LockSaid /\ TailOfSaid' = TailOfSaid
  BY <1>1, AttemptStands
<1>4. TypeOK'
  BY <1>1, <1>3 DEF ReportInv, TypeOK
<1>5. stage' # "dead" => AttemptInv' /\ LoopIsOver' /\ TaskFollows'
  BY <1>1, <1>2, <1>3 DEF ReportInv, LoopIsOver, WillRetry, TaskFollows, IsWhole
<1>6. RecordFollows' /\ AtMostOneTask' /\ TaskTellsLastAttempt'
  BY <1>1, <1>2, <1>3 DEF ReportInv, RecordFollows, AtMostOneTask, TaskTellsLastAttempt,
                          IsWhole
<1> QED
  BY <1>1, <1>2, <1>4, <1>5, <1>6 DEF ReportInv, OutcomeIsAlive

\* Nothing a run or its terraform does breaks the invariant: what is kept of the
\* output is what was said, an outcome rests on all of it, and the files follow
\* the outcome, in every order of steps, with every failure and at every death.
THEOREM ReportCorrect == Spec => []ReportInv
<1>1. ReportInv /\ [Next]_vars => ReportInv'
  <2> SUFFICES ASSUME ReportInv, [Next]_vars PROVE ReportInv'
    OBVIOUS
  <2>1. CASE AttemptGoesOn
    BY <2>1, AttemptKeepsReport
  <2>2. CASE ReportStep
    BY <2>2, RetryKeepsReport, NoWriteKeepsReport, OpenKeepsReport, WriteKeepsReport,
       FinalizeKeepsReport DEF ReportStep
  <2>3. CASE EmitFails
    BY <2>3, NoWriteKeepsReport
  <2>4. CASE Crash
    BY <2>4, CrashKeepsReport
  <2>5. CASE Idle \/ UNCHANGED vars
    BY <2>5, StutterKeepsReport DEF Idle
  <2> QED
    BY <2>1, <2>2, <2>3, <2>4, <2>5, AttemptOrReport
<1> QED
  BY <1>1, ReportStarts, PTL DEF Spec

-------------------------------------------------------------------------------
\* What runs check, for every size.

\* Type correctness; the pipes, the ring and the kept stderr never outgrow their
\* bounds, however much terraform writes (TAIL_LINES, STDERR_CAP_BYTES).
THEOREM TypeCorrect == Spec => []TypeOK
<1>1. ReportInv => TypeOK
  BY DEF ReportInv
<1> QED
  BY <1>1, ReportCorrect, PTL

\* An outcome is given only when the log on disk is everything that terraform wrote
\* to stdout in this attempt: a verdict never overtakes the drain, nor its flush.
THEOREM LogIsWhole == Spec => []LogComplete
<1>1. ReportInv => LogComplete
  BY LogIsComplete DEF ReportInv, LogComplete, OutcomeIsAlive, Concluded, Outcomes
<1> QED
  BY <1>1, ReportCorrect, PTL

\* The tail in a report is the end of what this attempt wrote.
THEOREM TailIsTrue == Spec => []ReportIsTail
<1>1. ReportInv => ReportIsTail
  BY TailIsReported DEF ReportInv, ReportIsTail, OutcomeIsAlive, Concluded, Outcomes
<1> QED
  BY <1>1, ReportCorrect, PTL

\* A failure is put down to the state lock exactly if terraform said so where the
\* driver looks.
THEOREM VerdictIsTrue == Spec => []VerdictMatchesOutput
<1>1. ReportInv => VerdictMatchesOutput
  BY VerdictIsRight DEF ReportInv, VerdictMatchesOutput, OutcomeIsAlive, Concluded, Outcomes
<1> QED
  BY <1>1, ReportCorrect, PTL

\* A task that is whole tells of the last attempt, also when its process is dead.
THEOREM TasksTellTheLast == Spec => []TaskTellsLastAttempt
<1>1. ReportInv => TaskTellsLastAttempt
  BY DEF ReportInv
<1> QED
  BY <1>1, ReportCorrect, PTL

\* What a verdict on record says of the files.
LEMMA RecordIsBacked ==
    ASSUME ReportInv, record # "running"
    PROVE  /\ stage = "recorded" /\ record = result
           /\ \A k \in Kinds : taskFile[k] # NoFile => k \in TaskKind
           /\ \A k \in TaskKind : IsWhole(k) \/ "task" \in lost
BY DEF ReportInv, RecordFollows, TaskFollows

\* A run leaves one task at most, and none if it ended well.
THEOREM OneTask == Spec => []OneTaskPerRun
<1>1. ASSUME ReportInv PROVE OneTaskPerRun
  <2>1. ASSUME record \in {"Success", "PlanChanges", "driver_error"}
        PROVE  \A k \in Kinds : taskFile[k] = NoFile
    <3>1. result = record /\ \A k \in Kinds : taskFile[k] # NoFile => k \in TaskKind
      BY <1>1, <2>1, RecordIsBacked
    <3>2. TaskKind = {}
      BY <2>1, <3>1 DEF TaskKind
    <3> QED
      BY <3>1, <3>2
  <2> QED
    BY <1>1, <2>1 DEF OneTaskPerRun, ReportInv, AtMostOneTask
<1> QED
  BY <1>1, ReportCorrect, PTL

\* A failure on record has its task, written to the end, unless that write failed.
THEOREM FailuresHaveTasks == Spec => []RecordedFailureHasTask
<1>1. ASSUME ReportInv PROVE RecordedFailureHasTask
  <2> SUFFICES ASSUME record \in {"ConfigError", "StateLock"}, "task" \notin lost
               PROVE  \/ record = "ConfigError" /\ IsWhole("task_tf_apply_fail")
                      \/ record = "StateLock" /\ IsWhole("task_tf_apply_lock")
    BY DEF RecordedFailureHasTask
  <2>1. result = record /\ \A k \in TaskKind : IsWhole(k)
    BY <1>1, RecordIsBacked
  <2>2. CASE record = "ConfigError"
    BY <2>1, <2>2 DEF TaskKind
  <2>3. CASE record = "StateLock"
    BY <2>1, <2>3 DEF TaskKind
  <2> QED
    BY <2>2, <2>3
<1> QED
  BY <1>1, ReportCorrect, PTL

===============================================================================
