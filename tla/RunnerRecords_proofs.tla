------------------------- MODULE RunnerRecords_proofs -------------------------
(***************************************************************************)
(* Proofs about the records and the tasks of Runner.                       *)
(*                                                                         *)
(* Two inductive invariants.  LedgerInv needs nothing but RunnerInv and    *)
(* holds in every deployment: an outcome rests on the last exit, a task    *)
(* and a verdict rest on the outcome, the verdicts in a mixture included.  *)
(* SoloInv holds where instances do not overlap: reconciliation then runs  *)
(* while no run is in flight, no record has two writers, and what has been *)
(* read of a record is still true when it is written back.                 *)
(***************************************************************************)
EXTENDS Runner_proofs

-------------------------------------------------------------------------------
\* Every deployment.

Concluded(r) == stage[r] \in {"concluded", "emitted", "finalized"}

\* An outcome is what the last exit is read as, and is final once it is there.
OutcomeRests(r) ==
    /\ stage[r] = "exited" => exit[r] \in Exits
    /\ Concluded(r) => outcome[r] \in Outcomes
    /\ outcome[r] # "none" => Concluded(r) \/ stage[r] \in {"panicked", "lost"}
    /\ outcome[r] \notin {"none", "DriverError"} =>
          exit[r] \in Exits /\ outcome[r] = Classify(applies[r], exit[r])
    /\ outcome[r] = "StateLock" => retries[r] = 0

\* A task comes after the outcome it is for, and is missing only if it was lost.
TaskRests(r) ==
    /\ task[r] # "none" =>
          /\ stage[r] \in {"emitted", "finalized", "panicked", "lost"}
          /\ task[r] = TaskOf(outcome[r])
    /\ stage[r] \in {"emitted", "finalized"} =>
          task[r] = TaskOf(outcome[r]) \/ <<r, "task">> \in lost

\* A verdict on record, or on its way there, is that of the outcome, and has its
\* task.
VerdictRests(r) ==
    \A s \in (mixed[r] \cup {status[r]}) \cap Contract!Verdicts :
        /\ stage[r] \in {"emitted", "finalized", "panicked", "lost"}
        /\ outcome[r] \in Outcomes /\ s = StateOf(outcome[r])
        /\ task[r] = TaskOf(outcome[r]) \/ <<r, "task">> \in lost

\* A run that was answered has a file under the name of its record, unless the write
\* failed; one that was not answered yet has none, and nobody has a copy of it.
AnswerRests(r) ==
    /\ stage[r] \notin {"unborn", "admitted", "lost"} /\ <<r, "running">> \notin lost
          => status[r] # "absent"
    /\ stage[r] \in {"unborn", "admitted"} =>
          status[r] = "absent" /\ \A p \in Processes : stale[p] # r

\* A mixture has somebody who is still writing it.
MixtureRests(r) == mixed[r] # {} => mixed[r] \cap InHand(r) # {}

RunLedger(r) ==
    OutcomeRests(r) /\ TaskRests(r) /\ VerdictRests(r) /\ AnswerRests(r) /\ MixtureRests(r)

LedgerInv == \A r \in Runs : RunLedger(r)

-------------------------------------------------------------------------------
\* Instances that do not overlap.

OneUp == \A p, q \in Processes : phase[p] # "down" /\ phase[q] # "down" => p = q

\* Runs are in flight only while a server is up.
FlightIsServed == (\E r \in Runs : InFlight(r)) => Serving

\* A record that was read for a rewrite is still as it was read, and no record
\* that has to be rewritten is missed.
WalkCovers ==
    \A p \in Processes :
        /\ stale[p] # NoRun => phase[p] = "reconciling" /\ status[stale[p]] = "running"
        /\ phase[p] = "reconciling" =>
              \A r \in Runs : status[r] = "running" =>
                  r \in walk[p] \/ stale[p] = r \/ Excused(r)

\* The record of a run keeps up with its stage, and is never mixed.
RecordKeepsUp(r) ==
    /\ mixed[r] = {} /\ status[r] # "torn"
    /\ stage[r] \in {"unborn", "admitted"} => status[r] = "absent"
    /\ InFlight(r) => status[r] \in {"absent", "running"}
    /\ stage[r] = "finalized" => status[r] = StateOf(outcome[r]) \/ <<r, "terminal">> \in lost
    /\ status[r] = "interrupted" =>
          stage[r] = "lost" \/ stage[r] = "panicked" \/ <<r, "terminal">> \in lost

SoloInv ==
    /\ OneUp
    /\ FlightIsServed
    /\ WalkCovers
    /\ \A r \in Runs : RecordKeepsUp(r)
    /\ RunningRecordIsLive

-------------------------------------------------------------------------------
\* Steps that concern one run.

RunStep(r) ==
    \/ \E d \in Dirs, apply \in BOOLEAN : Admit(d, r, apply)
    \/ HandlerStep(r) \/ TaskStep(r) \/ TerraformStep(r) \/ TaskPanic(r) \/ SharedWrite(r)

\* All that the invariants say of run s is as before.
Same(s) ==
    /\ applies'[s] = applies[s] /\ stage'[s] = stage[s] /\ retries'[s] = retries[s]
    /\ exit'[s] = exit[s] /\ outcome'[s] = outcome[s]
    /\ status'[s] = status[s] /\ task'[s] = task[s] /\ mixed'[s] = mixed[s]

\* Every step is one of these.
LEMMA StepKinds ==
    [Next]_vars =>
        \/ \E r \in Runs : RunStep(r)
        \/ \E p \in Processes : StartupStep(p) \/ Crash(p)
        \/ UNCHANGED vars
BY DEF Next, RunStep, Idle

\* A step of one run leaves the other runs, the processes and the losses of
\* others alone.
LEMMA OthersKept ==
    ASSUME RunTypeOK, NEW r \in Runs, RunStep(r)
    PROVE  /\ \A s \in Runs : s # r => Same(s)
           /\ lost \subseteq lost'
           /\ UNCHANGED process
<1> USE DEF RunTypeOK, Same, Goto, driver, disk
<1>1. ASSUME NEW d \in Dirs, NEW apply \in BOOLEAN, Admit(d, r, apply)
      PROVE  (\A s \in Runs : s # r => Same(s)) /\ lost \subseteq lost' /\ UNCHANGED process
  BY <1>1 DEF Admit
<1>2. CASE HandlerStep(r)
  BY <1>2 DEF HandlerStep, PersistRunning, SpawnTask, Record, Lose
<1>3. CASE StartTerraform(r) \/ SpawnFails(r) \/ Collect(r) \/ DrainFails(r) \/ Retry(r)
  BY <1>3 DEF StartTerraform, SpawnFails, Collect, DrainFails, Retry
<1>4. CASE EmitTask(r) \/ Finalize(r) \/ TaskPanic(r)
  BY <1>4 DEF EmitTask, Finalize, TaskPanic, Record, Lose
<1>5. CASE DropEntry(r) \/ DropPermit(r)
  BY <1>5 DEF DropEntry, DropPermit
<1>6. CASE TerraformStep(r)
  BY <1>6 DEF TerraformStep, OrphanExit, TerraformExit
<1>7. CASE SharedWrite(r)
  BY <1>7 DEF SharedWrite, Meet, Scribble
<1> QED
  BY <1>1, <1>2, <1>3, <1>4, <1>5, <1>6, <1>7 DEF RunStep, TaskStep

-------------------------------------------------------------------------------
\* LedgerInv.

\* What a verdict is and what is none.
LEMMA VerdictStates ==
    /\ Contract!Verdicts = {StateOf(o) : o \in Outcomes}
    /\ "absent" \notin Contract!Verdicts /\ "running" \notin Contract!Verdicts
    /\ "interrupted" \notin Contract!Verdicts
BY DEF Contract!Verdicts, StateOf, Outcomes

\* What the writers of a record hold, and what a rename of one of them leaves.
LEMMA InHandKinds ==
    ASSUME NEW r \in Runs
    PROVE  /\ InHand(r) \cap Contract!Verdicts \subseteq {StateOf(outcome[r])}
           /\ \A s \in InHand(r) \cap Contract!Verdicts : stage[r] = "emitted"
BY VerdictStates DEF InHand

LEMMA LeftKinds ==
    ASSUME NEW r \in Runs, NEW s, NEW left \in Left(r, s)
    PROVE  left \in {s, "torn", status[r]} \cup mixed[r]
BY DEF Left

\* A mixture grows only as its record is met by one more writer, and loses nobody
\* but all of them.
LEMMA StillMixedKinds ==
    ASSUME NEW r \in Runs
    PROVE  /\ StillMixed(r) \subseteq mixed[r]
           /\ StillMixed(r) # {} => StillMixed(r) \cap InHand(r)' # {}
BY DEF StillMixed

LEMMA LedgerInit == Init => LedgerInv
BY VerdictStates, RegistryAssumption
DEF Init, LedgerInv, RunLedger, OutcomeRests, TaskRests, VerdictRests, AnswerRests,
    MixtureRests, Concluded, TaskOf

\* A run that is left alone keeps its part of the invariant.
LEMMA LedgerSame ==
    ASSUME NEW s \in Runs, RunLedger(s), Same(s), lost \subseteq lost',
           \A p \in Processes : stale'[p] = s <=> stale[p] = s
    PROVE  RunLedger(s)'
<1>1. InHand(s)' = InHand(s)
  BY DEF InHand, Same
<1> QED
  BY <1>1 DEF RunLedger, OutcomeRests, TaskRests, VerdictRests, AnswerRests, MixtureRests,
              Concluded, Same

\* What the run that takes the step does to its outcome and its task.
LEMMA LedgerOwnWork ==
    ASSUME RunTypeOK, NEW r \in Runs, RunLedger(r), RunStep(r)
    PROVE  OutcomeRests(r)' /\ TaskRests(r)'
<1> USE DEF RunTypeOK, RunLedger, OutcomeRests, TaskRests, Concluded, Goto, driver, disk
<1>0. outcome[r] = "none" => TaskOf(outcome[r]) = "none"
  BY DEF TaskOf
<1>1. ASSUME NEW d \in Dirs, NEW apply \in BOOLEAN, Admit(d, r, apply)
      PROVE  OutcomeRests(r)' /\ TaskRests(r)'
  BY <1>1 DEF Admit
<1>2. CASE PersistRunning(r)
  BY <1>2 DEF PersistRunning, Record, Lose
<1>3. CASE SpawnTask(r) \/ StartTerraform(r) \/ Retry(r) \/ TaskPanic(r)
  BY <1>3 DEF SpawnTask, StartTerraform, Retry, TaskPanic
<1>4. CASE SpawnFails(r) \/ DrainFails(r)
  BY <1>4 DEF SpawnFails, DrainFails, Outcomes
<1>5. CASE Collect(r)
  <2>1. Classify(applies[r], exit[r]) \in Outcomes
    BY DataTypes
  <2> QED
    BY <1>5, <2>1 DEF Collect
<1>6. ASSUME NEW e \in Exits, TerraformExit(r, e) PROVE OutcomeRests(r)' /\ TaskRests(r)'
  BY <1>6 DEF TerraformExit
<1>7. CASE EmitTask(r)
  BY <1>7 DEF EmitTask, Lose
<1>8. CASE Finalize(r)
  BY <1>8 DEF Finalize, Record, Lose
<1>9. CASE DropEntry(r) \/ DropPermit(r) \/ OrphanExit(r)
  BY <1>9 DEF DropEntry, DropPermit, OrphanExit
<1>10. CASE Meet(r) \/ Scribble(r)
  BY <1>10 DEF Meet, Scribble
<1> QED
  BY <1>1, <1>2, <1>3, <1>4, <1>5, <1>6, <1>7, <1>8, <1>9, <1>10
  DEF RunStep, HandlerStep, TaskStep, TerraformStep, SharedWrite

\* The stages between the answer and the verdict.
Working == {"persisted", "ready", "executing", "exited", "backoff", "concluded"}

\* A move between these leaves what is on record, and what is on its way there, alone.
LEMMA WorkingMove ==
    ASSUME RunTypeOK, NEW r \in Runs, RunLedger(r), UNCHANGED <<process, disk>>,
           stage[r] \in Working, stage'[r] \in Working
    PROVE  VerdictRests(r)' /\ AnswerRests(r)' /\ MixtureRests(r)'
<1>1. UNCHANGED <<stale, status, task, lost, mixed>>
  BY DEF process, disk
<1>2. InHand(r)' = InHand(r)
  BY <1>1 DEF InHand, Working
<1> QED
  BY <1>1, <1>2 DEF RunLedger, VerdictRests, AnswerRests, MixtureRests, Working

\* And what the run that takes the step does to its record.
LEMMA LedgerOwnRecord ==
    ASSUME RunTypeOK, NEW r \in Runs, RunLedger(r), RunStep(r)
    PROVE  VerdictRests(r)' /\ AnswerRests(r)' /\ MixtureRests(r)'
<1>0. /\ stage \in [Runs -> Stages] /\ status \in [Runs -> States]
      /\ task \in [Runs -> {"none", "config", "stale_lock"}]
      /\ mixed \in [Runs -> SUBSET {s \in States : IsTerminal(s)}]
      /\ "absent" \notin mixed[r] /\ lost \subseteq lost' /\ UNCHANGED stale
  BY OthersKept DEF RunTypeOK, IsTerminal, Readable, process
<1>1. CASE \E d \in Dirs, apply \in BOOLEAN : Admit(d, r, apply)
  <2>1. /\ stage[r] = "unborn" /\ stage'[r] = "admitted"
        /\ UNCHANGED <<stale, status, task, lost, mixed, outcome>>
    BY <1>0, <1>1 DEF Admit, Goto, process, driver, disk
  <2>2. InHand(r)' = InHand(r)
    BY <2>1 DEF InHand
  <2> QED
    BY <2>1, <2>2 DEF RunLedger, VerdictRests, AnswerRests, MixtureRests
<1>2. CASE PersistRunning(r)
  <2>1. /\ stage[r] = "admitted" /\ stage'[r] = "persisted"
        /\ \/ status'[r] \in Left(r, "running")
           \/ status'[r] = status[r] /\ <<r, "running">> \in lost'
        /\ mixed'[r] = StillMixed(r)
    BY <1>0, <1>2 DEF PersistRunning, Record, Lose, Goto
  <2>2. mixed[r] = {} /\ status[r] = "absent"
    BY <2>1 DEF RunLedger, AnswerRests, MixtureRests, InHand
  <2>3. mixed'[r] = {} /\ Left(r, "running") = {"running"}
    BY <2>1, <2>2 DEF StillMixed, Left
  <2> QED
    BY <2>1, <2>2, <2>3, VerdictStates DEF VerdictRests, AnswerRests, MixtureRests
<1>3. CASE \/ SpawnTask(r) \/ StartTerraform(r) \/ Retry(r) \/ SpawnFails(r) \/ DrainFails(r)
           \/ Collect(r) \/ \E e \in Exits : TerraformExit(r, e)
  <2>1. UNCHANGED <<process, disk>> /\ stage[r] \in Working /\ stage'[r] \in Working
    BY <1>0, <1>3 DEF SpawnTask, StartTerraform, Retry, SpawnFails, DrainFails, Collect,
                      TerraformExit, Goto, Working
  <2> QED
    BY <2>1, WorkingMove
<1>4. CASE EmitTask(r)
  <2>1. /\ stage[r] = "concluded" /\ stage'[r] = "emitted"
        /\ UNCHANGED <<status, mixed, outcome>>
    BY <1>0, <1>4 DEF EmitTask, Goto, driver
  <2>2. InHand(r) \subseteq InHand(r)'
    BY <1>0, <2>1 DEF InHand
  <2> QED
    BY <1>0, <2>1, <2>2 DEF RunLedger, VerdictRests, AnswerRests, MixtureRests
<1>5. CASE Finalize(r)
  <2>1. /\ stage[r] = "emitted" /\ stage'[r] = "finalized"
        /\ status'[r] \in Left(r, StateOf(outcome[r])) \/ status'[r] = status[r]
        /\ mixed'[r] = StillMixed(r) /\ UNCHANGED <<outcome, task>>
    BY <1>0, <1>5 DEF Finalize, Record, Lose, Goto, driver
  <2>2. status'[r] \in {StateOf(outcome[r]), "torn", status[r]} \cup mixed[r]
    BY <2>1, LeftKinds
  <2>3. outcome[r] \in Outcomes /\ (task[r] = TaskOf(outcome[r]) \/ <<r, "task">> \in lost)
    BY <2>1 DEF RunLedger, OutcomeRests, TaskRests, Concluded
  <2>4. StateOf(outcome[r]) # "absent"
    BY <2>3, VerdictStates
  <2>5. VerdictRests(r)'
    BY <1>0, <2>1, <2>2, <2>3, StillMixedKinds DEF RunLedger, VerdictRests, Contract!Verdicts
  <2>6. AnswerRests(r)' /\ MixtureRests(r)'
    BY <1>0, <2>1, <2>2, <2>4, StillMixedKinds DEF RunLedger, AnswerRests, MixtureRests
  <2> QED
    BY <2>5, <2>6
<1>6. CASE TaskPanic(r)
  <2>1. /\ stage[r] \in {"ready", "exited", "concluded", "emitted"} /\ stage'[r] = "panicked"
        /\ stage[r] = "emitted" => StateOf(outcome[r]) \notin mixed[r]
        /\ UNCHANGED <<status, task, lost, mixed, outcome>>
    BY <1>0, <1>6 DEF TaskPanic, Goto, driver, disk
  <2>2. mixed[r] \cap InHand(r) \subseteq InHand(r)'
    BY <1>0, <2>1 DEF InHand
  <2> QED
    BY <1>0, <2>1, <2>2 DEF RunLedger, VerdictRests, AnswerRests, MixtureRests
<1>7. CASE Meet(r)
  <2>1. /\ mixed'[r] = mixed[r] \cup InHand(r)
        /\ UNCHANGED <<stage, status, task, lost, outcome>>
    BY <1>0, <1>7 DEF Meet, driver
  <2>2. InHand(r)' = InHand(r) /\ InHand(r) # {}
    BY <1>0, <1>7, <2>1 DEF Meet, Contended, InHand
  <2>3. stage[r] = "emitted" =>
            outcome[r] \in Outcomes /\ (task[r] = TaskOf(outcome[r]) \/ <<r, "task">> \in lost)
    BY DEF RunLedger, OutcomeRests, TaskRests, Concluded
  <2>4. VerdictRests(r)'
    BY <2>1, <2>3, InHandKinds DEF RunLedger, VerdictRests
  <2> QED
    BY <1>0, <2>1, <2>2, <2>4 DEF RunLedger, AnswerRests, MixtureRests
<1>8. CASE Scribble(r)
  <2>1. /\ status'[r] \in mixed[r] \cup {"torn"} /\ mixed[r] # {}
        /\ UNCHANGED <<stage, task, lost, mixed, outcome>>
    BY <1>0, <1>8 DEF Scribble, driver
  <2>2. InHand(r)' = InHand(r)
    BY <1>0, <2>1 DEF InHand
  <2>3. stage[r] \notin {"unborn", "admitted"}
    BY <2>1 DEF RunLedger, AnswerRests, MixtureRests, InHand
  <2> QED
    BY <1>0, <2>1, <2>2, <2>3, VerdictStates
    DEF RunLedger, VerdictRests, AnswerRests, MixtureRests, Contract!Verdicts
<1>9. CASE DropEntry(r) \/ DropPermit(r) \/ OrphanExit(r)
  <2>1. Same(r) /\ lost \subseteq lost' /\ UNCHANGED stale
    BY <1>0, <1>9 DEF DropEntry, DropPermit, OrphanExit, Same, driver, disk
  <2> QED
    BY <2>1, LedgerSame DEF RunLedger
<1> QED
  BY <1>1, <1>2, <1>3, <1>4, <1>5, <1>6, <1>7, <1>8, <1>9
  DEF RunStep, HandlerStep, TaskStep, TerraformStep, SharedWrite

LEMMA LedgerStep ==
    ASSUME RunTypeOK, LedgerInv, [Next]_vars
    PROVE  LedgerInv'
<1>1. ASSUME NEW r \in Runs, RunStep(r) PROVE LedgerInv'
  <2>1. RunLedger(r)'
    BY <1>1, LedgerOwnWork, LedgerOwnRecord DEF LedgerInv, RunLedger
  <2>2. ASSUME NEW s \in Runs, s # r PROVE RunLedger(s)'
    BY <1>1, <2>2, OthersKept, LedgerSame DEF LedgerInv, process
  <2> QED
    BY <2>1, <2>2 DEF LedgerInv
<1>2. ASSUME NEW p \in Processes, Start(p) \/ Serve(p) \/ BindFails(p) PROVE LedgerInv'
  <2>1. lost \subseteq lost' /\ UNCHANGED stale /\ \A s \in Runs : Same(s)
    BY <1>2 DEF Start, Serve, BindFails, driver, disk, Same
  <2> QED
    BY <2>1, LedgerSame DEF LedgerInv
<1>3. ASSUME NEW p \in Processes, NEW r \in Runs, ReconcileRead(p, r) PROVE LedgerInv'
  <2>1. /\ lost \subseteq lost' /\ \A s \in Runs : Same(s)
        /\ stale[p] = NoRun
        /\ stale' = stale \/ (stale' = [stale EXCEPT ![p] = r] /\ status[r] = "running")
    BY <1>3 DEF ReconcileRead, Lose, driver, Same
  <2>2. \A s \in Runs : s # r => RunLedger(s)'
    <3> SUFFICES ASSUME NEW s \in Runs, s # r PROVE RunLedger(s)'
      OBVIOUS
    <3>1. \A q \in Processes : stale'[q] = s <=> stale[q] = s
      BY <2>1, RegistryAssumption DEF RunTypeOK
    <3> QED
      BY <2>1, <3>1, LedgerSame DEF LedgerInv
  <2>3. RunLedger(r)'
    <3>1. CASE stale' = stale
      BY <2>1, <3>1, LedgerSame DEF LedgerInv
    <3>2. CASE stale' # stale
      <4>1. stage[r] \notin {"unborn", "admitted"}
        BY <2>1, <3>2 DEF LedgerInv, RunLedger, AnswerRests
      <4>2. InHand(r) \subseteq InHand(r)'
        BY <2>1, RegistryAssumption DEF InHand, Same, RunTypeOK
      <4> QED
        BY <2>1, <4>1, <4>2
        DEF LedgerInv, RunLedger, OutcomeRests, TaskRests, VerdictRests, AnswerRests,
            MixtureRests, Concluded, Same
    <3> QED
      BY <3>1, <3>2
  <2> QED
    BY <2>2, <2>3 DEF LedgerInv
<1>4. ASSUME NEW p \in Processes, NEW r \in Runs, ReconcileWrite(p, r) PROVE LedgerInv'
  <2>1. /\ lost \subseteq lost' /\ \A s \in Runs : s # r => Same(s)
        /\ UNCHANGED <<applies, stage, retries, exit, outcome, task>>
        /\ stale[p] = r /\ stale' = [stale EXCEPT ![p] = NoRun]
        /\ status'[r] \in Left(r, "interrupted") \/ status'[r] = status[r]
        /\ mixed'[r] = StillMixed(r)
    BY <1>4 DEF ReconcileWrite, Record, Lose, driver, Same, RunTypeOK
  <2>2. \A s \in Runs : s # r => RunLedger(s)'
    <3> SUFFICES ASSUME NEW s \in Runs, s # r PROVE RunLedger(s)'
      OBVIOUS
    <3>1. \A q \in Processes : stale'[q] = s <=> stale[q] = s
      BY <2>1, RegistryAssumption DEF RunTypeOK
    <3> QED
      BY <2>1, <3>1, LedgerSame DEF LedgerInv
  <2>3. RunLedger(r)'
    <3>1. status'[r] \in {"interrupted", "torn", status[r]} \cup mixed[r]
      BY <2>1, LeftKinds
    <3>2. stage[r] \notin {"unborn", "admitted"} /\ "absent" \notin mixed[r]
      BY <2>1 DEF LedgerInv, RunLedger, AnswerRests, RunTypeOK, IsTerminal, Readable
    <3>3. VerdictRests(r)'
      BY <2>1, <3>1, VerdictStates, StillMixedKinds
      DEF LedgerInv, RunLedger, VerdictRests, Contract!Verdicts
    <3>4. AnswerRests(r)' /\ MixtureRests(r)'
      BY <2>1, <3>1, <3>2, StillMixedKinds
      DEF LedgerInv, RunLedger, AnswerRests, MixtureRests
    <3>5. OutcomeRests(r)' /\ TaskRests(r)'
      BY <2>1 DEF LedgerInv, RunLedger, OutcomeRests, TaskRests, Concluded
    <3> QED
      BY <3>3, <3>4, <3>5 DEF RunLedger
  <2> QED
    BY <2>2, <2>3 DEF LedgerInv
<1>5. ASSUME NEW p \in Processes, Crash(p) PROVE LedgerInv'
  <2>1. /\ UNCHANGED <<applies, retries, exit, outcome, status, task, lost>>
        /\ stale' = [stale EXCEPT ![p] = NoRun]
        /\ \A s \in Runs : stage'[s] = stage[s] \/ (InFlight(s) /\ stage'[s] = "lost")
        /\ \A s \in Runs : mixed'[s] = StillMixed(s)
    BY <1>5 DEF Crash, RunTypeOK
  <2> SUFFICES ASSUME NEW s \in Runs PROVE RunLedger(s)'
    BY DEF LedgerInv
  <2>2. OutcomeRests(s)' /\ TaskRests(s)'
    BY <2>1 DEF LedgerInv, RunLedger, OutcomeRests, TaskRests, Concluded, InFlight
  <2>3. VerdictRests(s)' /\ MixtureRests(s)'
    BY <2>1, StillMixedKinds DEF LedgerInv, RunLedger, VerdictRests, MixtureRests, InFlight
  <2>4. AnswerRests(s)'
    BY <2>1, RegistryAssumption DEF LedgerInv, RunLedger, AnswerRests, RunTypeOK, InFlight
  <2> QED
    BY <2>2, <2>3, <2>4 DEF RunLedger
<1>6. CASE UNCHANGED vars
  BY <1>6, LedgerSame DEF LedgerInv, vars, process, driver, disk, Same
<1> QED
  BY <1>1, <1>2, <1>3, <1>4, <1>5, <1>6, StepKinds DEF StartupStep

\* In every deployment an outcome rests on the last exit, a task and a verdict on the
\* outcome, and an answered run has its record, unless a write failed.
THEOREM LedgerCorrect == Spec => [](RunnerInv /\ LedgerInv)
<1>1. RunnerInv /\ LedgerInv /\ [Next]_vars => LedgerInv'
  BY LedgerStep DEF RunnerInv
<1> QED
  BY <1>1, RunnerCorrect, LedgerInit, PTL DEF Spec

-------------------------------------------------------------------------------
\* What LedgerInv gives.

\* Which outcome a verdict stands for.
LEMMA VerdictOutcomes ==
    ASSUME NEW o \in Outcomes
    PROVE  /\ StateOf(o) = "apply_success" => o = "ApplySuccess"
           /\ StateOf(o) = "plan_no_changes" => o = "PlanNoChanges"
           /\ StateOf(o) = "plan_changes" => o = "PlanChanges"
           /\ StateOf(o) = "config_error" => o = "ConfigError"
           /\ StateOf(o) = "state_lock_unresolved" => o = "StateLock"
           /\ StateOf(o) = "driver_error" => o = "DriverError"
BY DEF StateOf, Outcomes

\* Which exits an outcome is read from.
LEMMA OutcomeExits ==
    ASSUME NEW apply \in BOOLEAN, NEW e \in Exits
    PROVE  /\ Classify(apply, e) = "ApplySuccess" => apply /\ e = <<0, FALSE>>
           /\ Classify(apply, e) = "PlanNoChanges" => ~apply /\ e = <<0, FALSE>>
           /\ Classify(apply, e) = "PlanChanges" => e = <<2, FALSE>>
           /\ Classify(apply, e) = "ConfigError" => e = <<1, FALSE>>
           /\ Classify(apply, e) = "StateLock" => e = <<1, TRUE>>
<1>1. CASE e = <<0, FALSE>>
  BY <1>1 DEF Classify
<1>2. CASE e = <<2, FALSE>>
  BY <1>2 DEF Classify
<1>3. CASE e = <<1, FALSE>>
  <2>1. e[1] = 1 /\ ~e[2]
    BY <1>3
  <2>2. Classify(apply, e) = "ConfigError"
    BY <2>1 DEF Classify
  <2> QED
    BY <1>3, <2>2
<1>4. CASE e = <<1, TRUE>>
  <2>1. e[1] = 1 /\ e[2]
    BY <1>4
  <2>2. Classify(apply, e) = "StateLock"
    BY <2>1 DEF Classify
  <2> QED
    BY <1>4, <2>2
<1> QED
  BY <1>1, <1>2, <1>3, <1>4 DEF Exits

\* A record says what the last terraform of its run did, in every deployment.
THEOREM RecordsMatchExits == Spec => []RecordMatchesExit
<1>1. RunnerInv /\ LedgerInv => RecordMatchesExit
  <2> SUFFICES ASSUME RunnerInv, LedgerInv, NEW r \in Runs
               PROVE
        /\ status[r] = "apply_success" => applies[r] /\ exit[r] = <<0, FALSE>>
        /\ status[r] = "plan_no_changes" => ~applies[r] /\ exit[r] = <<0, FALSE>>
        /\ status[r] = "plan_changes" => exit[r] = <<2, FALSE>>
        /\ status[r] = "config_error" => exit[r] = <<1, FALSE>>
        /\ status[r] = "state_lock_unresolved" => exit[r] = <<1, TRUE>> /\ retries[r] = 0
    BY DEF RecordMatchesExit
  <2>1. applies[r] \in BOOLEAN
    BY DEF RunnerInv, RunTypeOK
  <2>2. status[r] \in Contract!Verdicts =>
            outcome[r] \in Outcomes /\ status[r] = StateOf(outcome[r])
    BY DEF LedgerInv, RunLedger, VerdictRests
  <2>3. outcome[r] \notin {"none", "DriverError"} =>
            exit[r] \in Exits /\ outcome[r] = Classify(applies[r], exit[r])
    BY DEF LedgerInv, RunLedger, OutcomeRests
  <2>4. outcome[r] = "StateLock" => retries[r] = 0
    BY DEF LedgerInv, RunLedger, OutcomeRests
  <2> QED
    BY <2>1, <2>2, <2>3, <2>4, VerdictOutcomes, OutcomeExits DEF Contract!Verdicts
<1> QED
  BY <1>1, LedgerCorrect, PTL

\* A failure on record has its task, and a task a failure, in every deployment.
THEOREM TasksBackFailures == Spec => []TaskBacksFailure
<1>1. RunnerInv /\ LedgerInv => TaskBacksFailure
  <2> SUFFICES ASSUME RunnerInv, LedgerInv, NEW r \in Runs
               PROVE
        /\ status[r] = "config_error" => task[r] = "config" \/ <<r, "task">> \in lost
        /\ status[r] = "state_lock_unresolved" =>
              task[r] = "stale_lock" \/ <<r, "task">> \in lost
        /\ task[r] # "none" =>
              \/ status[r] = StateOf(outcome[r]) /\ task[r] = TaskOf(outcome[r])
              \/ ~IsTerminal(status[r])
              \/ status[r] = "interrupted"
    BY DEF TaskBacksFailure
  <2>1. status[r] \in Contract!Verdicts =>
            /\ outcome[r] \in Outcomes /\ status[r] = StateOf(outcome[r])
            /\ task[r] = TaskOf(outcome[r]) \/ <<r, "task">> \in lost
    BY DEF LedgerInv, RunLedger, VerdictRests
  <2>2. task[r] # "none" => task[r] = TaskOf(outcome[r])
    BY DEF LedgerInv, RunLedger, TaskRests
  <2>3. TaskOf("ConfigError") = "config" /\ TaskOf("StateLock") = "stale_lock"
    BY DEF TaskOf
  <2>4. status[r] \in Contract!Verdicts \/ ~IsTerminal(status[r]) \/ status[r] = "interrupted"
    BY VerdictStates DEF RunnerInv, RunTypeOK, States, IsTerminal, Readable
  <2> QED
    BY <2>1, <2>2, <2>3, <2>4, VerdictOutcomes DEF Contract!Verdicts
<1> QED
  BY <1>1, LedgerCorrect, PTL

LEMMA SettledStep ==
    ASSUME RunTypeOK, LedgerInv, [Next]_vars
    PROVE  \A r \in Runs : Settled(r) => Settled(r)' /\ status'[r] = status[r]
<1> SUFFICES ASSUME NEW s \in Runs, Settled(s) PROVE Settled(s)' /\ status'[s] = status[s]
  OBVIOUS
<1>1. /\ stage[s] \in {"finalized", "panicked", "lost"} /\ IsTerminal(status[s])
      /\ \A p \in Processes : stale[p] # s
  BY DEF Settled, InFlight, LedgerInv, RunLedger, AnswerRests, RunTypeOK, Stages,
         IsTerminal, Readable
<1>2. InHand(s) = {} /\ mixed[s] = {} /\ ~Contended(s)
  BY <1>1 DEF InHand, Contended, LedgerInv, RunLedger, MixtureRests
<1>3. SUFFICES /\ stage'[s] = stage[s] /\ status'[s] = status[s]
               /\ \A p \in Processes : stale'[p] # s
  BY <1>1 DEF Settled, InFlight
<1>4. ASSUME NEW r \in Runs, RunStep(r), r # s
      PROVE  stage'[s] = stage[s] /\ status'[s] = status[s] /\ UNCHANGED stale
  BY <1>4, OthersKept DEF Same, process
<1>5. ASSUME RunStep(s) PROVE stage'[s] = stage[s] /\ status'[s] = status[s] /\ UNCHANGED stale
  <2>1. CASE DropEntry(s) \/ DropPermit(s) \/ OrphanExit(s)
    BY <2>1 DEF DropEntry, DropPermit, OrphanExit, process, disk
  <2>2. CASE \/ HandlerStep(s) \/ StartTerraform(s) \/ SpawnFails(s) \/ Collect(s) \/ DrainFails(s)
             \/ Retry(s) \/ EmitTask(s) \/ Finalize(s) \/ TaskPanic(s)
             \/ \E e \in Exits : TerraformExit(s, e)
             \/ \E d \in Dirs, apply \in BOOLEAN : Admit(d, s, apply)
    BY <1>1, <2>2 DEF HandlerStep, PersistRunning, SpawnTask, StartTerraform, SpawnFails,
       Collect, DrainFails, Retry, EmitTask, Finalize, TaskPanic, TerraformExit, Admit, Goto
  <2>3. CASE SharedWrite(s)
    BY <1>2, <2>3 DEF SharedWrite, Meet, Scribble
  <2> QED
    BY <1>5, <2>1, <2>2, <2>3 DEF RunStep, TaskStep, TerraformStep
<1>6. ASSUME NEW p \in Processes, Start(p) \/ Serve(p) \/ BindFails(p)
      PROVE  stage'[s] = stage[s] /\ status'[s] = status[s] /\ UNCHANGED stale
  BY <1>6 DEF Start, Serve, BindFails, disk
<1>7. ASSUME NEW p \in Processes, NEW r \in Runs, ReconcileRead(p, r)
      PROVE  stage'[s] = stage[s] /\ status'[s] = status[s] /\ \A q \in Processes : stale'[q] # s
  BY <1>1, <1>7 DEF ReconcileRead, IsTerminal, RunTypeOK
<1>8. ASSUME NEW p \in Processes, NEW r \in Runs, ReconcileWrite(p, r)
      PROVE  stage'[s] = stage[s] /\ status'[s] = status[s] /\ \A q \in Processes : stale'[q] # s
  BY <1>1, <1>8, RegistryAssumption DEF ReconcileWrite, Record, Lose, RunTypeOK
<1>9. ASSUME NEW p \in Processes, Crash(p)
      PROVE  stage'[s] = stage[s] /\ status'[s] = status[s] /\ \A q \in Processes : stale'[q] # s
  BY <1>1, <1>9, RegistryAssumption DEF Crash, InFlight, RunTypeOK
<1>10. CASE UNCHANGED vars
  BY <1>1, <1>10 DEF vars, process, disk
<1> QED
  BY <1>1, <1>4, <1>5, <1>6, <1>7, <1>8, <1>9, <1>10, StepKinds DEF StartupStep

\* Nothing rewrites the record of a run that is over, or sets out to, once it is
\* terminal and nobody holds a copy of it; in every deployment.
THEOREM SettledRecordsAreFinal == Spec => SettledIsFinal
<1>1. RunnerInv /\ LedgerInv /\ [Next]_vars =>
          [\A r \in Runs : Settled(r) => Settled(r)' /\ status'[r] = status[r]]_vars
  BY SettledStep DEF RunnerInv
<1> QED
  BY <1>1, LedgerCorrect, PTL DEF Spec, SettledIsFinal

-------------------------------------------------------------------------------
\* SoloInv.

LEMMA SoloInit == Init => SoloInv
BY VerdictStates
DEF Init, SoloInv, OneUp, FlightIsServed, InFlight, WalkCovers, RecordKeepsUp,
    RunningRecordIsLive, Serving

\* A run that is left alone keeps up.
LEMMA KeepsUpSame ==
    ASSUME NEW s \in Runs, RecordKeepsUp(s), Same(s), lost \subseteq lost'
    PROVE  RecordKeepsUp(s)'
BY DEF RecordKeepsUp, Same, InFlight

\* While an instance is reconciling no run is in flight.
LEMMA WalkIsAlone ==
    ASSUME SoloInv, NEW p \in Processes, phase[p] = "reconciling"
    PROVE  ~Serving /\ \A r \in Runs : ~InFlight(r)
BY DEF SoloInv, OneUp, FlightIsServed, Serving

\* So no record has two writers.
LEMMA OneWriter ==
    ASSUME SoloInv
    PROVE  \A r \in Runs : ~Contended(r)
<1> SUFFICES ASSUME NEW r \in Runs, NEW p \in Processes, stale[p] = r PROVE ~Contended(r)
  BY DEF Contended
<1>1. \A q \in Processes : stale[q] = r => phase[q] = "reconciling"
  BY RegistryAssumption DEF SoloInv, WalkCovers
<1>2. stage[r] # "emitted"
  BY <1>1, WalkIsAlone DEF InFlight
<1> QED
  BY <1>1, <1>2 DEF SoloInv, OneUp, Contended

\* The run that takes the step keeps up; a record it leaves on "running" is that
\* of a run in flight or an excused one; and it ends no rewrite that is under way.
LEMMA KeepsUpOwn ==
    ASSUME RunTypeOK, NEW r \in Runs, RunLedger(r), RecordKeepsUp(r), ~Contended(r), RunStep(r)
    PROVE  /\ RecordKeepsUp(r)'
           /\ status'[r] = "running" /\ (InFlight(r) \/ Excused(r))
                => InFlight(r)' \/ Excused(r)'
           /\ InFlight(r)' => InFlight(r) \/ Serving
           /\ ~InFlight(r) => status'[r] = status[r] /\ (Excused(r) => Excused(r)')
<1> USE DEF RunTypeOK, RecordKeepsUp, InFlight, Excused, Goto, driver, disk
<1>0. /\ stage[r] \in {"emitted", "finalized"} => StateOf(outcome[r]) \in Contract!Verdicts
      /\ lost \subseteq lost'
      /\ StillMixed(r) = {} /\ \A s : Left(r, s) = {s}
      /\ "torn" \notin Contract!Verdicts
  BY VerdictStates, OthersKept
  DEF RunLedger, OutcomeRests, Concluded, StillMixed, Left, Contract!Verdicts
<1>1. ASSUME NEW d \in Dirs, NEW apply \in BOOLEAN, Admit(d, r, apply)
      PROVE  /\ RecordKeepsUp(r)' /\ status'[r] = status[r] /\ status[r] = "absent"
             /\ Serving /\ stage'[r] = "admitted" /\ lost' = lost /\ stage[r] = "unborn"
  BY <1>1 DEF Admit
<1>2. CASE PersistRunning(r)
  BY <1>0, <1>2 DEF PersistRunning, Record, Lose
<1>3. CASE \/ SpawnTask(r) \/ StartTerraform(r) \/ Retry(r) \/ TaskPanic(r)
           \/ SpawnFails(r) \/ DrainFails(r) \/ Collect(r)
           \/ \E e \in Exits : TerraformExit(r, e)
  BY <1>3 DEF SpawnTask, StartTerraform, Retry, TaskPanic, SpawnFails, DrainFails,
              Collect, TerraformExit
<1>4. CASE EmitTask(r)
  BY <1>4, <1>0 DEF EmitTask, Lose
<1>5. CASE Finalize(r)
  BY <1>5, <1>0, VerdictStates DEF Finalize, Record, Lose
<1>6. CASE DropEntry(r) \/ DropPermit(r) \/ OrphanExit(r)
  BY <1>6 DEF DropEntry, DropPermit, OrphanExit
<1>7. ~SharedWrite(r)
  BY DEF SharedWrite, Meet, Scribble
<1> QED
  BY <1>1, <1>2, <1>3, <1>4, <1>5, <1>6, <1>7
  DEF RunStep, HandlerStep, TaskStep, TerraformStep

LEMMA SoloRunStep ==
    ASSUME RunTypeOK, LedgerInv, SoloInv, NEW r \in Runs, RunStep(r)
    PROVE  SoloInv'
<1>1. /\ \A s \in Runs : s # r => Same(s)
      /\ lost \subseteq lost'
      /\ UNCHANGED process
  BY OthersKept
<1>2. /\ RecordKeepsUp(r)'
      /\ status'[r] = "running" /\ (InFlight(r) \/ Excused(r)) => InFlight(r)' \/ Excused(r)'
      /\ InFlight(r)' => InFlight(r) \/ Serving
      /\ ~InFlight(r) => status'[r] = status[r] /\ (Excused(r) => Excused(r)')
  BY KeepsUpOwn, OneWriter DEF LedgerInv, SoloInv
<1>3. \A s \in Runs : s # r =>
          (InFlight(s)' <=> InFlight(s)) /\ (Excused(s) => Excused(s)') /\ status'[s] = status[s]
  BY <1>1 DEF Same, InFlight, Excused
<1>4. OneUp' /\ (Serving' <=> Serving)
  BY <1>1 DEF SoloInv, OneUp, Serving, process
<1>5. FlightIsServed'
  BY <1>2, <1>3, <1>4 DEF SoloInv, FlightIsServed
<1>6. WalkCovers'
  <2> SUFFICES ASSUME NEW p \in Processes
               PROVE  /\ stale[p] # NoRun =>
                            phase[p] = "reconciling" /\ status'[stale[p]] = "running"
                      /\ phase[p] = "reconciling" =>
                            \A s \in Runs : status'[s] = "running" =>
                                s \in walk[p] \/ stale[p] = s \/ Excused(s)'
    BY <1>1 DEF WalkCovers, process
  <2>1. CASE phase[p] = "reconciling"
    <3>1. \A s \in Runs : status'[s] = status[s] /\ (Excused(s) => Excused(s)')
      BY <2>1, <1>2, <1>3, WalkIsAlone
    <3> QED
      BY <2>1, <3>1 DEF SoloInv, WalkCovers, RunTypeOK
  <2>2. CASE phase[p] # "reconciling"
    BY <2>2 DEF SoloInv, WalkCovers
  <2> QED
    BY <2>1, <2>2
<1>7. \A s \in Runs : RecordKeepsUp(s)'
  BY <1>1, <1>2, KeepsUpSame DEF SoloInv
<1>8. RunningRecordIsLive'
  BY <1>2, <1>3, <1>4 DEF SoloInv, RunningRecordIsLive
<1> QED
  BY <1>4, <1>5, <1>6, <1>7, <1>8 DEF SoloInv

LEMMA SoloStart ==
    ASSUME ~Overlap, RunTypeOK, SoloInv, NEW p \in Processes, Start(p)
    PROVE  SoloInv'
<1>1. /\ \A q \in Processes : phase[q] = "down"
      /\ phase' = [phase EXCEPT ![p] = "reconciling"]
      /\ UNCHANGED <<stale, applies, stage, driver, status, task, mixed>> /\ lost \subseteq lost'
  BY DEF Start
<1>2. /\ OneUp' /\ ~Serving /\ ~Serving'
  BY <1>1 DEF OneUp, Serving, RunTypeOK
<1>3. \A s \in Runs : RecordKeepsUp(s)'
  BY <1>1, KeepsUpSame DEF SoloInv, Same, driver
<1>4. FlightIsServed' /\ RunningRecordIsLive'
  BY <1>1, <1>2 DEF SoloInv, FlightIsServed, RunningRecordIsLive, InFlight
<1>5. WalkCovers'
  <2>1. \A q \in Processes : stale[q] = NoRun
    BY <1>1 DEF SoloInv, WalkCovers
  <2>2. \A s \in Runs : status[s] # "absent" => s \in walk'[p] \/ Excused(s)'
    BY DEF Start, RunTypeOK, Excused
  <2> QED
    BY <1>1, <2>1, <2>2 DEF WalkCovers, RunTypeOK
<1> QED
  BY <1>2, <1>3, <1>4, <1>5 DEF SoloInv

LEMMA SoloRead ==
    ASSUME RunTypeOK, SoloInv, NEW p \in Processes, NEW r \in Runs, ReconcileRead(p, r)
    PROVE  SoloInv'
<1>1. /\ phase[p] = "reconciling" /\ stale[p] = NoRun
      /\ UNCHANGED <<phase, applies, stage, driver, status, task, mixed>> /\ lost \subseteq lost'
  BY DEF ReconcileRead, Lose
<1>2. OneUp' /\ (Serving' <=> Serving)
  BY <1>1 DEF SoloInv, OneUp, Serving
<1>3. \A s \in Runs : RecordKeepsUp(s)'
  BY <1>1, KeepsUpSame DEF SoloInv, Same, driver
<1>4. \A s \in Runs : (InFlight(s)' <=> InFlight(s)) /\ (Excused(s) => Excused(s)')
  BY <1>1 DEF InFlight, Excused
<1>5. FlightIsServed' /\ RunningRecordIsLive'
  BY <1>1, <1>2, <1>4 DEF SoloInv, FlightIsServed, RunningRecordIsLive
<1>6. WalkCovers'
  <2>1. \A q \in Processes : q # p => walk'[q] = walk[q] /\ stale'[q] = stale[q]
    BY DEF ReconcileRead, RunTypeOK
  <2>2. \A q \in Processes : q # p => stale[q] = NoRun /\ phase[q] # "reconciling"
    BY <1>1 DEF SoloInv, OneUp, WalkCovers
  <2>3. walk'[p] = walk[p] \ {r}
    BY DEF ReconcileRead, RunTypeOK
  <2>4. \/ status[r] = "running" /\ stale'[p] = r
        \/ status[r] = "running" /\ stale'[p] = NoRun /\ Excused(r)'
        \/ status[r] # "running" /\ stale'[p] = NoRun
    BY <1>1 DEF ReconcileRead, Lose, Excused, RunTypeOK
  <2> QED
    BY <1>1, <1>4, <2>1, <2>2, <2>3, <2>4, RegistryAssumption DEF SoloInv, WalkCovers
<1> QED
  BY <1>2, <1>3, <1>5, <1>6 DEF SoloInv

\* What is rewritten is the record of a run that was cut short.
LEMMA SoloWrite ==
    ASSUME RunTypeOK, SoloInv, NEW p \in Processes, NEW r \in Runs, ReconcileWrite(p, r)
    PROVE  SoloInv'
<1>0. r # NoRun /\ mixed[r] = {} /\ StillMixed(r) = {} /\ Left(r, "interrupted") = {"interrupted"}
  BY RegistryAssumption DEF SoloInv, RecordKeepsUp, StillMixed, Left
<1>1. /\ phase[p] = "reconciling" /\ stale[p] = r /\ status[r] = "running"
      /\ UNCHANGED <<phase, walk, applies, stage, driver, task>> /\ lost \subseteq lost'
      /\ stale' = [stale EXCEPT ![p] = NoRun]
  BY <1>0 DEF ReconcileWrite, Record, Lose, RunTypeOK, SoloInv, WalkCovers
<1>2. /\ \A s \in Runs : s # r => status'[s] = status[s]
      /\ \A s \in Runs : mixed'[s] = {}
      /\ status'[r] = "interrupted" \/ (status'[r] = "running" /\ <<r, "reconcile">> \in lost')
  BY <1>0, <1>1 DEF ReconcileWrite, Record, Lose, RunTypeOK, SoloInv, RecordKeepsUp
<1>3. OneUp' /\ (Serving' <=> Serving)
  BY <1>1 DEF SoloInv, OneUp, Serving
<1>4. \A s \in Runs : (InFlight(s)' <=> InFlight(s)) /\ (Excused(s) => Excused(s)') /\ ~InFlight(s)
  BY <1>1, WalkIsAlone DEF InFlight, Excused
<1>5. RecordKeepsUp(r)'
  <2>1. stage[r] \in {"finalized", "panicked", "lost"}
    BY <1>1, <1>4 DEF SoloInv, RecordKeepsUp, InFlight, RunTypeOK
  <2>2. stage[r] = "finalized" => <<r, "terminal">> \in lost
    <3>1. StateOf(outcome[r]) # "running"
      BY DEF StateOf
    <3> QED
      BY <1>1, <3>1 DEF SoloInv, RecordKeepsUp
  <2> QED
    BY <1>1, <1>2, <1>4, <2>1, <2>2 DEF RecordKeepsUp
<1>6. \A s \in Runs : s # r => RecordKeepsUp(s)'
  BY <1>1, <1>2, KeepsUpSame DEF SoloInv, Same, driver, RecordKeepsUp
<1>7. FlightIsServed' /\ RunningRecordIsLive'
  BY <1>1, <1>3, <1>4, WalkIsAlone DEF FlightIsServed, RunningRecordIsLive
<1>8. WalkCovers'
  <2>1. \A q \in Processes : q # p => stale'[q] = NoRun /\ phase[q] # "reconciling"
    BY <1>1 DEF SoloInv, OneUp, WalkCovers, RunTypeOK
  <2>2. stale'[p] = NoRun
    BY <1>1 DEF RunTypeOK
  <2>3. \A s \in Runs : status'[s] = "running" => s \in walk[p] \/ Excused(s)'
    BY <1>1, <1>2, <1>4 DEF SoloInv, WalkCovers, Excused
  <2> QED
    BY <1>1, <2>1, <2>2, <2>3 DEF WalkCovers
<1> QED
  BY <1>3, <1>5, <1>6, <1>7, <1>8 DEF SoloInv

LEMMA SoloServe ==
    ASSUME RunTypeOK, SoloInv, NEW p \in Processes, Serve(p) \/ BindFails(p)
    PROVE  SoloInv'
<1>1. /\ phase[p] = "reconciling" /\ walk[p] = {} /\ stale[p] = NoRun
      /\ UNCHANGED <<walk, stale, applies, stage, driver, disk>>
  BY DEF Serve, BindFails, Reconciled
<1>2. /\ ~Serving /\ phase' = [phase EXCEPT ![p] = "serving"]
      /\ \A s \in Runs : ~InFlight(s)
  BY <1>1, WalkIsAlone DEF Serve, BindFails
<1>3. \A s \in Runs : (InFlight(s)' <=> InFlight(s)) /\ (Excused(s)' <=> Excused(s))
  BY <1>1 DEF InFlight, Excused, disk
<1>4. \A s \in Runs : status[s] = "running" => Excused(s)
  BY <1>1, RegistryAssumption DEF SoloInv, WalkCovers, RunTypeOK
<1>5. OneUp'
  BY <1>1, <1>2 DEF SoloInv, OneUp, RunTypeOK
<1>6. FlightIsServed' /\ RunningRecordIsLive'
  BY <1>1, <1>2, <1>3, <1>4 DEF FlightIsServed, RunningRecordIsLive, disk
<1>7. WalkCovers'
  <2>1. \A q \in Processes : stale[q] = NoRun /\ phase'[q] # "reconciling"
    BY <1>1, <1>2 DEF SoloInv, OneUp, WalkCovers, RunTypeOK
  <2> QED
    BY <1>1, <2>1 DEF WalkCovers
<1>8. \A s \in Runs : RecordKeepsUp(s)'
  BY <1>1, KeepsUpSame DEF SoloInv, Same, driver, disk
<1> QED
  BY <1>5, <1>6, <1>7, <1>8 DEF SoloInv

LEMMA SoloCrash ==
    ASSUME RunTypeOK, SoloInv, NEW p \in Processes, Crash(p)
    PROVE  SoloInv'
<1>1. /\ phase[p] # "down" /\ phase' = [phase EXCEPT ![p] = "down"]
      /\ walk' = [walk EXCEPT ![p] = {}] /\ stale' = [stale EXCEPT ![p] = NoRun]
      /\ UNCHANGED <<applies, retries, exit, outcome, status, task, lost>>
      /\ mixed' = [s \in Runs |-> StillMixed(s)]
      /\ phase[p] = "serving" =>
            stage' = [s \in Runs |-> IF InFlight(s) THEN "lost" ELSE stage[s]]
      /\ phase[p] # "serving" => UNCHANGED stage
  BY DEF Crash
<1>2. \A q \in Processes : phase'[q] = "down"
  BY <1>1 DEF SoloInv, OneUp, RunTypeOK
<1>3. OneUp' /\ ~Serving'
  BY <1>2 DEF OneUp, Serving
<1>4. \A s \in Runs : ~InFlight(s)'
  <2>1. CASE phase[p] = "serving"
    BY <1>1, <2>1 DEF InFlight, RunTypeOK
  <2>2. CASE phase[p] # "serving"
    <3>1. ~Serving
      BY <1>1, <2>2 DEF SoloInv, OneUp, Serving
    <3> QED
      BY <1>1, <2>2, <3>1 DEF SoloInv, FlightIsServed, InFlight
  <2> QED
    BY <2>1, <2>2
<1>5. FlightIsServed' /\ RunningRecordIsLive'
  BY <1>3, <1>4 DEF FlightIsServed, RunningRecordIsLive
<1>6. WalkCovers'
  <2>1. \A q \in Processes : stale'[q] = NoRun
    BY <1>1 DEF SoloInv, OneUp, WalkCovers, RunTypeOK
  <2> QED
    BY <1>2, <2>1 DEF WalkCovers
<1>7. \A s \in Runs : RecordKeepsUp(s)'
  <2>1. \A s \in Runs : stage'[s] = stage[s] \/ (InFlight(s) /\ stage'[s] = "lost")
    BY <1>1 DEF RunTypeOK
  <2>2. \A s \in Runs : mixed'[s] = {}
    BY <1>1 DEF StillMixed, SoloInv, RecordKeepsUp
  <2> QED
    BY <1>1, <1>4, <2>1, <2>2 DEF SoloInv, RecordKeepsUp, InFlight
<1> QED
  BY <1>3, <1>5, <1>6, <1>7 DEF SoloInv

LEMMA SoloStep ==
    ASSUME ~Overlap, RunTypeOK, LedgerInv, SoloInv, [Next]_vars
    PROVE  SoloInv'
<1>1. CASE UNCHANGED vars
  BY <1>1 DEF vars, process, driver, disk, SoloInv, OneUp, FlightIsServed, Serving,
     InFlight, WalkCovers, Excused, RecordKeepsUp, RunningRecordIsLive
<1> QED
  BY <1>1, StepKinds, SoloRunStep, SoloStart, SoloRead, SoloWrite, SoloServe, SoloCrash
  DEF StartupStep

\* Where instances do not overlap, records keep up with their runs, and reconciliation
\* finds each of them as it read it.
THEOREM SoloCorrect == ASSUME ~Overlap PROVE Spec => []SoloInv
<1>1. RunnerInv /\ LedgerInv /\ SoloInv /\ [Next]_vars => SoloInv'
  BY SoloStep DEF RunnerInv
<1> QED
  BY <1>1, LedgerCorrect, SoloInit, PTL DEF Spec

-------------------------------------------------------------------------------
\* What SoloInv gives.

\* Where instances do not overlap, no record is written by two at once: what
\* StatusFile_proofs assumes of the writers of a record.
THEOREM WritersAreSingle == ASSUME ~Overlap PROVE Spec => []SingleWriterPerRun
<1>1. SoloInv => SingleWriterPerRun
  BY OneWriter DEF SingleWriterPerRun
<1> QED
  BY <1>1, SoloCorrect, PTL

\* And the caller that has a run id finds a record that can be read.
THEOREM AnswersAreRecorded == ASSUME ~Overlap PROVE Spec => []AnsweredIsRecorded
<1>1. LedgerInv /\ SoloInv => AnsweredIsRecorded
  BY DEF LedgerInv, RunLedger, AnswerRests, SoloInv, RecordKeepsUp, AnsweredIsRecorded, Readable
<1> QED
  BY <1>1, LedgerCorrect, SoloCorrect, PTL

\* Where instances do not overlap, "interrupted" is told only of a run that was
\* cut short, or whose verdict could not be written.
THEOREM InterruptedAreLost == ASSUME ~Overlap PROVE Spec => []InterruptedOnlyAfterLoss
<1>1. SoloInv => InterruptedOnlyAfterLoss
  BY DEF SoloInv, RecordKeepsUp, InterruptedOnlyAfterLoss
<1> QED
  BY <1>1, SoloCorrect, PTL

\* A caller who polls "running" polls a live run, or one that is excused.
THEOREM RunningAreLive == ASSUME ~Overlap PROVE Spec => []RunningRecordIsLive
<1>1. SoloInv => RunningRecordIsLive
  BY DEF SoloInv
<1> QED
  BY <1>1, SoloCorrect, PTL

\* With a supervisor as well, no terraform is at work for an interrupted run.
THEOREM InterruptedAreDead ==
    ASSUME ~Overlap, Supervised PROVE Spec => []InterruptedMeansDead
<1>1. RunnerInv /\ SoloInv => InterruptedMeansDead
  <2> SUFFICES ASSUME RunnerInv, SoloInv, NEW r \in Runs, status[r] = "interrupted"
               PROVE  r \notin alive
    BY DEF InterruptedMeansDead
  <2>1. ~InFlight(r)
    BY DEF SoloInv, RecordKeepsUp
  <2>2. r \in alive => stage[r] = "executing"
    BY DEF RunnerInv, GuardCoversRun
  <2> QED
    BY <2>1, <2>2 DEF InFlight
<1> QED
  BY <1>1, RunnerCorrect, SoloCorrect, PTL

-------------------------------------------------------------------------------
\* Terminal records are final.

LEMMA FinalStep ==
    ASSUME RunTypeOK, LedgerInv, SoloInv, [Next]_vars
    PROVE  \A r \in Runs : IsTerminal(status[r]) => status'[r] = status[r]
<1> SUFFICES ASSUME NEW s \in Runs, IsTerminal(status[s]) PROVE status'[s] = status[s]
  OBVIOUS
<1>1. ~InFlight(s)
  BY DEF SoloInv, RecordKeepsUp, IsTerminal, Readable
<1>2. ASSUME NEW r \in Runs, RunStep(r) PROVE status'[s] = status[s]
  <2>1. CASE r = s
    BY <1>1, <1>2, <2>1, KeepsUpOwn, OneWriter DEF LedgerInv, SoloInv
  <2>2. CASE r # s
    BY <1>2, <2>2, OthersKept DEF Same
  <2> QED
    BY <2>1, <2>2
<1>3. ASSUME NEW p \in Processes, StartupStep(p) \/ Crash(p) PROVE status'[s] = status[s]
  <2>1. ASSUME NEW r \in Runs, ReconcileWrite(p, r) PROVE status'[s] = status[s]
    <3>1. r # s
      BY <2>1, RegistryAssumption DEF ReconcileWrite, SoloInv, WalkCovers, IsTerminal
    <3> QED
      BY <2>1, <3>1 DEF ReconcileWrite, Record, Lose, RunTypeOK
  <2> QED
    BY <1>3, <2>1 DEF StartupStep, Start, ReconcileRead, Serve, BindFails, Crash, disk
<1> QED
  BY <1>2, <1>3, StepKinds DEF vars, disk

\* Where instances do not overlap, no later write, restart or reconciliation
\* changes what a caller was once told.
THEOREM TerminalRecordsAreFinal == ASSUME ~Overlap PROVE Spec => TerminalIsFinal
<1>1. RunnerInv /\ LedgerInv /\ SoloInv /\ [Next]_vars =>
          [\A r \in Runs : IsTerminal(status[r]) => status'[r] = status[r]]_vars
  BY FinalStep DEF RunnerInv
<1> QED
  BY <1>1, LedgerCorrect, SoloCorrect, PTL DEF Spec, TerminalIsFinal

-------------------------------------------------------------------------------
\* The service implements RunContract.

LEMMA ContractInit == Init => Contract!Init
BY DEF Init, Contract!Init

\* The verdict of a run agrees with the task it has handed on.
LEMMA VerdictFitsTask ==
    ASSUME NEW o \in Outcomes
    PROVE  /\ StateOf(o) \in Contract!Verdicts
           /\ TaskOf(o) \in DOMAIN Contract!VerdictOf => StateOf(o) = Contract!VerdictOf[TaskOf(o)]
           /\ TaskOf(o) # "none" => TaskOf(o) \in DOMAIN Contract!VerdictOf
           /\ "none" \notin DOMAIN Contract!VerdictOf
<1>1. DOMAIN Contract!VerdictOf = {"config", "stale_lock"}
  BY DEF Contract!VerdictOf
<1>2. /\ Contract!VerdictOf["config"] = "config_error"
      /\ Contract!VerdictOf["stale_lock"] = "state_lock_unresolved"
  BY DEF Contract!VerdictOf
<1>3. CASE o = "ConfigError"
  BY <1>1, <1>2, <1>3, VerdictStates DEF TaskOf, StateOf
<1>4. CASE o = "StateLock"
  BY <1>1, <1>2, <1>4, VerdictStates DEF TaskOf, StateOf
<1>5. CASE o \notin {"ConfigError", "StateLock"}
  <2>1. TaskOf(o) = "none"
    BY <1>5 DEF TaskOf
  <2> QED
    BY <1>1, <2>1, VerdictStates
<1> QED
  BY <1>3, <1>4, <1>5

\* What a step of one run is to the caller and the pipeline.
LEMMA ContractRunStep ==
    ASSUME RunTypeOK, LedgerInv, SoloInv, NEW r \in Runs, RunStep(r)
    PROVE  Contract!Next \/ UNCHANGED <<status, task>>
<1> USE DEF Goto
<1>0. \A s : Left(r, s) = {s}
  BY DEF SoloInv, RecordKeepsUp, Left
<1>1. CASE PersistRunning(r)
  <2>1. status[r] = "absent" /\ task[r] = "none"
    BY <1>1 DEF PersistRunning, LedgerInv, RunLedger, TaskRests, SoloInv, RecordKeepsUp
  <2>2. Contract!Announce(r) \/ UNCHANGED <<status, task>>
    BY <1>0, <1>1, <2>1 DEF PersistRunning, Record, Lose, Contract!Announce
  <2> QED
    BY <2>2 DEF Contract!Next
<1>2. CASE EmitTask(r)
  <2>1. Contract!Open(r) /\ task[r] = "none" /\ outcome[r] \in Outcomes
    BY <1>2 DEF EmitTask, LedgerInv, RunLedger, TaskRests, OutcomeRests, Concluded,
                SoloInv, RecordKeepsUp, InFlight, Contract!Open
  <2>2. Contract!HandOn(r, TaskOf(outcome[r])) \/ UNCHANGED <<status, task>>
    BY <1>2, <2>1 DEF EmitTask, Lose, Contract!HandOn
  <2>3. TaskOf(outcome[r]) \in DOMAIN Contract!VerdictOf \/ UNCHANGED <<status, task>>
    BY <1>2, <2>1, VerdictFitsTask DEF EmitTask
  <2> QED
    BY <2>2, <2>3 DEF Contract!Next
<1>3. CASE Finalize(r)
  <2>1. Contract!Open(r) /\ outcome[r] \in Outcomes
    BY <1>3 DEF Finalize, LedgerInv, RunLedger, OutcomeRests, Concluded,
                SoloInv, RecordKeepsUp, InFlight, Contract!Open
  <2>2. task[r] \in {"none", TaskOf(outcome[r])}
    BY DEF LedgerInv, RunLedger, TaskRests
  <2>3. task[r] \in DOMAIN Contract!VerdictOf => StateOf(outcome[r]) = Contract!VerdictOf[task[r]]
    BY <2>1, <2>2, VerdictFitsTask
  <2>4. Contract!Settle(r, StateOf(outcome[r])) \/ UNCHANGED <<status, task>>
    BY <1>0, <1>3, <2>1, <2>3 DEF Finalize, Record, Lose, Contract!Settle
  <2> QED
    BY <2>1, <2>4, VerdictFitsTask DEF Contract!Next
<1>4. ASSUME NEW d \in Dirs, NEW apply \in BOOLEAN, Admit(d, r, apply)
      PROVE  UNCHANGED <<status, task>>
  BY <1>4 DEF Admit, disk
<1>5. CASE \/ SpawnTask(r) \/ StartTerraform(r) \/ SpawnFails(r) \/ Collect(r)
           \/ DrainFails(r) \/ Retry(r)
  BY <1>5 DEF SpawnTask, StartTerraform, SpawnFails, Collect, DrainFails, Retry, disk
<1>6. CASE DropEntry(r) \/ DropPermit(r) \/ TerraformStep(r) \/ TaskPanic(r)
  BY <1>6 DEF DropEntry, DropPermit, TerraformStep, OrphanExit, TerraformExit, TaskPanic, disk
<1>7. ~SharedWrite(r)
  BY OneWriter DEF SharedWrite, Meet, Scribble, SoloInv, RecordKeepsUp
<1> QED
  BY <1>1, <1>2, <1>3, <1>4, <1>5, <1>6, <1>7 DEF RunStep, HandlerStep, TaskStep

\* Of a starting or dying process they notice the rewritten records only.
LEMMA ContractProcessStep ==
    ASSUME RunTypeOK, SoloInv, NEW p \in Processes, StartupStep(p) \/ Crash(p)
    PROVE  Contract!Next \/ UNCHANGED <<status, task>>
<1>1. ASSUME NEW r \in Runs, ReconcileWrite(p, r)
      PROVE  Contract!Next \/ UNCHANGED <<status, task>>
  <2>1. status[r] = "running" /\ Left(r, "interrupted") = {"interrupted"}
    BY <1>1, RegistryAssumption DEF ReconcileWrite, SoloInv, WalkCovers, RecordKeepsUp, Left
  <2>2. Contract!Interrupt(r) \/ UNCHANGED <<status, task>>
    BY <1>1, <2>1 DEF ReconcileWrite, Record, Lose, Contract!Interrupt
  <2> QED
    BY <2>2 DEF Contract!Next
<1> QED
  BY <1>1 DEF StartupStep, Start, ReconcileRead, Serve, BindFails, Crash, disk

\* Where instances do not overlap, every behaviour of the service keeps the
\* contract with the callers and the pipeline.
THEOREM ServiceKeepsContract == ASSUME ~Overlap PROVE Spec => ImplementsContract
<1>1. RunnerInv /\ LedgerInv /\ SoloInv /\ [Next]_vars => [Contract!Next]_(Contract!vars)
  BY StepKinds, ContractRunStep, ContractProcessStep DEF RunnerInv, Contract!vars, vars, disk
<1> QED
  BY <1>1, ContractInit, LedgerCorrect, SoloCorrect, PTL
  DEF Spec, ImplementsContract, Contract!Spec

==============================================================================
