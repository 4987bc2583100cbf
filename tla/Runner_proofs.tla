---------------------------- MODULE Runner_proofs ----------------------------
(***************************************************************************)
(* Proofs about Runner, for every number of processes, runs, directories,  *)
(* permits and retries, with or without overlapping instances.             *)
(*                                                                         *)
(* The argument: the service uses the registry only through its actions,   *)
(* so what LockRegistry_proofs shows of the registry holds here (RegP);    *)
(* the guard covers all the work of a run (GuardCoversRun); and a held     *)
(* guard owns the map entry of its directory.  Two terraform processes in  *)
(* one directory would need two guards that own one entry.                 *)
(***************************************************************************)
EXTENDS Runner, FiniteSetTheorems, TLAPS

RegP == INSTANCE LockRegistry_proofs

RunnerInv == RegP!RegistryInv /\ RunTypeOK /\ GuardCoversRun

-------------------------------------------------------------------------------
\* The registry, as the proofs of LockRegistry know it.

\* The assumptions of the registry hold of the constants of the service.
LEMMA RegistryAssumptions ==
    /\ RegP!IsFiniteSet(Runs) /\ NoRun \notin Runs
    /\ RegP!IsFiniteSet(Dirs) /\ NoDir \notin Dirs
    /\ MaxConcurrentRuns \in Nat
<1>1. \A S : RegP!IsFiniteSet(S) <=> IsFiniteSet(S)
  BY DEF RegP!IsFiniteSet, IsFiniteSet
<1> QED
  BY <1>1, RegistryAssumption

\* The registry actions of the service are those the registry proofs are about.
LEMMA SameActions ==
    /\ Reg!Init => RegP!Init
    /\ \A d \in Dirs, r \in Runs : Reg!Admit(d, r) => RegP!Next
    /\ \A r \in Runs : Reg!DropEntry(r) => RegP!Next
    /\ \A r \in Runs : Reg!DropPermit(r) => RegP!Next
    /\ Reg!Restart => RegP!Next
<1>1. Reg!Init => RegP!Init
  BY DEF Reg!Init, RegP!Init, Reg!FreeMap, RegP!FreeMap, Reg!Permits, RegP!Permits
<1>2. ASSUME NEW d \in Dirs, NEW r \in Runs, Reg!Admit(d, r) PROVE RegP!Next
  <2>1. RegP!Admit(d, r)
    BY <1>2 DEF Reg!Admit, RegP!Admit, Reg!Verdict, RegP!Verdict
  <2> QED
    BY <2>1 DEF RegP!Next
<1>3. ASSUME NEW r \in Runs, Reg!DropEntry(r) PROVE RegP!Next
  <2>1. RegP!DropEntry(r)
    BY <1>3 DEF Reg!DropEntry, RegP!DropEntry
  <2> QED
    BY <2>1 DEF RegP!Next
<1>4. ASSUME NEW r \in Runs, Reg!DropPermit(r) PROVE RegP!Next
  <2>1. RegP!DropPermit(r)
    BY <1>4 DEF Reg!DropPermit, RegP!DropPermit
  <2> QED
    BY <2>1 DEF RegP!Next
<1>5. ASSUME Reg!Restart PROVE RegP!Next
  <2>1. RegP!Restart
    BY <1>5 DEF Reg!Restart, RegP!Restart, Reg!FreeMap, RegP!FreeMap,
                Reg!Permits, RegP!Permits, Reg!Outstanding, RegP!Outstanding
  <2> QED
    BY <2>1 DEF RegP!Next
<1> QED
  BY <1>1, <1>2, <1>3, <1>4, <1>5

\* A step of the service is a step of the registry or leaves it alone.
LEMMA RegistryOnlyThroughActions == [Next]_vars => [RegP!Next]_<<inflight, sem, guard, lockDir>>
<1> SUFFICES ASSUME [Next]_vars PROVE RegP!Next \/ UNCHANGED registry
  BY DEF registry
<1>1. ASSUME NEW d \in Dirs, NEW r \in Runs, NEW apply \in BOOLEAN, Admit(d, r, apply)
      PROVE  RegP!Next
  BY <1>1, SameActions DEF Admit
<1>2. ASSUME NEW r \in Runs, HandlerStep(r) PROVE UNCHANGED registry
  BY <1>2 DEF HandlerStep, PersistRunning, SpawnTask
<1>9. ASSUME NEW r \in Runs, SharedWrite(r) PROVE UNCHANGED registry
  BY <1>9 DEF SharedWrite, Meet, Scribble
<1>3. ASSUME NEW r \in Runs, TaskStep(r) PROVE RegP!Next \/ UNCHANGED registry
  <2>1. CASE DropEntry(r)
    BY <2>1, SameActions DEF DropEntry
  <2>2. CASE DropPermit(r)
    BY <2>2, SameActions DEF DropPermit
  <2> QED
    BY <1>3, <2>1, <2>2 DEF TaskStep, StartTerraform, SpawnFails, Collect,
       DrainFails, Retry, EmitTask, Finalize
<1>4. ASSUME NEW r \in Runs, TerraformStep(r) \/ TaskPanic(r) PROVE UNCHANGED registry
  BY <1>4 DEF TerraformStep, OrphanExit, TerraformExit, TaskPanic
<1>5. ASSUME NEW p \in Processes, StartupStep(p) PROVE UNCHANGED registry
  BY <1>5 DEF StartupStep, Start, ReconcileRead, ReconcileWrite, Serve, BindFails
<1>6. ASSUME NEW p \in Processes, Crash(p) PROVE RegP!Next \/ UNCHANGED registry
  BY <1>6, SameActions DEF Crash
<1>7. CASE Idle
  BY <1>7 DEF Idle, vars
<1>8. CASE UNCHANGED vars
  BY <1>8 DEF vars
<1> QED
  BY <1>1, <1>2, <1>3, <1>4, <1>5, <1>6, <1>7, <1>8, <1>9 DEF Next

LEMMA RegistryInvKept ==
    ASSUME RegP!RegistryInv, [Next]_vars
    PROVE  RegP!RegistryInv'
<1>1. [RegP!Next]_RegP!vars
  BY RegistryOnlyThroughActions DEF RegP!vars
<1> QED
  BY <1>1, RegistryAssumptions, RegP!RegistryStep

-------------------------------------------------------------------------------
\* Types.

\* What an exit is read as, and what it is recorded as, stay in their domains.
LEMMA DataTypes ==
    /\ \A apply \in BOOLEAN, e \in Exits \cup {NoExit} : Classify(apply, e) \in Outcomes
    /\ \A o \in Outcomes \cup {"none"} : StateOf(o) \in States
    /\ \A o \in Outcomes \cup {"none"} : TaskOf(o) \in {"none", "config", "stale_lock"}
<1>1. \A apply \in BOOLEAN, e \in Exits \cup {NoExit} : Classify(apply, e) \in Outcomes
  BY DEF Classify, Outcomes, Exits, NoExit
<1>2. StateOf("none") = StateOf("DriverError")
  BY DEF StateOf
<1>3. \A o \in Outcomes \cup {"none"} : StateOf(o) \in States
  BY <1>2 DEF States, Outcomes
<1>4. \A o \in Outcomes \cup {"none"} : TaskOf(o) \in {"none", "config", "stale_lock"}
  BY DEF TaskOf, Outcomes
<1> QED
  BY <1>1, <1>3, <1>4

\* What the writers of a record hold is terminal.
LEMMA InHandTerminal ==
    ASSUME RunTypeOK, NEW r \in Runs
    PROVE  InHand(r) \subseteq {s \in States : IsTerminal(s)}
<1>1. StateOf(outcome[r]) \in States
  BY DataTypes DEF RunTypeOK
<1>2. IsTerminal(StateOf(outcome[r])) /\ IsTerminal("interrupted") /\ "interrupted" \in States
  BY DEF StateOf, IsTerminal, Readable, States
<1> QED
  BY <1>1, <1>2 DEF InHand

\* Writing a record, alone or with others, or failing to.
LEMMA RecordTypes ==
    ASSUME RunTypeOK, NEW r \in Runs, NEW s \in States, NEW what \in Writes,
           Record(r, s, what)
    PROVE  /\ status' \in [Runs -> States] /\ lost' \in SUBSET (Runs \X Writes)
           /\ mixed' \in [Runs -> SUBSET {v \in States : IsTerminal(v)}]
<1>1. Left(r, s) \subseteq States
  <2>1. "torn" \in States
    BY DEF States
  <2> QED
    BY <2>1 DEF Left, RunTypeOK
<1>2. status' \in [Runs -> States] /\ lost' \in SUBSET (Runs \X Writes)
  BY <1>1 DEF RunTypeOK, Record, Lose
<1>3. mixed' \in [Runs -> SUBSET {v \in States : IsTerminal(v)}]
  BY DEF RunTypeOK, Record, StillMixed
<1> QED
  BY <1>2, <1>3

LEMMA RunTypesInit == Init => RunTypeOK
<1>1. "absent" \in States
  BY DEF States
<1> QED
  BY <1>1, RetriesAssumption, BoundsAssumption DEF Init, RunTypeOK, Stages, Outcomes

LEMMA RunTypesKept ==
    ASSUME RunTypeOK, [Next]_vars
    PROVE  RunTypeOK'
<1>0. {"running", "interrupted"} \subseteq States
  BY DEF States
<1>1. ASSUME NEW d \in Dirs, NEW r \in Runs, NEW apply \in BOOLEAN, Admit(d, r, apply)
      PROVE  RunTypeOK'
  BY <1>1 DEF Admit, Goto, RunTypeOK, Stages, process, driver, disk
<1>2. ASSUME NEW r \in Runs, PersistRunning(r) PROVE RunTypeOK'
  <2>1. /\ status' \in [Runs -> States] /\ lost' \in SUBSET (Runs \X Writes)
        /\ mixed' \in [Runs -> SUBSET {v \in States : IsTerminal(v)}]
    BY <1>0, <1>2, RecordTypes DEF PersistRunning, Writes
  <2> QED
    BY <1>2, <2>1 DEF PersistRunning, Goto, RunTypeOK, Stages, process, driver
<1>3. ASSUME NEW r \in Runs, SpawnTask(r) PROVE RunTypeOK'
  BY <1>3 DEF SpawnTask, Goto, RunTypeOK, Stages, process, driver, disk
<1>4. ASSUME NEW r \in Runs, StartTerraform(r) PROVE RunTypeOK'
  BY <1>4 DEF StartTerraform, Goto, RunTypeOK, Stages, process, disk
<1>5. ASSUME NEW r \in Runs, SpawnFails(r) \/ DrainFails(r) PROVE RunTypeOK'
  BY <1>5 DEF SpawnFails, DrainFails, Goto, RunTypeOK, Stages, Outcomes, process, disk
<1>6. ASSUME NEW r \in Runs, NEW e \in Exits, TerraformExit(r, e) PROVE RunTypeOK'
  BY <1>6 DEF TerraformExit, Goto, RunTypeOK, Stages, process, disk
<1>7. ASSUME NEW r \in Runs, Collect(r) PROVE RunTypeOK'
  <2>1. Classify(applies[r], exit[r]) \in Outcomes
    BY DataTypes DEF RunTypeOK
  <2> QED
    BY <1>7, <2>1 DEF Collect, Goto, RunTypeOK, Stages, process, disk
<1>8. ASSUME NEW r \in Runs, Retry(r) PROVE RunTypeOK'
  BY <1>8, RetriesAssumption DEF Retry, Goto, RunTypeOK, Stages, process, disk
<1>9. ASSUME NEW r \in Runs, EmitTask(r) PROVE RunTypeOK'
  <2>1. TaskOf(outcome[r]) \in {"none", "config", "stale_lock"}
    BY DataTypes DEF RunTypeOK
  <2> QED
    BY <1>9, <2>1 DEF EmitTask, Lose, Writes, Goto, RunTypeOK, Stages, process, driver
<1>10. ASSUME NEW r \in Runs, Finalize(r) PROVE RunTypeOK'
  <2>1. StateOf(outcome[r]) \in States
    BY DataTypes DEF RunTypeOK
  <2>2. /\ status' \in [Runs -> States] /\ lost' \in SUBSET (Runs \X Writes)
        /\ mixed' \in [Runs -> SUBSET {v \in States : IsTerminal(v)}]
    BY <1>10, <2>1, RecordTypes DEF Finalize, Writes
  <2> QED
    BY <1>10, <2>2 DEF Finalize, Goto, RunTypeOK, Stages, process, driver
<1>11. ASSUME NEW r \in Runs, TaskPanic(r) PROVE RunTypeOK'
  BY <1>11 DEF TaskPanic, Goto, RunTypeOK, Stages, process, driver, disk
<1>12. ASSUME NEW r \in Runs, DropEntry(r) \/ DropPermit(r) PROVE RunTypeOK'
  BY <1>12 DEF DropEntry, DropPermit, RunTypeOK, process, driver, disk
<1>13. ASSUME NEW r \in Runs, OrphanExit(r) PROVE RunTypeOK'
  BY <1>13 DEF OrphanExit, RunTypeOK, process, disk
<1>14. ASSUME NEW p \in Processes, Start(p) PROVE RunTypeOK'
  <2>1. lost' \in SUBSET (Runs \X Writes)
    BY <1>14 DEF Start, RunTypeOK, Writes
  <2>2. walk' \in [Processes -> SUBSET Runs]
    BY <1>14 DEF Start, RunTypeOK
  <2> QED
    BY <1>14, <2>1, <2>2 DEF Start, RunTypeOK, driver
<1>15. ASSUME NEW p \in Processes, NEW r \in Runs, ReconcileRead(p, r) PROVE RunTypeOK'
  BY <1>15 DEF ReconcileRead, Lose, Writes, RunTypeOK, driver
<1>16. ASSUME NEW p \in Processes, NEW r \in Runs, ReconcileWrite(p, r) PROVE RunTypeOK'
  <2>1. /\ status' \in [Runs -> States] /\ lost' \in SUBSET (Runs \X Writes)
        /\ mixed' \in [Runs -> SUBSET {v \in States : IsTerminal(v)}]
    BY <1>0, <1>16, RecordTypes DEF ReconcileWrite, Writes
  <2> QED
    BY <1>16, <2>1 DEF ReconcileWrite, RunTypeOK, driver
<1>17. ASSUME NEW p \in Processes, Serve(p) \/ BindFails(p) PROVE RunTypeOK'
  BY <1>17 DEF Serve, BindFails, RunTypeOK, driver, disk
<1>18. ASSUME NEW p \in Processes, Crash(p) PROVE RunTypeOK'
  <2>1. mixed' \in [Runs -> SUBSET {v \in States : IsTerminal(v)}]
    BY <1>18 DEF Crash, StillMixed, RunTypeOK
  <2> QED
    BY <1>18, <2>1, BoundsAssumption DEF Crash, RunTypeOK, Stages
<1>20. ASSUME NEW r \in Runs, Meet(r) PROVE RunTypeOK'
  <2>1. mixed' \in [Runs -> SUBSET {v \in States : IsTerminal(v)}]
    BY <1>20, InHandTerminal DEF Meet, RunTypeOK
  <2> QED
    BY <1>20, <2>1 DEF Meet, RunTypeOK, process, driver
<1>21. ASSUME NEW r \in Runs, Scribble(r) PROVE RunTypeOK'
  <2>1. InHand(r) \cup {"torn"} \subseteq States
    BY InHandTerminal DEF States
  <2>2. status' \in [Runs -> States]
    BY <1>21, <2>1 DEF Scribble, RunTypeOK
  <2> QED
    BY <1>21, <2>2 DEF Scribble, RunTypeOK, process, driver
<1>19. CASE Idle \/ UNCHANGED vars
  BY <1>19 DEF Idle, vars, process, driver, disk, RunTypeOK
<1> QED
  BY <1>1, <1>2, <1>3, <1>4, <1>5, <1>6, <1>7, <1>8, <1>9, <1>10, <1>11, <1>12,
     <1>13, <1>14, <1>15, <1>16, <1>17, <1>18, <1>19, <1>20, <1>21
  DEF Next, HandlerStep, TaskStep, TerraformStep, SharedWrite, StartupStep

-------------------------------------------------------------------------------
\* The guard covers the work of its run.

LEMMA CoverInit == Init => GuardCoversRun
BY DEF Init, GuardCoversRun, InFlight

\* The second half of GuardCoversRun.
ChildInTask ==
    \A r \in alive : stage[r] = "executing" \/ (stage[r] = "lost" /\ ~Supervised)

\* A run moves between stages and the registry is left alone: its guard was held
\* before the move, and no other run is touched.
LEMMA CoverMove ==
    ASSUME RunTypeOK, GuardCoversRun, UNCHANGED registry,
           NEW r \in Runs, InFlight(r), NEW to, stage' = [stage EXCEPT ![r] = to]
    PROVE  \A s \in Runs : InFlight(s)' => guard'[s] = "held"
BY DEF RunTypeOK, GuardCoversRun, registry, InFlight

\* A run that moves without a terraform process disturbs no process of others.
LEMMA ChildMove ==
    ASSUME RunTypeOK, GuardCoversRun, UNCHANGED alive,
           NEW r \in Runs, InFlight(r), stage[r] # "executing",
           NEW to, stage' = [stage EXCEPT ![r] = to]
    PROVE  ChildInTask'
BY DEF RunTypeOK, GuardCoversRun, ChildInTask, InFlight

LEMMA CoverKept ==
    ASSUME RegP!RegistryInv, RunTypeOK, GuardCoversRun, [Next]_vars
    PROVE  GuardCoversRun'
<1> USE DEF Goto
<1>1. ASSUME NEW d \in Dirs, NEW r \in Runs, NEW apply \in BOOLEAN, Admit(d, r, apply)
      PROVE  GuardCoversRun'
  <2>1. guard \in [Runs -> RegP!GuardStates]
    BY DEF RegP!RegistryInv, RegP!TypeOK
  <2>2. guard' = [guard EXCEPT ![r] = "held"]
    BY <1>1 DEF Admit, Reg!Admit
  <2> QED
    BY <1>1, <2>1, <2>2 DEF Admit, GuardCoversRun, RunTypeOK, InFlight, driver
<1>2. ASSUME NEW r \in Runs, HandlerStep(r) PROVE GuardCoversRun'
  BY <1>2, CoverMove, ChildMove
  DEF HandlerStep, PersistRunning, SpawnTask, GuardCoversRun, ChildInTask, InFlight, driver
<1>3. ASSUME NEW r \in Runs, StartTerraform(r) PROVE GuardCoversRun'
  <2>1. \A s \in Runs : InFlight(s)' => guard'[s] = "held"
    BY <1>3, CoverMove DEF StartTerraform, InFlight
  <2>2. ChildInTask'
    BY <1>3 DEF StartTerraform, GuardCoversRun, ChildInTask, RunTypeOK
  <2> QED
    BY <2>1, <2>2 DEF GuardCoversRun, ChildInTask, InFlight
<1>4. ASSUME NEW r \in Runs,
             SpawnFails(r) \/ DrainFails(r) \/ Collect(r) \/ Retry(r)
      PROVE  GuardCoversRun'
  BY <1>4, CoverMove, ChildMove
  DEF SpawnFails, DrainFails, Collect, Retry, GuardCoversRun, ChildInTask, InFlight
<1>5. ASSUME NEW r \in Runs, EmitTask(r) \/ Finalize(r) \/ TaskPanic(r)
      PROVE  GuardCoversRun'
  BY <1>5, CoverMove, ChildMove
  DEF EmitTask, Finalize, TaskPanic, GuardCoversRun, ChildInTask, InFlight, driver
<1>6. ASSUME NEW r \in Runs, NEW e \in Exits, TerraformExit(r, e) PROVE GuardCoversRun'
  <2>1. \A s \in Runs : InFlight(s)' => guard'[s] = "held"
    BY <1>6, CoverMove DEF TerraformExit, InFlight
  <2>2. ChildInTask'
    BY <1>6 DEF TerraformExit, GuardCoversRun, ChildInTask, RunTypeOK
  <2> QED
    BY <2>1, <2>2 DEF GuardCoversRun, ChildInTask, InFlight
<1>7. ASSUME NEW r \in Runs, DropEntry(r) \/ DropPermit(r) PROVE GuardCoversRun'
  <2>1. ~InFlight(r)
    <3>1. CASE DropEntry(r)
      BY <3>1 DEF DropEntry, InFlight
    <3>2. CASE DropPermit(r)
      BY <3>2 DEF DropPermit, Reg!DropPermit, GuardCoversRun
    <3> QED
      BY <1>7, <3>1, <3>2
  <2>2. \A s \in Runs : s # r => guard'[s] = guard[s]
    BY <1>7 DEF DropEntry, DropPermit, Reg!DropEntry, Reg!DropPermit,
                RegP!RegistryInv, RegP!TypeOK
  <2>3. UNCHANGED <<stage, alive>>
    BY <1>7 DEF DropEntry, DropPermit, driver
  <2> QED
    BY <2>1, <2>2, <2>3 DEF GuardCoversRun, InFlight
<1>8. ASSUME NEW r \in Runs, OrphanExit(r) PROVE GuardCoversRun'
  BY <1>8 DEF OrphanExit, GuardCoversRun, InFlight, registry
<1>12. ASSUME NEW r \in Runs, SharedWrite(r) PROVE GuardCoversRun'
  BY <1>12 DEF SharedWrite, Meet, Scribble, GuardCoversRun, InFlight, registry, driver
<1>9. ASSUME NEW p \in Processes, StartupStep(p) PROVE GuardCoversRun'
  BY <1>9 DEF StartupStep, Start, ReconcileRead, ReconcileWrite, Serve, BindFails,
              GuardCoversRun, InFlight, registry, driver
<1>10. ASSUME NEW p \in Processes, Crash(p) PROVE GuardCoversRun'
  <2>1. CASE phase[p] = "serving"
    <3>1. \A s \in Runs : ~InFlight(s)'
      BY <1>10, <2>1 DEF Crash, InFlight, RunTypeOK
    <3>2. ChildInTask'
      <4>1. CASE Supervised
        BY <1>10, <2>1, <4>1 DEF Crash, ChildInTask
      <4>2. CASE ~Supervised
        BY <1>10, <2>1, <4>2 DEF Crash, ChildInTask, GuardCoversRun, InFlight, RunTypeOK
      <4> QED
        BY <4>1, <4>2
    <3> QED
      BY <3>1, <3>2 DEF GuardCoversRun, ChildInTask, InFlight
  <2>2. CASE phase[p] # "serving"
    BY <1>10, <2>2 DEF Crash, GuardCoversRun, InFlight, registry
  <2> QED
    BY <2>1, <2>2
<1>11. CASE Idle \/ UNCHANGED vars
  BY <1>11 DEF Idle, vars, registry, driver, GuardCoversRun, InFlight
<1> QED
  BY <1>1, <1>2, <1>3, <1>4, <1>5, <1>6, <1>7, <1>8, <1>9, <1>10, <1>11, <1>12
  DEF Next, TaskStep, TerraformStep

-------------------------------------------------------------------------------
\* The inductive invariant and what follows from it.

LEMMA RunnerInit == Init => RunnerInv
<1>1. Init => RegP!RegistryInv
  BY SameActions, RegistryAssumptions, RegP!RegistryInit DEF Init
<1> QED
  BY <1>1, RunTypesInit, CoverInit DEF RunnerInv

LEMMA RunnerStep == RunnerInv /\ [Next]_vars => RunnerInv'
BY RegistryInvKept, RunTypesKept, CoverKept DEF RunnerInv

\* The service keeps the registry intact, and every run with work left holds its guard,
\* with any number of instances, crashes, panics and failed writes.
THEOREM RunnerCorrect == Spec => []RunnerInv
BY RunnerInit, RunnerStep, PTL DEF Spec

\* Every variable keeps its type, and no retry overdraws its budget.
THEOREM TypeCorrect == Spec => []TypeOK
<1>1. RunnerInv => TypeOK
  BY DEF RunnerInv, TypeOK, RegP!RegistryInv, RegP!TypeOK, Reg!TypeOK,
         RegP!Permits, Reg!Permits, RegP!GuardStates, Reg!GuardStates
<1> QED
  BY <1>1, RunnerCorrect, PTL

\* While a run has work left it holds its guard, whatever the interleaving.
THEOREM GuardCoverage == Spec => []GuardCoversRun
<1>1. RunnerInv => GuardCoversRun
  BY DEF RunnerInv
<1> QED
  BY <1>1, RunnerCorrect, PTL

\* Where a supervisor kills the children of a dead server, two terraform
\* processes never work in one directory.
THEOREM DirectoryExclusion == ASSUME Supervised PROVE Spec => []DirExclusive
<1>1. RunnerInv => DirExclusive
  <2> SUFFICES ASSUME RunnerInv, NEW r \in alive, NEW s \in alive, r # s
               PROVE  lockDir[r] # lockDir[s]
    BY DEF DirExclusive
  <2>1. r \in Runs /\ s \in Runs
    BY DEF RunnerInv, RunTypeOK
  <2>2. guard[r] = "held" /\ guard[s] = "held"
    BY <2>1 DEF RunnerInv, GuardCoversRun, InFlight
  <2>3. inflight[lockDir[r]] = r /\ inflight[lockDir[s]] = s
    BY <2>1, <2>2 DEF RunnerInv, RegP!RegistryInv, RegP!GuardOwnsEntry
  <2> QED
    BY <2>3
<1> QED
  BY <1>1, RunnerCorrect, PTL

\* The service never runs more terraform processes than the clamped cap.
THEOREM CapRespected == Spec => []ConcurrencyCap
<1>1. RunnerInv => ConcurrencyCap
  <2> SUFFICES ASSUME RunnerInv PROVE Cardinality(alive \ Orphans) <= Reg!Permits
    BY DEF ConcurrencyCap
  <2>1. alive \ Orphans \subseteq RegP!Outstanding /\ RegP!Outstanding \subseteq Runs
    BY DEF RunnerInv, RunTypeOK, GuardCoversRun, InFlight, Orphans, RegP!Outstanding
  <2>2. IsFiniteSet(RegP!Outstanding)
    BY <2>1, RegistryAssumption, FS_Subset
  <2>3. Cardinality(alive \ Orphans) <= Cardinality(RegP!Outstanding)
    BY <2>1, <2>2, FS_Subset
  <2>4. RegP!Cardinality(RegP!Outstanding) = Cardinality(RegP!Outstanding)
    BY DEF RegP!Cardinality, Cardinality
  <2>5. sem + Cardinality(RegP!Outstanding) = Reg!Permits /\ sem \in Nat
    BY <2>4, RegistryAssumption
    DEF RunnerInv, RegP!RegistryInv, RegP!PermitsConserved, RegP!TypeOK,
        RegP!Permits, Reg!Permits
  <2>6. Cardinality(alive \ Orphans) \in Nat /\ Cardinality(RegP!Outstanding) \in Nat
    BY <2>1, <2>2, FS_Subset, FS_CardinalityType
  <2> QED
    BY <2>3, <2>5, <2>6, RegistryAssumption DEF Reg!Permits
<1> QED
  BY <1>1, RunnerCorrect, PTL

==============================================================================
