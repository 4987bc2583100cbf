----------------------------- MODULE LockRegistry -----------------------------
(***************************************************************************)
(* The in-memory admission gate of src/tf-apply/src/locks.rs: a mutex'd    *)
(* map from canonical directory to run (a duplicate trigger gets 409), a   *)
(* semaphore that caps the concurrent runs (over the cap gets 429), and    *)
(* the RunGuard whose drop gives both back.                                *)
(*                                                                         *)
(* The drop of a guard is TWO steps: the Drop impl removes the map entry   *)
(* under the mutex, and only after its body has returned does the compiler *)
(* drop the `_permit` field.  Triggers run between the two.                *)
(***************************************************************************)
EXTENDS Naturals, FiniteSets

CONSTANTS Dirs,               \* canonical directories, the keys of the map
          Runs,               \* run ids, each a fresh UUID
          NoRun,              \* no entry in the map
          NoDir,              \* the guard of a run that was never admitted
          MaxConcurrentRuns   \* TF_MAX_CONCURRENT_RUNS as configured, 0 allowed

ASSUME RunsAssumption == IsFiniteSet(Runs) /\ NoRun \notin Runs
ASSUME DirsAssumption == IsFiniteSet(Dirs) /\ NoDir \notin Dirs
ASSUME CapAssumption  == MaxConcurrentRuns \in Nat

VARIABLES inflight,   \* inflight[d]: the run whose handle is in the map under d
          sem,        \* permits left in the semaphore
          guard,      \* guard[r]: where the RunGuard of r is in its life
          lockDir     \* lockDir[r]: the `dir` field of that guard

vars == <<inflight, sem, guard, lockDir>>

\* "unused"    the id is not minted yet
\* "held"      the guard exists, entry and permit are taken
\* "dropping"  the Drop body ran, the permit field is not dropped yet
\* "gone"      fully dropped, or lost with its process
GuardStates == {"unused", "held", "dropping", "gone"}

\* Faulty variant: the configured cap is used as it is.
Permits_NoClamp == MaxConcurrentRuns

\* new() clamps the configured cap to at least one permit.
Permits == IF MaxConcurrentRuns = 0 THEN 1 ELSE MaxConcurrentRuns

FreeMap == [d \in Dirs |-> NoRun]

Init ==
    /\ inflight = FreeMap
    /\ sem = Permits
    /\ guard = [r \in Runs |-> "unused"]
    /\ lockDir = [r \in Runs |-> NoDir]

-------------------------------------------------------------------------------
\* admit(): the directory is looked up first, then a permit is tried; both
\* happen under the mutex, so an admission is one step.

\* Faulty variant: the cap is never tried.
Verdict_NoCap(d) == IF inflight[d] # NoRun THEN "in_progress" ELSE "admitted"

Verdict(d) ==
    IF inflight[d] # NoRun THEN "in_progress"
    ELSE IF sem = 0 THEN "at_capacity"
    ELSE "admitted"

\* Faulty variant: the map is never looked up.
Admit_NoLookup(d, r) ==
    /\ guard[r] = "unused"
    /\ sem > 0
    /\ inflight' = [inflight EXCEPT ![d] = r]
    /\ sem' = sem - 1
    /\ guard' = [guard EXCEPT ![r] = "held"]
    /\ lockDir' = [lockDir EXCEPT ![r] = d]

\* A refused trigger ("in_progress" or "at_capacity") changes nothing.
Admit(d, r) ==
    /\ guard[r] = "unused"
    /\ Verdict(d) = "admitted"
    /\ inflight' = [inflight EXCEPT ![d] = r]
    /\ sem' = sem - 1
    /\ guard' = [guard EXCEPT ![r] = "held"]
    /\ lockDir' = [lockDir EXCEPT ![r] = d]

\* Faulty variant: the guard keeps the directory as the caller spelled it, and the
\* removal under that spelling finds nothing.
DropEntry_Stays(r) ==
    /\ guard[r] = "held"
    /\ guard' = [guard EXCEPT ![r] = "dropping"]
    /\ UNCHANGED <<inflight, sem, lockDir>>

\* RunGuard::drop calls release(), which removes whatever is under `dir`.
DropEntry(r) ==
    /\ guard[r] = "held"
    /\ inflight' = [inflight EXCEPT ![lockDir[r]] = NoRun]
    /\ guard' = [guard EXCEPT ![r] = "dropping"]
    /\ UNCHANGED <<sem, lockDir>>

\* Faulty variants: the permit is forgotten; it is released by hand and then
\* once more by the drop of the field.
DropPermit_Leak(r) ==
    /\ guard[r] = "dropping"
    /\ guard' = [guard EXCEPT ![r] = "gone"]
    /\ UNCHANGED <<inflight, sem, lockDir>>

DropPermit_Twice(r) ==
    /\ guard[r] = "dropping"
    /\ sem' = sem + 2
    /\ guard' = [guard EXCEPT ![r] = "gone"]
    /\ UNCHANGED <<inflight, lockDir>>

\* Dropping the permit field gives the permit back to the semaphore.
DropPermit(r) ==
    /\ guard[r] = "dropping"
    /\ sem' = sem + 1
    /\ guard' = [guard EXCEPT ![r] = "gone"]
    /\ UNCHANGED <<inflight, lockDir>>

\* A guard that was minted and has not given everything back.
Outstanding == {r \in Runs : guard[r] \in {"held", "dropping"}}

\* The process ends and its successor calls new(): every guard is lost with
\* the memory it was in, and the registry starts empty with all permits.
Restart ==
    /\ inflight' = FreeMap
    /\ sem' = Permits
    /\ guard' = [r \in Runs |-> IF r \in Outstanding THEN "gone" ELSE guard[r]]
    /\ UNCHANGED lockDir

Next ==
    \/ \E d \in Dirs, r \in Runs : Admit(d, r)
    \/ \E r \in Runs : DropEntry(r)
    \/ \E r \in Runs : DropPermit(r)
    \/ Restart

Spec == Init /\ [][Next]_vars

-------------------------------------------------------------------------------
\* Every variable keeps its type; in particular the semaphore never counts
\* below zero or above the permits it was created with.
TypeOK ==
    /\ inflight \in [Dirs -> Runs \cup {NoRun}]
    /\ sem \in 0..Permits
    /\ guard \in [Runs -> GuardStates]
    /\ lockDir \in [Runs -> Dirs \cup {NoDir}]

\* The map and the guards agree in both directions: a held guard owns the entry
\* of its own directory, and every entry belongs to a held guard.  Dropping a
\* guard removes an entry by directory, not by run, so were this to fail a
\* finishing run could free a directory another run is working in.
GuardOwnsEntry ==
    /\ \A r \in Runs : guard[r] = "held" =>
          lockDir[r] \in Dirs /\ inflight[lockDir[r]] = r
    /\ \A d \in Dirs : inflight[d] # NoRun =>
          guard[inflight[d]] = "held" /\ lockDir[inflight[d]] = d

\* No permit leaks and none is given back twice: the free permits and the
\* outstanding guards always add up to the cap, across drops and restarts.
PermitsConserved == sem + Cardinality(Outstanding) = Permits

\* What a refusal tells the caller is true.  409 names a run that still holds
\* its guard on that very directory; 429 is answered only while every permit is
\* out with a guard, also while a guard is half dropped.  With no guard outstanding
\* every trigger is admitted.
VerdictSound ==
    \A d \in Dirs :
        /\ Verdict(d) = "in_progress" =>
              guard[inflight[d]] = "held" /\ lockDir[inflight[d]] = d
        /\ Verdict(d) = "at_capacity" => Cardinality(Outstanding) = Permits
        /\ Outstanding = {} => Verdict(d) = "admitted"

\* The registry implements the abstract gate: map entries are the holders, the
\* clamped cap is the capacity, the second half of a drop is invisible.
Gate == INSTANCE AdmissionGate WITH holder <- inflight, Capacity <- Permits
ImplementsGate == Gate!Spec

===============================================================================
