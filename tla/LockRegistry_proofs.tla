------------------------- MODULE LockRegistry_proofs -------------------------
(***************************************************************************)
(* Proofs about LockRegistry, for every finite set of directories and      *)
(* runs and every configured cap.  The inductive invariant is RegistryInv: *)
(* the map and the guards agree, and no permit is lost or made up.         *)
(***************************************************************************)
EXTENDS LockRegistry, FiniteSetTheorems, TLAPS

RegistryInv == TypeOK /\ GuardOwnsEntry /\ PermitsConserved

\* The clamp of new() leaves at least one permit.
LEMMA PermitsPositive == Permits \in Nat /\ Permits > 0
BY CapAssumption DEF Permits

\* Guards that are out are finitely many, so they can be counted.
LEMMA OutstandingFinite ==
    IsFiniteSet(Outstanding) /\ Cardinality(Outstanding) \in Nat
<1>1. Outstanding \subseteq Runs
  BY DEF Outstanding
<1> QED
  BY <1>1, RunsAssumption, FS_Subset, FS_CardinalityType

\* A fresh registry satisfies the invariant.
LEMMA RegistryInit == Init => RegistryInv
<1> SUFFICES ASSUME Init PROVE RegistryInv
  OBVIOUS
<1>1. TypeOK
  BY PermitsPositive DEF Init, TypeOK, FreeMap, GuardStates
<1>2. GuardOwnsEntry
  BY DEF Init, GuardOwnsEntry, FreeMap
<1>3. Outstanding = {}
  BY DEF Init, Outstanding
<1>4. PermitsConserved
  BY <1>3, FS_EmptySet, PermitsPositive DEF Init, PermitsConserved
<1> QED
  BY <1>1, <1>2, <1>4 DEF RegistryInv

\* An admission adds one guard and takes one permit; the entry it writes was free.
LEMMA AdmitKeepsInv ==
    ASSUME RegistryInv, NEW d \in Dirs, NEW r \in Runs, Admit(d, r)
    PROVE  RegistryInv'
<1> USE DEF RegistryInv
<1>1. inflight[d] = NoRun /\ sem # 0 /\ guard[r] = "unused"
  BY DEF Admit, Verdict
<1>2. TypeOK'
  BY <1>1, PermitsPositive DEF TypeOK, Admit, GuardStates
<1>3. GuardOwnsEntry'
  BY <1>1, RunsAssumption DEF GuardOwnsEntry, TypeOK, Admit
<1>4. Outstanding' = Outstanding \cup {r} /\ r \notin Outstanding
  BY <1>1 DEF Outstanding, Admit, TypeOK
<1>5. Cardinality(Outstanding') = Cardinality(Outstanding) + 1
  BY <1>4, OutstandingFinite, FS_AddElement
<1>6. PermitsConserved'
  BY <1>1, <1>5, OutstandingFinite, PermitsPositive
  DEF PermitsConserved, Admit, TypeOK, Permits
<1> QED
  BY <1>2, <1>3, <1>6

\* Removing the entry of a guard removes no other guard's entry, and the guard
\* still counts: its permit is not back yet.
LEMMA DropEntryKeepsInv ==
    ASSUME RegistryInv, NEW r \in Runs, DropEntry(r)
    PROVE  RegistryInv'
<1> USE DEF RegistryInv
<1>1. guard[r] = "held" /\ lockDir[r] \in Dirs /\ inflight[lockDir[r]] = r
  BY DEF DropEntry, GuardOwnsEntry
<1>2. TypeOK'
  BY <1>1 DEF TypeOK, DropEntry, GuardStates
<1>3. GuardOwnsEntry'
  BY <1>1, RunsAssumption DEF GuardOwnsEntry, TypeOK, DropEntry
<1>4. Outstanding' = Outstanding
  BY <1>1 DEF Outstanding, DropEntry, TypeOK
<1>5. PermitsConserved'
  BY <1>4 DEF PermitsConserved, DropEntry, Permits
<1> QED
  BY <1>2, <1>3, <1>5

\* Returning the permit ends the guard that held it.
LEMMA DropPermitKeepsInv ==
    ASSUME RegistryInv, NEW r \in Runs, DropPermit(r)
    PROVE  RegistryInv'
<1> USE DEF RegistryInv
<1>1. guard[r] = "dropping" /\ r \in Outstanding
  BY DEF DropPermit, Outstanding
<1>2. Outstanding' = Outstanding \ {r}
  BY <1>1 DEF Outstanding, DropPermit, TypeOK
<1>3. Cardinality(Outstanding') = Cardinality(Outstanding) - 1
  BY <1>1, <1>2, OutstandingFinite, FS_RemoveElement
<1>4. PermitsConserved'
  BY <1>3, OutstandingFinite, PermitsPositive
  DEF PermitsConserved, DropPermit, TypeOK, Permits
<1>5. Cardinality(Outstanding) > 0
  BY <1>1, OutstandingFinite, FS_EmptySet
<1>6. sem + 1 \in 0..Permits
  BY <1>5, OutstandingFinite, PermitsPositive DEF TypeOK, PermitsConserved
<1>7. TypeOK'
  BY <1>6 DEF TypeOK, DropPermit, GuardStates, Permits
<1>8. GuardOwnsEntry'
  BY <1>1 DEF GuardOwnsEntry, TypeOK, DropPermit
<1> QED
  BY <1>4, <1>7, <1>8

\* A restart drops every guard with the registry it belongs to.
LEMMA RestartKeepsInv ==
    ASSUME RegistryInv, Restart
    PROVE  RegistryInv'
<1> USE DEF RegistryInv
<1>1. TypeOK'
  BY PermitsPositive DEF TypeOK, Restart, FreeMap, GuardStates, Permits
<1>2. GuardOwnsEntry'
  BY DEF GuardOwnsEntry, TypeOK, Restart, FreeMap, Outstanding
<1>3. Outstanding' = {}
  BY DEF Outstanding, Restart, TypeOK
<1>4. PermitsConserved'
  BY <1>3, FS_EmptySet, PermitsPositive DEF PermitsConserved, Restart, Permits
<1> QED
  BY <1>1, <1>2, <1>4

\* One step of the registry, or of anything that leaves it alone.
LEMMA RegistryStep == RegistryInv /\ [Next]_vars => RegistryInv'
<1> SUFFICES ASSUME RegistryInv, [Next]_vars PROVE RegistryInv'
  OBVIOUS
<1>1. CASE Next
  BY <1>1, AdmitKeepsInv, DropEntryKeepsInv, DropPermitKeepsInv, RestartKeepsInv
  DEF Next
<1>2. CASE UNCHANGED vars
  BY <1>2 DEF vars, RegistryInv, TypeOK, GuardOwnsEntry, PermitsConserved,
              Outstanding, Permits
<1> QED
  BY <1>1, <1>2

\* The registry invariant, for every number of runs, directories and permits.
THEOREM RegistryCorrect == Spec => []RegistryInv
BY RegistryInit, RegistryStep, PTL DEF Spec

\* Every variable keeps its type; the semaphore stays within the clamped cap.
THEOREM TypeCorrect == Spec => []TypeOK
<1>1. RegistryInv => TypeOK
  BY DEF RegistryInv
<1> QED
  BY <1>1, RegistryCorrect, PTL

\* Map and guards always agree: a drop by directory frees its own run's entry.
THEOREM EntryOwnership == Spec => []GuardOwnsEntry
<1>1. RegistryInv => GuardOwnsEntry
  BY DEF RegistryInv
<1> QED
  BY <1>1, RegistryCorrect, PTL

\* Permits are neither leaked nor returned twice.
THEOREM PermitConservation == Spec => []PermitsConserved
<1>1. RegistryInv => PermitsConserved
  BY DEF RegistryInv
<1> QED
  BY <1>1, RegistryCorrect, PTL

-------------------------------------------------------------------------------
\* What a refused or admitted caller is told is true of the registry.
LEMMA VerdictFollows == RegistryInv => VerdictSound
<1> SUFFICES ASSUME RegistryInv, NEW d \in Dirs
             PROVE  /\ Verdict(d) = "in_progress" =>
                          guard[inflight[d]] = "held" /\ lockDir[inflight[d]] = d
                    /\ Verdict(d) = "at_capacity" => Cardinality(Outstanding) = Permits
                    /\ Outstanding = {} => Verdict(d) = "admitted"
  BY DEF VerdictSound
<1> USE DEF RegistryInv
<1>1. Verdict(d) = "in_progress" => inflight[d] # NoRun
  BY DEF Verdict
<1>2. Verdict(d) = "at_capacity" => sem = 0
  BY DEF Verdict
<1>3. Verdict(d) = "at_capacity" => Cardinality(Outstanding) = Permits
  BY <1>2, OutstandingFinite, PermitsPositive DEF PermitsConserved
<1>4. ASSUME Outstanding = {} PROVE Verdict(d) = "admitted"
  <2>1. sem # 0
    BY <1>4, FS_EmptySet, PermitsPositive DEF PermitsConserved, TypeOK
  <2>2. inflight[d] = NoRun
    BY <1>4 DEF GuardOwnsEntry, TypeOK, Outstanding
  <2> QED
    BY <2>1, <2>2 DEF Verdict
<1> QED
  BY <1>1, <1>3, <1>4 DEF GuardOwnsEntry

\* 409 and 429 are never answered on a false ground, and an idle registry admits
\* every directory.
THEOREM VerdictsAreSound == Spec => []VerdictSound
BY RegistryCorrect, VerdictFollows, PTL

-------------------------------------------------------------------------------
\* The registry implements AdmissionGate.

\* There is a guard behind every held directory, a different one for each: the
\* directories held are at most as many as the guards outstanding.
LEMMA HeldBounded ==
    ASSUME RegistryInv
    PROVE  /\ Cardinality(Gate!Held) \in Nat
           /\ Cardinality(Gate!Held) <= Cardinality(Outstanding)
<1> DEFINE owner == [d \in Gate!Held |-> inflight[d]]
<1>1. ASSUME NEW d \in Gate!Held
      PROVE  inflight[d] \in Outstanding /\ lockDir[inflight[d]] = d
  BY <1>1 DEF RegistryInv, TypeOK, GuardOwnsEntry, Outstanding, Gate!Held
<1>2. owner \in [Gate!Held -> Outstanding]
  BY <1>1
<1>3. ASSUME NEW d \in Gate!Held, NEW e \in Gate!Held, owner[d] = owner[e]
      PROVE  d = e
  BY <1>1, <1>3
<1>4. owner \in Injection(Gate!Held, Outstanding)
  BY <1>2, <1>3 DEF Injection, IsInjective
<1>5. Cardinality(Gate!Held) <= Cardinality(Outstanding) /\ IsFiniteSet(Gate!Held)
  BY <1>4, OutstandingFinite, FS_Injection
<1> QED
  BY <1>5, FS_CardinalityType

\* The gate counts as the registry does.
LEMMA SameCount == \A S : Gate!Cardinality(S) = Cardinality(S)
BY DEF Gate!Cardinality, Cardinality

LEMMA GateInit == Init => Gate!Init
BY DEF Init, Gate!Init, FreeMap

\* An admission is a grant, the first half of a drop a yield, the second half a
\* stutter and a restart a reset.
LEMMA GateStep == RegistryInv /\ [Next]_vars => [Gate!Next]_inflight
<1> SUFFICES ASSUME RegistryInv, [Next]_vars PROVE [Gate!Next]_inflight
  OBVIOUS
<1>1. ASSUME NEW d \in Dirs, NEW r \in Runs, Admit(d, r) PROVE Gate!Grant(d, r)
  <2>1. inflight[d] = NoRun /\ sem # 0 /\ guard[r] = "unused"
    BY <1>1 DEF Admit, Verdict
  <2>2. \A e \in Dirs : inflight[e] # r
    BY <2>1, RunsAssumption DEF RegistryInv, GuardOwnsEntry
  <2>3. Cardinality(Outstanding) < Permits
    BY <2>1, OutstandingFinite, PermitsPositive
    DEF RegistryInv, TypeOK, PermitsConserved
  <2>4. Cardinality(Gate!Held) < Permits
    BY <2>3, HeldBounded, OutstandingFinite, PermitsPositive
  <2> QED
    BY <1>1, <2>1, <2>2, <2>4, SameCount DEF Gate!Grant, Admit
<1>2. ASSUME NEW r \in Runs, DropEntry(r) PROVE \E d \in Dirs : Gate!Yield(d)
  <2>1. lockDir[r] \in Dirs /\ inflight[lockDir[r]] # NoRun
    BY <1>2, RunsAssumption DEF DropEntry, RegistryInv, GuardOwnsEntry
  <2>2. Gate!Yield(lockDir[r])
    BY <1>2, <2>1 DEF DropEntry, Gate!Yield
  <2> QED
    BY <2>1, <2>2
<1>3. ASSUME NEW r \in Runs, DropPermit(r) PROVE UNCHANGED inflight
  BY <1>3 DEF DropPermit
<1>4. ASSUME Restart PROVE Gate!Reset
  BY <1>4 DEF Restart, Gate!Reset, FreeMap
<1>5. CASE Next
  <2>1. ASSUME NEW d \in Dirs, NEW r \in Runs, Admit(d, r) PROVE Gate!Next
    BY <1>1, <2>1 DEF Gate!Next
  <2>2. ASSUME NEW r \in Runs, DropEntry(r) PROVE Gate!Next
    BY <1>2, <2>2 DEF Gate!Next
  <2>3. ASSUME Restart PROVE Gate!Next
    BY <1>4, <2>3 DEF Gate!Next
  <2> QED
    BY <1>3, <1>5, <2>1, <2>2, <2>3 DEF Next
<1>6. CASE UNCHANGED vars
  BY <1>6 DEF vars
<1> QED
  BY <1>5, <1>6

\* Every behaviour of the registry is one of the gate: one holder per directory,
\* never more of them than the cap, although the cap is enforced by a semaphore
\* that is released later than the map entry.
THEOREM RegistryImplementsGate == Spec => ImplementsGate
BY RegistryCorrect, GateInit, GateStep, PTL DEF Spec, ImplementsGate, Gate!Spec

===============================================================================
