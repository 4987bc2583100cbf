---------------------------- MODULE AdmissionGate ----------------------------
(***************************************************************************)
(* What the admission gate of tf-apply promises its callers, without the   *)
(* map, the semaphore and the RAII guard that locks.rs builds it from:     *)
(* every directory has at most one holder, a run holds at most one         *)
(* directory, and a grant is made only while fewer than Capacity           *)
(* directories are held.  LockRegistry implements this specification.      *)
(***************************************************************************)
EXTENDS Naturals, FiniteSets

CONSTANTS Dirs,      \* canonical terraform directories
          Runs,      \* run ids
          NoRun,     \* "nobody holds this directory"
          Capacity   \* how many directories may be held at once

VARIABLE holder      \* holder[d]: the run that owns d, or NoRun

Held == {d \in Dirs : holder[d] # NoRun}

Init == holder = [d \in Dirs |-> NoRun]

\* The caller's trigger for d is admitted as run r.
Grant(d, r) ==
    /\ holder[d] = NoRun
    /\ \A e \in Dirs : holder[e] # r
    /\ Cardinality(Held) < Capacity
    /\ holder' = [holder EXCEPT ![d] = r]

\* The run in d is over, d is free again.
Yield(d) ==
    /\ holder[d] # NoRun
    /\ holder' = [holder EXCEPT ![d] = NoRun]

\* The gate lives in memory: a new process starts with a free gate.
Reset == holder' = [d \in Dirs |-> NoRun]

Next ==
    \/ \E d \in Dirs, r \in Runs : Grant(d, r)
    \/ \E d \in Dirs : Yield(d)
    \/ Reset

Spec == Init /\ [][Next]_holder

==============================================================================
