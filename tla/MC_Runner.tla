------------------------------ MODULE MC_Runner ------------------------------
(***************************************************************************)
(* Instances of the service.  The cfg files choose the deployment, the     *)
(* bounds on faults and the properties; the temporal ones go without       *)
(* symmetry.                                                               *)
(***************************************************************************)
EXTENDS Runner, TLC

\* Directories, runs and processes are only compared for equality.
Symmetry == Permutations(Dirs) \cup Permutations(Runs) \cup Permutations(Processes)

==============================================================================
