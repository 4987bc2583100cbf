---------------------------- MODULE MC_StatusFile ----------------------------
(***************************************************************************)
(* Two writers (the task and a reconciliation), who take turns, and a      *)
(* reader.  Four inodes: the temporary file, the final one, one that the   *)
(* reader still has open, and a spare.                                     *)
(***************************************************************************)
EXTENDS StatusFile

==============================================================================
