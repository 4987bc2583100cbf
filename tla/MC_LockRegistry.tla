--------------------------- MODULE MC_LockRegistry ---------------------------
(***************************************************************************)
(* Four runs compete for three directories and two permits: enough for a   *)
(* 409, for a 429 on a free directory, and for a trigger that meets a      *)
(* guard half dropped while another run holds the remaining permit.        *)
(***************************************************************************)
EXTENDS LockRegistry

==============================================================================
