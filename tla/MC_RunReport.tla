----------------------------- MODULE MC_RunReport -----------------------------
(***************************************************************************)
(* Every script of up to three lines over two streams, in each of two      *)
(* attempts, pipes that hold one line, a tail of one line and two lines of *)
(* stderr: a script fills a pipe, pushes a lock out of the tail, passes    *)
(* the cap of stderr, and the tail of stderr is shorter than what is kept. *)
(***************************************************************************)
EXTENDS RunReport

===============================================================================
