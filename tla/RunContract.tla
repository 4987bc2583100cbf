------------------------------ MODULE RunContract ------------------------------
(***************************************************************************)
(* What the service promises about one run to those who never see it: the  *)
(* caller who polls its record, and the pipeline that is handed its task.  *)
(*                                                                         *)
(* A run is announced, hands on at most one task before its verdict, gets  *)
(* one verdict that agrees with that task, or is declared interrupted; and *)
(* then nothing about it changes any more.  Runner implements this for     *)
(* every run, whatever happens to the process, as long as instances do not *)
(* overlap.                                                                *)
(***************************************************************************)
CONSTANT Runs

VARIABLES status,   \* status[r]: the `state` on record, or "absent"
          task      \* task[r]: the kind of task that was handed on, or "none"

vars == <<status, task>>

Verdicts == {"apply_success", "plan_no_changes", "plan_changes", "config_error",
             "state_lock_unresolved", "driver_error"}

\* The verdict a task commits its run to.
VerdictOf == [config |-> "config_error", stale_lock |-> "state_lock_unresolved"]

Open(r) == status[r] \in {"absent", "running"}

Init ==
    /\ status = [r \in Runs |-> "absent"]
    /\ task = [r \in Runs |-> "none"]

Announce(r) ==
    /\ status[r] = "absent" /\ task[r] = "none"
    /\ status' = [status EXCEPT ![r] = "running"]
    /\ UNCHANGED task

HandOn(r, kind) ==
    /\ Open(r) /\ task[r] = "none"
    /\ task' = [task EXCEPT ![r] = kind]
    /\ UNCHANGED status

\* A run whose announcement was lost with a failed write may still get a verdict.
Settle(r, verdict) ==
    /\ Open(r)
    /\ task[r] \in DOMAIN VerdictOf => verdict = VerdictOf[task[r]]
    /\ status' = [status EXCEPT ![r] = verdict]
    /\ UNCHANGED task

\* A run that was cut short, whether or not its task went out before.
Interrupt(r) ==
    /\ status[r] = "running"
    /\ status' = [status EXCEPT ![r] = "interrupted"]
    /\ UNCHANGED task

Next ==
    \E r \in Runs :
        \/ Announce(r)
        \/ \E kind \in DOMAIN VerdictOf : HandOn(r, kind)
        \/ \E verdict \in Verdicts : Settle(r, verdict)
        \/ Interrupt(r)

Spec == Init /\ [][Next]_vars

===============================================================================
