---------------------------- MODULE RecordRegister ----------------------------
(***************************************************************************)
(* What the status record of one run promises the code above it: a write   *)
(* replaces the record as a whole, a record once written is never gone,    *)
(* and a read answers with the record at the moment the read began.        *)
(* StatusFile implements this register with two file names.                *)
(***************************************************************************)
CONSTANTS Records,   \* the records that can be written
          Absent,    \* no record yet
          NoRead     \* no read in progress, or none finished

VARIABLES record,    \* the current record
          reading,   \* what the read in progress is going to answer
          answer     \* what the last read answered

vars == <<record, reading, answer>>

Init == record = Absent /\ reading = NoRead /\ answer = NoRead

Write(v) == record' = v /\ UNCHANGED <<reading, answer>>

BeginRead ==
    /\ reading = NoRead
    /\ reading' = record
    /\ UNCHANGED <<record, answer>>

EndRead ==
    /\ reading # NoRead
    /\ answer' = reading
    /\ reading' = NoRead
    /\ UNCHANGED record

\* The reader dies with its process.
AbandonRead ==
    /\ reading # NoRead
    /\ reading' = NoRead
    /\ UNCHANGED <<record, answer>>

Next ==
    \/ \E v \in Records : Write(v)
    \/ BeginRead \/ EndRead \/ AbandonRead

Spec == Init /\ [][Next]_vars

===============================================================================
