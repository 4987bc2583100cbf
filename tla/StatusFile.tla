------------------------------ MODULE StatusFile ------------------------------
(***************************************************************************)
(* write_status and read_status of src/tf-apply/src/locks.rs at the level  *)
(* of system calls, for the record of one run: open and truncate           *)
(* <id>.status.tmp, write it, rename it onto <id>.status.  A file          *)
(* descriptor stays with the inode it was opened on, whatever its name     *)
(* becomes.  A write may be cut short by an error or by the death of the   *)
(* process, which leaves the temporary file behind; the next writer, of    *)
(* the same process or the next one, truncates and reuses it.              *)
(*                                                                         *)
(* write_status relies on a "single-writer-per-run model": SingleWriter    *)
(* says whether it holds.  Runner shows that it does where instances do    *)
(* not overlap, and takes what two writers can leave from here.            *)
(***************************************************************************)
EXTENDS FiniteSets

CONSTANTS Writers,       \* threads that call write_status for this run
          Inodes,        \* files of the runs directory
          NoInode,       \* a name that does not exist
          Records, Absent, NoRead,   \* as in RecordRegister
          SingleWriter   \* at most one writer at a time

ASSUME InodeAssumption  == NoInode \notin Inodes
ASSUME RecordAssumption == Absent # NoRead /\ {Absent, NoRead} \cap Records = {}
ASSUME WriterAssumption == SingleWriter \in BOOLEAN

VARIABLES tmp,     \* the inode named <id>.status.tmp
          final,   \* the inode named <id>.status
          data,    \* data[i]: the two halves of the content of an inode
          pc,      \* pc[w]: where writer w is in write_status
          fd,      \* fd[w]: the inode w has open
          val,     \* val[w]: the record w is writing
          mixed,   \* history: the records of writers who met, {} if none did
          rpc,     \* where the reader is in read_status
          rfd,     \* the inode the reader has open
          rhalf,   \* the first half it has read
          answer,  \* what the last read_status returned
          begun    \* history: the record when the read in progress began

writing == <<pc, fd, val, mixed>>
read    == <<rpc, rfd, rhalf, answer, begun>>
vars    == <<tmp, final, data, writing, read>>

\* A half that was not written yet, and content that does not parse.
Nothing == Absent
Empty   == <<Nothing, Nothing>>

\* Two halves make a record only if they come from one.
Parse(c) == IF c[1] = c[2] THEN c[1] ELSE Absent

\* The record under the final name, as a reader would find it.
OnDisk == IF final = NoInode THEN Absent ELSE Parse(data[final])

\* An inode nobody names or has open is gone, and its number can be reused.
Free == {i \in Inodes : i \notin {tmp, final, rfd} /\ \A w \in Writers : fd[w] # i}

Init ==
    /\ tmp = NoInode /\ final = NoInode
    /\ data = [i \in Inodes |-> Empty]
    /\ pc = [w \in Writers |-> "idle"]
    /\ fd = [w \in Writers |-> NoInode]
    /\ val = [w \in Writers |-> Absent]
    /\ mixed = {}
    /\ rpc = "idle" /\ rfd = NoInode /\ rhalf = Nothing
    /\ answer = NoRead /\ begun = NoRead

-------------------------------------------------------------------------------
\* write_status

Busy(w) == pc[w] # "idle"

\* A writer of v meets those who are writing already.
Join(v) == LET met == {u \in Writers : Busy(u)} IN
    mixed' = IF met = {} THEN {} ELSE mixed \cup {v} \cup {val[u] : u \in met}

\* Faulty variant: the record is written under its final name.
OpenTmp_InPlace(w, v) ==
    /\ pc[w] = "idle"
    /\ SingleWriter => \A u \in Writers : ~Busy(u)
    /\ \E i \in IF final = NoInode THEN Free ELSE {final} :
          /\ final' = i
          /\ fd' = [fd EXCEPT ![w] = i]
          /\ data' = [data EXCEPT ![i] = Empty]
    /\ pc' = [pc EXCEPT ![w] = "opened"]
    /\ val' = [val EXCEPT ![w] = v]
    /\ Join(v)
    /\ UNCHANGED <<tmp, read>>

\* std::fs::write opens with O_CREAT | O_TRUNC: an existing temporary file is
\* emptied, whoever left it.
OpenTmp(w, v) ==
    /\ pc[w] = "idle"
    /\ SingleWriter => \A u \in Writers : ~Busy(u)
    /\ \E i \in IF tmp = NoInode THEN Free ELSE {tmp} :
          /\ tmp' = i
          /\ fd' = [fd EXCEPT ![w] = i]
          /\ data' = [data EXCEPT ![i] = Empty]
    /\ pc' = [pc EXCEPT ![w] = "opened"]
    /\ val' = [val EXCEPT ![w] = v]
    /\ Join(v)
    /\ UNCHANGED <<final, read>>

\* The content may take more than one write call.
WriteHalf(w) ==
    /\ pc[w] = "opened"
    /\ data' = [data EXCEPT ![fd[w]][1] = val[w]]
    /\ pc' = [pc EXCEPT ![w] = "half"]
    /\ UNCHANGED <<tmp, final, fd, val, mixed, read>>

WriteRest(w) ==
    /\ pc[w] = "half"
    /\ data' = [data EXCEPT ![fd[w]][2] = val[w]]
    /\ pc' = [pc EXCEPT ![w] = "written"]
    /\ UNCHANGED <<tmp, final, fd, val, mixed, read>>

Leave(w) ==
    /\ pc' = [pc EXCEPT ![w] = "idle"]
    /\ fd' = [fd EXCEPT ![w] = NoInode]
    /\ val' = [val EXCEPT ![w] = Absent]
    /\ mixed' = IF \E u \in Writers \ {w} : Busy(u) THEN mixed ELSE {}

\* Faulty variants: the rename does not wait for the whole content; the file is
\* linked under the final name and keeps the temporary one.
Rename_Early(w) ==
    /\ pc[w] \in {"half", "written"}
    /\ IF tmp = NoInode THEN UNCHANGED <<tmp, final>>
                        ELSE final' = tmp /\ tmp' = NoInode
    /\ Leave(w)
    /\ UNCHANGED <<data, read>>

Rename_KeepsTmp(w) ==
    /\ pc[w] = "written"
    /\ final' = tmp
    /\ Leave(w)
    /\ UNCHANGED <<tmp, data, read>>

\* rename replaces the final name; it fails if somebody has renamed the
\* temporary file already.
Rename(w) ==
    /\ pc[w] = "written"
    /\ IF tmp = NoInode THEN UNCHANGED <<tmp, final>>
                        ELSE final' = tmp /\ tmp' = NoInode
    /\ Leave(w)
    /\ UNCHANGED <<data, read>>

\* A system call fails (`?`), or the process dies: the call ends where it is.
CutShort(w) ==
    /\ Busy(w)
    /\ Leave(w)
    /\ UNCHANGED <<tmp, final, data, read>>

-------------------------------------------------------------------------------
\* read_status, by GET /status or by the reconciliation.  A missing file and one
\* that does not parse are both None.

OpenFinal ==
    /\ rpc = "idle"
    /\ rpc' = "opened"
    /\ rfd' = final
    /\ begun' = OnDisk
    /\ UNCHANGED <<tmp, final, data, writing, rhalf, answer>>

ReadHalf ==
    /\ rpc = "opened"
    /\ rpc' = "half"
    /\ rhalf' = IF rfd = NoInode THEN Nothing ELSE data[rfd][1]
    /\ UNCHANGED <<tmp, final, data, writing, rfd, answer, begun>>

ReadRest ==
    /\ rpc = "half"
    /\ rpc' = "idle"
    /\ answer' = IF rfd = NoInode THEN Absent ELSE Parse(<<rhalf, data[rfd][2]>>)
    /\ rfd' = NoInode
    /\ rhalf' = Nothing
    /\ begun' = NoRead
    /\ UNCHANGED <<tmp, final, data, writing>>

\* The process dies under the reader.
AbandonRead ==
    /\ rpc # "idle"
    /\ rpc' = "idle"
    /\ rfd' = NoInode
    /\ rhalf' = Nothing
    /\ begun' = NoRead
    /\ UNCHANGED <<tmp, final, data, writing, answer>>

Next ==
    \/ \E w \in Writers, v \in Records : OpenTmp(w, v)
    \/ \E w \in Writers : WriteHalf(w) \/ WriteRest(w) \/ Rename(w) \/ CutShort(w)
    \/ OpenFinal \/ ReadHalf \/ ReadRest \/ AbandonRead

Spec == Init /\ [][Next]_vars

-------------------------------------------------------------------------------
\* Every variable keeps its type; the two names never share an inode.
TypeOK ==
    /\ tmp \in Inodes \cup {NoInode}
    /\ final \in Inodes \cup {NoInode}
    /\ tmp # NoInode => tmp # final
    /\ data \in [Inodes -> (Records \cup {Nothing}) \X (Records \cup {Nothing})]
    /\ pc \in [Writers -> {"idle", "opened", "half", "written"}]
    /\ fd \in [Writers -> Inodes \cup {NoInode}]
    /\ val \in [Writers -> Records \cup {Absent}]
    /\ mixed \in SUBSET Records
    /\ rpc \in {"idle", "opened", "half"}
    /\ rfd \in Inodes \cup {NoInode}
    /\ rhalf \in Records \cup {Nothing}
    /\ answer \in Records \cup {Absent, NoRead}
    /\ begun \in Records \cup {Absent, NoRead}

\* The file under the final name is one whole record, at every moment at which
\* the process could die or a reader could open it.
NeverTorn == final # NoInode => data[final][1] = data[final][2] /\ data[final][1] \in Records

\* A record changes to what a writer has written to the end, or, once writers have
\* met, to one of theirs or to nothing that parses, for as long as any of them is at
\* it.  A writer who meets nobody leaves a whole record, whoever met before it.
MixesOnlyTheirs ==
    [][\/ OnDisk' = OnDisk
       \/ \E w \in Writers : pc[w] = "written" /\ OnDisk' = val[w]
       \/ mixed # {} /\ OnDisk' \in mixed \cup {Absent}]_vars

\* The two names implement an atomic register: a rename is a write, everything
\* before it is invisible, and a reader is not disturbed by later renames.
Register == INSTANCE RecordRegister WITH record <- OnDisk, reading <- begun
ImplementsRegister == Register!Spec

===============================================================================
