--------------------------- MODULE StatusFile_proofs ---------------------------
(***************************************************************************)
(* Under the single-writer model the two names of a status record          *)
(* implement an atomic register, for any set of records, writers and       *)
(* inodes.  The reason: the only inode that is ever written is the one     *)
(* under the temporary name, and neither the final name nor a reader's     *)
(* descriptor ever denotes it.                                             *)
(*                                                                         *)
(* Without that model, two writers who meet may publish a mixture; what    *)
(* Runner takes from here about them is proved at the end.                 *)
(***************************************************************************)
EXTENDS StatusFile, TLAPS

\* One writer at a time; the file it has open is the temporary one, and as much
\* of it is written as the writer has come.
WriterInv ==
    /\ mixed = {}
    /\ \A u, w \in Writers : Busy(u) /\ Busy(w) => u = w
    /\ \A w \in Writers :
          /\ ~Busy(w) => fd[w] = NoInode
          /\ Busy(w) => tmp # NoInode /\ fd[w] = tmp /\ val[w] \in Records
          /\ pc[w] = "half" => data[tmp][1] = val[w]
          /\ pc[w] = "written" => data[tmp] = <<val[w], val[w]>>

\* What the reader has open, and has read of it, is the record as it began.
ReaderInv ==
    /\ rpc = "idle" => rfd = NoInode /\ begun = NoRead
    /\ rpc # "idle" => begun # NoRead
    /\ rpc # "idle" /\ rfd = NoInode => begun = Absent
    /\ rfd # NoInode => rfd # tmp /\ data[rfd] = <<begun, begun>>
    /\ rpc = "half" => rhalf = begun

FileInv == TypeOK /\ WriterInv /\ NeverTorn /\ ReaderInv

\* The record under the final name is never the mark of a reader at rest.
LEMMA OnDiskType == TypeOK /\ NeverTorn => OnDisk \in Records \cup {Absent}
BY DEF TypeOK, NeverTorn, OnDisk, Parse

LEMMA FileInit == Init => FileInv
BY InodeAssumption, RecordAssumption
DEF Init, FileInv, TypeOK, WriterInv, Busy, NeverTorn, ReaderInv, Empty, Nothing

\* Opening the temporary file empties an inode that has no other name or reader.
LEMMA OpenTmpKeepsInv ==
    ASSUME SingleWriter, FileInv, NEW w \in Writers, NEW v \in Records, OpenTmp(w, v)
    PROVE  FileInv'
<1> USE InodeAssumption, RecordAssumption DEF FileInv
<1>1. PICK i \in Inodes :
        /\ tmp' = i /\ fd' = [fd EXCEPT ![w] = i] /\ data' = [data EXCEPT ![i] = Empty]
        /\ i # final /\ i # rfd
  BY DEF OpenTmp, Free, TypeOK, ReaderInv
<1>2. TypeOK'
  BY <1>1 DEF OpenTmp, Join, TypeOK, Empty, Nothing, read
<1>3. \A u \in Writers : pc[u] = "idle"
  BY DEF OpenTmp, Busy
<1>4. WriterInv'
  BY <1>1, <1>3 DEF OpenTmp, Join, TypeOK, WriterInv, Busy
<1>5. NeverTorn'
  BY <1>1 DEF OpenTmp, TypeOK, NeverTorn
<1>6. ReaderInv'
  BY <1>1 DEF OpenTmp, TypeOK, ReaderInv, read
<1> QED
  BY <1>2, <1>4, <1>5, <1>6

\* Writing touches the temporary inode only.
LEMMA WriteKeepsInv ==
    ASSUME FileInv, NEW w \in Writers, WriteHalf(w) \/ WriteRest(w)
    PROVE  FileInv'
<1> USE InodeAssumption, RecordAssumption DEF FileInv
<1>1. Busy(w) /\ tmp # NoInode /\ tmp \in Inodes /\ fd[w] = tmp /\ val[w] \in Records
  BY DEF WriteHalf, WriteRest, WriterInv, Busy, TypeOK
<1>2. \A i \in Inodes : i # tmp => data'[i] = data[i]
  BY <1>1 DEF WriteHalf, WriteRest, TypeOK
<1>3. TypeOK'
  BY <1>1 DEF WriteHalf, WriteRest, TypeOK, read, Nothing
<1>4. WriterInv'
  BY <1>1 DEF WriteHalf, WriteRest, TypeOK, WriterInv, Busy
<1>5. NeverTorn'
  BY <1>1, <1>2 DEF WriteHalf, WriteRest, TypeOK, NeverTorn
<1>6. ReaderInv'
  BY <1>1, <1>2 DEF WriteHalf, WriteRest, TypeOK, ReaderInv, read
<1> QED
  BY <1>3, <1>4, <1>5, <1>6

\* The renamed inode is whole, and nobody writes it any more.
LEMMA RenameKeepsInv ==
    ASSUME FileInv, NEW w \in Writers, Rename(w)
    PROVE  FileInv' /\ OnDisk' = val[w] /\ val[w] \in Records
<1> USE InodeAssumption, RecordAssumption DEF FileInv
<1>1. Busy(w) /\ tmp # NoInode /\ val[w] \in Records /\ data[tmp] = <<val[w], val[w]>>
  BY DEF Rename, WriterInv, Busy
<1>2. final' = tmp /\ tmp' = NoInode /\ data' = data
  BY <1>1 DEF Rename
<1>3. TypeOK'
  BY <1>1, <1>2 DEF Rename, Leave, TypeOK, read
<1>4. \A u \in Writers : u # w => pc[u] = "idle"
  BY <1>1 DEF WriterInv, Busy
<1>5. WriterInv'
  BY <1>2, <1>4 DEF Rename, Leave, TypeOK, WriterInv, Busy
<1>6. NeverTorn'
  BY <1>1, <1>2 DEF NeverTorn
<1>7. ReaderInv'
  BY <1>2 DEF Rename, ReaderInv, read
<1>8. OnDisk' = val[w]
  BY <1>1, <1>2 DEF OnDisk, Parse
<1> QED
  BY <1>1, <1>3, <1>5, <1>6, <1>7, <1>8

\* A call that is cut short leaves the temporary file as it is.
LEMMA CutShortKeepsInv ==
    ASSUME FileInv, NEW w \in Writers, CutShort(w)
    PROVE  FileInv'
<1> USE InodeAssumption, RecordAssumption DEF FileInv
<1>1. TypeOK'
  BY DEF CutShort, Leave, TypeOK, read
<1>2. WriterInv'
  BY DEF CutShort, Leave, TypeOK, WriterInv, Busy
<1>3. NeverTorn' /\ ReaderInv'
  BY DEF CutShort, NeverTorn, ReaderInv, read
<1> QED
  BY <1>1, <1>2, <1>3

\* Reading changes nothing but the reader.
LEMMA ReadKeepsInv ==
    ASSUME FileInv, OpenFinal \/ ReadHalf \/ ReadRest \/ AbandonRead
    PROVE  FileInv'
<1> USE InodeAssumption, RecordAssumption DEF FileInv
<1>1. UNCHANGED <<tmp, final, data, writing>>
  BY DEF OpenFinal, ReadHalf, ReadRest, AbandonRead
<1>2. WriterInv' /\ NeverTorn'
  BY <1>1 DEF WriterInv, Busy, NeverTorn, writing
<1>3. TypeOK' /\ ReaderInv'
  <2>1. CASE OpenFinal
    BY <2>1, OnDiskType DEF OpenFinal, TypeOK, ReaderInv, NeverTorn, OnDisk, Parse, writing
  <2>2. CASE ReadHalf
    BY <2>2 DEF ReadHalf, TypeOK, ReaderInv, Nothing, writing
  <2>3. CASE ReadRest
    BY <2>3 DEF ReadRest, TypeOK, ReaderInv, Nothing, Parse, writing
  <2>4. CASE AbandonRead
    BY <2>4 DEF AbandonRead, TypeOK, ReaderInv, Nothing, writing
  <2> QED
    BY <2>1, <2>2, <2>3, <2>4
<1> QED
  BY <1>2, <1>3

LEMMA FileStep == ASSUME SingleWriter, FileInv, [Next]_vars PROVE FileInv'
<1>1. CASE Next
  BY <1>1, OpenTmpKeepsInv, WriteKeepsInv, RenameKeepsInv, CutShortKeepsInv, ReadKeepsInv
  DEF Next
<1>2. CASE UNCHANGED vars
  BY <1>2 DEF vars, read, writing, FileInv, TypeOK, WriterInv, Busy, NeverTorn, ReaderInv
<1> QED
  BY <1>1, <1>2

\* With one writer at a time every name, writer and reader has its own inode, with the
\* contents it may have, however writers are cut short.
THEOREM FileCorrect == ASSUME SingleWriter PROVE Spec => []FileInv
BY FileInit, FileStep, PTL DEF Spec

\* With one writer at a time every variable keeps its type, and the temporary and
\* the final name never stand for one inode.
THEOREM TypeCorrect == ASSUME SingleWriter PROVE Spec => []TypeOK
<1>1. FileInv => TypeOK
  BY DEF FileInv
<1> QED
  BY <1>1, FileCorrect, PTL

\* With one writer at a time the file under the final name is a whole record at
\* every moment, whatever is cut short and whenever the process dies.
THEOREM NeverTornAlways == ASSUME SingleWriter PROVE Spec => []NeverTorn
<1>1. FileInv => NeverTorn
  BY DEF FileInv
<1> QED
  BY <1>1, FileCorrect, PTL

-------------------------------------------------------------------------------
\* A rename is the write of the register, the open of a reader its begin; all
\* other steps are invisible.
LEMMA RegisterStep ==
    ASSUME SingleWriter, FileInv, [Next]_vars
    PROVE  [Register!Next]_(Register!vars)
<1> USE InodeAssumption, RecordAssumption DEF FileInv
<1> USE DEF Register!vars, Register!Next
<1>1. ASSUME NEW w \in Writers, NEW v \in Records, OpenTmp(w, v)
      PROVE  UNCHANGED <<OnDisk, begun, answer>>
  <2>1. PICK i \in Inodes : data' = [data EXCEPT ![i] = Empty] /\ i # final
    BY <1>1 DEF OpenTmp, Free, TypeOK
  <2> QED
    BY <1>1, <2>1 DEF OpenTmp, OnDisk, TypeOK, read
<1>2. ASSUME NEW w \in Writers, WriteHalf(w) \/ WriteRest(w)
      PROVE  UNCHANGED <<OnDisk, begun, answer>>
  <2>1. fd[w] # final /\ fd[w] \in Inodes
    BY <1>2 DEF WriteHalf, WriteRest, WriterInv, Busy, TypeOK
  <2> QED
    BY <1>2, <2>1 DEF WriteHalf, WriteRest, OnDisk, TypeOK, read
<1>3. ASSUME NEW w \in Writers, Rename(w)
      PROVE  \E v \in Records : Register!Write(v)
  <2>1. OnDisk' = val[w] /\ val[w] \in Records
    BY <1>3, RenameKeepsInv
  <2>2. Register!Write(val[w])
    BY <1>3, <2>1 DEF Rename, Register!Write, read
  <2> QED
    BY <2>1, <2>2
<1>4. ASSUME NEW w \in Writers, CutShort(w)
      PROVE  UNCHANGED <<OnDisk, begun, answer>>
  BY <1>4 DEF CutShort, OnDisk, read
<1>5. ASSUME OpenFinal PROVE Register!BeginRead
  BY <1>5 DEF OpenFinal, Register!BeginRead, ReaderInv, OnDisk
<1>6. ASSUME ReadHalf PROVE UNCHANGED <<OnDisk, begun, answer>>
  BY <1>6 DEF ReadHalf, OnDisk
<1>7. ASSUME ReadRest PROVE Register!EndRead
  <2>1. answer' = begun
    BY <1>7 DEF ReadRest, ReaderInv, Parse, TypeOK
  <2> QED
    BY <1>7, <2>1 DEF ReadRest, Register!EndRead, ReaderInv, OnDisk
<1>8. ASSUME AbandonRead PROVE Register!AbandonRead
  BY <1>8 DEF AbandonRead, Register!AbandonRead, ReaderInv, OnDisk
<1>9. CASE UNCHANGED vars
  BY <1>9 DEF vars, read, OnDisk
<1> QED
  BY <1>1, <1>2, <1>3, <1>4, <1>5, <1>6, <1>7, <1>8, <1>9 DEF Next

\* The write-then-rename protocol implements the atomic register.
THEOREM FileImplementsRegister == ASSUME SingleWriter PROVE Spec => ImplementsRegister
<1>1. Init => Register!Init
  BY DEF Init, Register!Init, OnDisk
<1> QED
  BY <1>1, FileCorrect, RegisterStep, PTL DEF Spec, ImplementsRegister, Register!Spec

-------------------------------------------------------------------------------
\* Without the single-writer model.  A writer who meets nobody still has the temporary
\* file to itself.  Writers who met have written nothing but their own records into
\* what they have open and into the temporary file.
Alone(w) ==
    /\ \A u \in Writers : Busy(u) => u = w
    /\ tmp # NoInode /\ fd[w] = tmp
    /\ pc[w] = "half" => data[tmp][1] = val[w]
    /\ pc[w] = "written" => data[tmp] = <<val[w], val[w]>>

HoldsTheirs(i) ==
    /\ data[i][1] \in mixed \cup {Nothing}
    /\ data[i][2] \in mixed \cup {Nothing}

MixInv ==
    /\ TypeOK
    /\ \A w \in Writers : Busy(w) => fd[w] \in Inodes /\ val[w] \in Records
    /\ mixed = {} => \A w \in Writers : Busy(w) => Alone(w)
    /\ mixed # {} => /\ tmp # NoInode => HoldsTheirs(tmp)
                     /\ \A w \in Writers : Busy(w) => HoldsTheirs(fd[w]) /\ val[w] \in mixed

\* What a step of writers who met may do to the record.
OneOfTheirs ==
    \/ OnDisk' = OnDisk
    \/ mixed # {} /\ OnDisk' \in mixed \cup {Absent}

LEMMA MixInit == Init => MixInv
BY InodeAssumption, RecordAssumption
DEF Init, MixInv, TypeOK, Busy, Empty, Nothing

\* The truncated file is not the final one, and holds nobody's record.
LEMMA OpenTmpMixes ==
    ASSUME MixInv, NEW w \in Writers, NEW v \in Records, OpenTmp(w, v)
    PROVE  MixInv' /\ OnDisk' = OnDisk
<1> USE InodeAssumption, RecordAssumption DEF MixInv
<1>1. PICK i \in Inodes :
        /\ tmp' = i /\ fd' = [fd EXCEPT ![w] = i] /\ data' = [data EXCEPT ![i] = Empty]
        /\ i # final
        /\ tmp # NoInode => i = tmp
  BY DEF OpenTmp, Free, TypeOK
<1>2. TypeOK'
  <2>1. mixed' \in SUBSET Records
    BY DEF OpenTmp, Join, TypeOK
  <2> QED
    BY <1>1, <2>1 DEF OpenTmp, TypeOK, Empty, Nothing, read
<1>3. \A u \in Writers : Busy(u)' => fd'[u] \in Inodes /\ val'[u] \in Records
  BY <1>1 DEF OpenTmp, TypeOK, Busy
<1>4. CASE \A u \in Writers : ~Busy(u)
  <2>1. mixed' = {} /\ \A u \in Writers : Busy(u)' => u = w
    BY <1>4 DEF OpenTmp, Join, Busy, TypeOK
  <2>2. Alone(w)'
    BY <1>1, <2>1 DEF OpenTmp, Alone, TypeOK
  <2> QED
    BY <1>1, <1>2, <1>3, <2>1, <2>2 DEF OpenTmp, OnDisk, TypeOK
<1>5. CASE \E u \in Writers : Busy(u)
  <2>1. mixed' = mixed \cup {v} \cup {val[u] : u \in {x \in Writers : Busy(x)}}
    BY <1>5 DEF OpenTmp, Join
  <2>2. HoldsTheirs(tmp)'
    BY <1>1 DEF HoldsTheirs, Empty, Nothing, TypeOK
  <2>3. ASSUME NEW u \in Writers, Busy(u)'
        PROVE  HoldsTheirs(fd[u])' /\ val'[u] \in mixed'
    <3>1. CASE u = w
      BY <1>1, <2>1, <2>2, <3>1 DEF OpenTmp, HoldsTheirs, TypeOK
    <3>2. CASE u # w /\ fd[u] = i
      BY <1>1, <2>1, <2>2, <2>3, <3>2 DEF OpenTmp, HoldsTheirs, TypeOK, Busy
    <3>3. CASE u # w /\ fd[u] # i
      <4>1. Busy(u) /\ fd'[u] = fd[u] /\ val'[u] = val[u] /\ data'[fd[u]] = data[fd[u]]
        BY <1>1, <2>3, <3>3 DEF OpenTmp, TypeOK, Busy
      <4>2. mixed # {}
        BY <1>1, <3>3, <4>1 DEF Alone
      <4> QED
        BY <2>1, <4>1, <4>2 DEF HoldsTheirs
    <3> QED
      BY <3>1, <3>2, <3>3
  <2> QED
    BY <1>1, <1>2, <1>3, <2>1, <2>2, <2>3 DEF OpenTmp, OnDisk, TypeOK
<1> QED
  BY <1>4, <1>5

\* A writer who met nobody writes a file that is not the final one; the others write
\* their own records, whatever name the file has by now.
LEMMA WriteMixes ==
    ASSUME MixInv, NEW w \in Writers, WriteHalf(w) \/ WriteRest(w)
    PROVE  MixInv' /\ OneOfTheirs
<1> USE InodeAssumption, RecordAssumption DEF MixInv
<1>1. Busy(w) /\ fd[w] \in Inodes /\ val[w] \in Records
  BY DEF WriteHalf, WriteRest, Busy
<1>2. UNCHANGED <<tmp, final, fd, val, mixed, read>> /\ \A u \in Writers : Busy(u)' <=> Busy(u)
  BY DEF WriteHalf, WriteRest, Busy, TypeOK
<1>3. \A i \in Inodes : i # fd[w] => data'[i] = data[i]
  BY <1>1 DEF WriteHalf, WriteRest, TypeOK
<1>4. TypeOK'
  BY <1>1 DEF WriteHalf, WriteRest, TypeOK, read, Nothing
<1>5. CASE mixed = {}
  <2>1. Alone(w)
    BY <1>1, <1>5
  <2>2. Alone(w)'
    BY <1>1, <1>2, <2>1 DEF WriteHalf, WriteRest, Alone, TypeOK, Busy
  <2>3. OnDisk' = OnDisk
    BY <1>2, <1>3, <2>1 DEF Alone, OnDisk, TypeOK
  <2>4. \A u \in Writers : Busy(u)' => u = w
    BY <1>2, <2>1 DEF Alone
  <2> QED
    BY <1>1, <1>2, <1>4, <1>5, <2>2, <2>3, <2>4 DEF OneOfTheirs
<1>6. CASE mixed # {}
  <2>1. HoldsTheirs(fd[w])'
    BY <1>1, <1>2, <1>6 DEF WriteHalf, WriteRest, HoldsTheirs, TypeOK
  <2>2. \A i \in Inodes : HoldsTheirs(i) => HoldsTheirs(i)'
    BY <1>2, <1>3, <2>1 DEF HoldsTheirs
  <2>3. MixInv'
    BY <1>2, <1>4, <1>6, <2>2 DEF TypeOK
  <2>4. OneOfTheirs
    <3>1. CASE final = fd[w]
      BY <1>1, <1>2, <1>6, <2>1, <3>1 DEF OneOfTheirs, OnDisk, Parse, HoldsTheirs, Nothing
    <3>2. CASE final # fd[w]
      BY <1>2, <1>3, <3>2 DEF OneOfTheirs, OnDisk, TypeOK, Parse
    <3> QED
      BY <3>1, <3>2
  <2> QED
    BY <2>3, <2>4
<1> QED
  BY <1>5, <1>6

\* The one who leaves takes nothing from those who stay.
LEMMA LeaveMixes ==
    ASSUME MixInv, NEW w \in Writers, Busy(w), Leave(w),
           TypeOK', data' = data, tmp' \in {tmp, NoInode}
    PROVE  MixInv'
<1> USE InodeAssumption, RecordAssumption DEF MixInv
<1>1. \A u \in Writers : Busy(u)' <=> u # w /\ Busy(u)
  BY DEF Leave, Busy, TypeOK
<1>2. \A u \in Writers : u # w => fd'[u] = fd[u] /\ val'[u] = val[u]
  BY DEF Leave, TypeOK
<1>3. CASE \E u \in Writers \ {w} : Busy(u)
  <2>1. mixed' = mixed /\ mixed # {}
    BY <1>3 DEF Leave, Alone
  <2> QED
    BY <1>1, <1>2, <2>1 DEF HoldsTheirs
<1>4. CASE \A u \in Writers \ {w} : ~Busy(u)
  <2>1. mixed' = {} /\ \A u \in Writers : ~Busy(u)'
    BY <1>1, <1>4 DEF Leave
  <2> QED
    BY <2>1
<1> QED
  BY <1>3, <1>4

\* Who met nobody renames its own whole record; the others something of theirs.
LEMMA RenameMixes ==
    ASSUME MixInv, NEW w \in Writers, Rename(w)
    PROVE  MixInv' /\ (OneOfTheirs \/ OnDisk' = val[w])
<1> USE InodeAssumption, RecordAssumption DEF MixInv
<1>1. Busy(w) /\ data' = data /\ tmp' \in {tmp, NoInode}
  BY DEF Rename, Busy
<1>2. TypeOK'
  BY DEF Rename, Leave, TypeOK, read
<1>3. MixInv'
  BY <1>1, <1>2, LeaveMixes DEF Rename
<1>4. CASE tmp = NoInode
  BY <1>3, <1>4 DEF Rename, OnDisk, OneOfTheirs
<1>5. CASE tmp # NoInode
  <2>1. OnDisk' = Parse(data[tmp])
    BY <1>5 DEF Rename, OnDisk
  <2>2. CASE mixed = {}
    BY <1>1, <1>3, <2>1, <2>2 DEF Rename, Alone, Parse
  <2>3. CASE mixed # {}
    BY <1>3, <1>5, <2>1, <2>3 DEF HoldsTheirs, Parse, OneOfTheirs, Nothing
  <2> QED
    BY <2>2, <2>3
<1> QED
  BY <1>4, <1>5

LEMMA CutShortMixes ==
    ASSUME MixInv, NEW w \in Writers, CutShort(w)
    PROVE  MixInv' /\ OnDisk' = OnDisk
<1>1. TypeOK'
  BY InodeAssumption, RecordAssumption DEF MixInv, CutShort, Leave, TypeOK, read
<1> QED
  BY <1>1, LeaveMixes DEF CutShort, OnDisk

LEMMA ReadMixes ==
    ASSUME MixInv, OpenFinal \/ ReadHalf \/ ReadRest \/ AbandonRead
    PROVE  MixInv' /\ OnDisk' = OnDisk
<1> USE InodeAssumption, RecordAssumption DEF MixInv
<1>1. UNCHANGED <<tmp, final, data, writing>>
  BY DEF OpenFinal, ReadHalf, ReadRest, AbandonRead
<1>2. TypeOK'
  BY DEF OpenFinal, ReadHalf, ReadRest, AbandonRead, TypeOK, OnDisk, Parse, Nothing, writing
<1> QED
  BY <1>1, <1>2 DEF Busy, Alone, HoldsTheirs, OnDisk, writing

\* The action of MixesOnlyTheirs.
OnlyTheirs ==
    \/ OnDisk' = OnDisk
    \/ \E w \in Writers : pc[w] = "written" /\ OnDisk' = val[w]
    \/ mixed # {} /\ OnDisk' \in mixed \cup {Absent}

LEMMA MixStep == ASSUME MixInv, [Next]_vars PROVE MixInv' /\ OnlyTheirs
<1>1. ASSUME NEW w \in Writers, Rename(w) PROVE MixInv' /\ OnlyTheirs
  BY <1>1, RenameMixes DEF OnlyTheirs, OneOfTheirs, Rename
<1>2. CASE UNCHANGED vars
  BY <1>2 DEF vars, read, writing, MixInv, TypeOK, Busy, Alone, HoldsTheirs, OnlyTheirs, OnDisk
<1> QED
  BY <1>1, <1>2, OpenTmpMixes, WriteMixes, CutShortMixes, ReadMixes
  DEF Next, OnlyTheirs, OneOfTheirs

\* Any number of writers who share the temporary file: the record changes to what a
\* writer has written to the end, or, while writers who met are at it, to one of
\* theirs or to nothing that parses.
THEOREM MixturesAreTheirs == Spec => MixesOnlyTheirs
<1>1. MixInv /\ [Next]_vars =>
        [\/ OnDisk' = OnDisk
         \/ \E w \in Writers : pc[w] = "written" /\ OnDisk' = val[w]
         \/ mixed # {} /\ OnDisk' \in mixed \cup {Absent}]_vars
  BY MixStep DEF OnlyTheirs
<1> QED
  BY <1>1, MixInit, MixStep, PTL DEF Spec, MixesOnlyTheirs

===============================================================================
