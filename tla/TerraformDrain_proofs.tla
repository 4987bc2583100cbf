------------------------- MODULE TerraformDrain_proofs -------------------------
(***************************************************************************)
(* Proofs about one attempt of terraform, for every size of the pipes, of  *)
(* the tail and of the kept stderr, and every script.                      *)
(*                                                                         *)
(* AttemptInv places every line that went into a pipe: of stdout a         *)
(* beginning is in the log, the next line may be in the buffer of the      *)
(* file, the rest is in the pipe, and the ring has the end of what was     *)
(* read; of stderr a beginning is kept and the rest is in the pipe.  Every *)
(* step keeps it, so the drains that the driver has joined hold all of it. *)
(* RunReport_proofs carries it over the attempts of a run.                 *)
(***************************************************************************)
EXTENDS TerraformDrain, SequenceTheorems, TLAPS

Least(m, n) == IF m < n THEN m ELSE n

\* t is what s begins with.
Begins(t, s) == Len(t) <= Len(s) /\ \A i \in 1..Len(t) : t[i] = s[i]

\* t is what the first n elements of s end with.
EndsAt(t, s, n) ==
    /\ Len(t) <= n /\ n <= Len(s)
    /\ \A i \in 1..Len(t) : t[i] = s[n - Len(t) + i]

\* How many lines have been read from a pipe.
Read(s) == Len(said[s]) - Len(pipe[s])

\* A pipe holds the lines that were written last.
PipeHoldsRest(s) == EndsAt(pipe[s], said[s], Len(said[s]))

\* Before the log is open nothing has been read.
OutFresh == unwritten = <<>> /\ ring = <<>> /\ Read("out") = 0

\* What has been read from stdout is on its way into the log, and its end is
\* in the ring.
OutKept ==
    /\ Begins(log, said["out"])
    /\ EndsAt(unwritten, said["out"], Read("out"))
    /\ Len(log) + Len(unwritten) = Read("out")
    /\ EndsAt(ring, said["out"], Read("out"))
    /\ Len(ring) = Least(Read("out"), TailLines)

\* What has been read from stderr is kept as far as the cap allows.
ErrKept ==
    /\ Begins(collected, said["err"])
    /\ Len(collected) = Least(Read("err"), StderrLines)

\* Where each line is.
LinesPlaced ==
    /\ \A s \in Streams : PipeHoldsRest(s)
    /\ drain["out"] = "opening" => OutFresh
    /\ drain["out"] \in {"reading", "done"} => OutKept
    /\ drain["err"] \in {"reading", "done"} => ErrKept

\* A drain is done when there is nothing left to read, nor to write to the log.
DoneIsAll ==
    /\ drain["err"] # "opening"
    /\ \A s \in Streams : drain[s] = "done" => AllWritten(s) /\ pipe[s] = <<>>
    /\ drain["out"] = "done" => unwritten = <<>>

\* The driver has an outcome when both drains are done, and it is what the
\* classifier makes of them.
DriverWaits ==
    /\ pc \in {"join out", "join err"} => Exited
    /\ pc = "join err" => drain["out"] = "done"
    /\ pc = "end" <=> result # "none"
    /\ Concluded =>
          /\ Exited /\ drain["out"] = "done" /\ drain["err"] = "done"
          /\ result = Classify

AttemptInv == AttemptTypeOK /\ LinesPlaced /\ DoneIsAll /\ DriverWaits

-------------------------------------------------------------------------------
\* Sequences.

LEMMA LeastMovesOn ==
    ASSUME NEW n \in Nat, NEW cap \in Nat
    PROVE  /\ Least(n, cap) \in Nat /\ Least(n, cap) <= cap
           /\ Least(n, cap) = cap => Least(n + 1, cap) = cap
           /\ Least(n, cap) # cap => Least(n + 1, cap) = Least(n, cap) + 1
           /\ Least(n, cap) # cap => Least(n, cap) = n
BY DEF Least

\* A line that goes into the pipe is said, and last.
LEMMA EndTakesNew ==
    ASSUME NEW t \in Seq(Lines), NEW s \in Seq(Lines), NEW x \in Lines,
           EndsAt(t, s, Len(s))
    PROVE  EndsAt(Append(t, x), Append(s, x), Len(Append(s, x)))
<1>1. /\ Len(t) \in Nat /\ Len(s) \in Nat /\ Len(t) <= Len(s)
      /\ Len(Append(t, x)) = Len(t) + 1 /\ Len(Append(s, x)) = Len(s) + 1
  BY DEF EndsAt
<1>2. \A i \in 1..Len(t) + 1 :
          Append(t, x)[i] = Append(s, x)[Len(s) - Len(t) + i]
  <2> TAKE i \in 1..Len(t) + 1
  <2>1. CASE i <= Len(t)
    <3>1. t[i] = s[Len(s) - Len(t) + i] /\ Len(s) - Len(t) + i \in 1..Len(s)
      BY <1>1, <2>1 DEF EndsAt
    <3> QED
      BY <1>1, <2>1, <3>1
  <2>2. CASE i = Len(t) + 1
    <3>1. Len(s) - Len(t) + i = Len(s) + 1
      BY <1>1, <2>2
    <3> QED
      BY <1>1, <2>2, <3>1
  <2> QED
    BY <1>1, <2>1, <2>2
<1> DEFINE a == Append(t, x)  b == Append(s, x)
<1>3. /\ Len(a) = Len(t) + 1 /\ Len(b) = Len(s) + 1
      /\ Len(t) <= Len(s) /\ Len(t) \in Nat /\ Len(s) \in Nat
      /\ \A i \in 1..Len(t) + 1 : a[i] = b[Len(s) - Len(t) + i]
  BY <1>1, <1>2
<1> HIDE DEF a, b
<1>4. Len(b) - Len(a) = Len(s) - Len(t)
  BY <1>3
<1>5. EndsAt(a, b, Len(b))
  BY <1>3, <1>4 DEF EndsAt
<1> QED
  BY <1>5 DEF a, b

\* What is said later changes nothing of what was read.
LEMMA EndOutlives ==
    ASSUME NEW t \in Seq(Lines), NEW s \in Seq(Lines), NEW x \in Lines, NEW n \in Nat,
           EndsAt(t, s, n)
    PROVE  EndsAt(t, Append(s, x), n)
BY DEF EndsAt

LEMMA BeginOutlives ==
    ASSUME NEW t \in Seq(Lines), NEW s \in Seq(Lines), NEW x \in Lines, Begins(t, s)
    PROVE  Begins(t, Append(s, x))
BY DEF Begins

\* An end without its first element is an end.
LEMMA EndLosesHead ==
    ASSUME NEW t \in Seq(Lines), NEW s \in Seq(Lines), NEW n \in Nat,
           EndsAt(t, s, n), t # <<>>
    PROVE  /\ EndsAt(Tail(t), s, n) /\ Tail(t) \in Seq(Lines)
           /\ Len(Tail(t)) = Len(t) - 1 /\ Len(t) >= 1
           /\ Head(t) \in Lines /\ Head(t) = s[n - Len(t) + 1]
<1>1. /\ Head(t) \in Lines /\ Tail(t) \in Seq(Lines) /\ Len(Tail(t)) = Len(t) - 1
      /\ \A i \in 1..Len(Tail(t)) : Tail(t)[i] = t[i + 1]
  BY HeadTailProperties
<1>2. Len(t) \in Nat /\ Len(t) >= 1 /\ Len(s) \in Nat
  BY EmptySeq, LenProperties
<1>3. Head(t) = t[1]
  BY <1>2
<1>4. \A i \in 1..Len(Tail(t)) : Tail(t)[i] = s[n - Len(Tail(t)) + i]
  <2> TAKE i \in 1..Len(Tail(t))
  <2>1. i + 1 \in 1..Len(t)
    BY <1>1, <1>2
  <2>2. n - Len(t) + (i + 1) = n - Len(Tail(t)) + i
    BY <1>1, <1>2
  <2> QED
    BY <1>1, <2>1, <2>2 DEF EndsAt
<1> QED
  BY <1>1, <1>2, <1>3, <1>4 DEF EndsAt

\* An end with the next element is an end.
LEMMA EndMovesOn ==
    ASSUME NEW t \in Seq(Lines), NEW s \in Seq(Lines), NEW n \in Nat,
           EndsAt(t, s, n), n < Len(s)
    PROVE  EndsAt(Append(t, s[n + 1]), s, n + 1)
BY DEF EndsAt

\* A beginning with the next element is a beginning.
LEMMA BeginMovesOn ==
    ASSUME NEW t \in Seq(Lines), NEW s \in Seq(Lines), Begins(t, s), Len(t) < Len(s)
    PROVE  Begins(Append(t, s[Len(t) + 1]), s)
BY DEF Begins

\* A beginning of full length is the whole.
LEMMA BeginOfAll ==
    ASSUME NEW t \in Seq(Lines), NEW s \in Seq(Lines), Begins(t, s), Len(t) = Len(s)
    PROVE  t = s
BY SeqEqual DEF Begins

\* An end of n elements is the last n.
LEMMA EndIsLast ==
    ASSUME NEW t \in Seq(Lines), NEW s \in Seq(Lines), NEW n \in Nat,
           EndsAt(t, s, Len(s)), Len(t) = Least(Len(s), n)
    PROVE  t = LastOf(s, n)
<1> DEFINE m == IF Len(s) > n THEN Len(s) - n + 1 ELSE 1
<1>1. Len(s) \in Nat /\ m \in Nat /\ m >= 1 /\ Len(s) - m + 1 = Len(t)
  <2>1. Len(s) \in Nat
    BY LenProperties
  <2>2. CASE Len(s) > n
    <3>1. Len(t) = n /\ m = Len(s) - n + 1
      BY <2>1, <2>2 DEF Least
    <3> HIDE DEF m
    <3> QED
      BY <2>1, <2>2, <3>1
  <2>3. CASE ~(Len(s) > n)
    <3>1. Len(t) = Len(s) /\ m = 1
      BY <2>1, <2>3 DEF Least
    <3> QED
      BY <2>1, <3>1
  <2> QED
    BY <2>2, <2>3
<1>2. \A i \in m..Len(s) : s[i] \in Lines
  BY <1>1, ElementOfSeq
<1> HIDE DEF m
<1>3. /\ SubSeq(s, m, Len(s)) \in Seq(Lines)
      /\ Len(SubSeq(s, m, Len(s))) = IF m <= Len(s) THEN Len(s) - m + 1 ELSE 0
      /\ \A i \in 1..(Len(s) - m + 1) : SubSeq(s, m, Len(s))[i] = s[m + i - 1]
  BY <1>1, <1>2, SubSeqProperties
<1>4. Len(t) = Len(SubSeq(s, m, Len(s)))
  BY <1>1, <1>3, LenProperties
<1>5. \A i \in 1..Len(t) : t[i] = SubSeq(s, m, Len(s))[i]
  <2> TAKE i \in 1..Len(t)
  <2>1. m + i - 1 = Len(s) - Len(t) + i
    BY <1>1, LenProperties
  <2> QED
    BY <1>1, <1>3, <2>1 DEF EndsAt
<1> QED
  BY <1>3, <1>4, <1>5, SeqEqual DEF LastOf, m

\* A beginning of n elements is the first n.
LEMMA BeginIsFirst ==
    ASSUME NEW t \in Seq(Lines), NEW s \in Seq(Lines), NEW n \in Nat,
           Begins(t, s), Len(t) = n
    PROVE  t = SubSeq(s, 1, n)
<1>1. Len(s) \in Nat /\ n <= Len(s)
  BY LenProperties DEF Begins
<1>2. \A i \in 1..n : s[i] \in Lines
  BY <1>1, ElementOfSeq
<1>3. /\ SubSeq(s, 1, n) \in Seq(Lines)
      /\ Len(SubSeq(s, 1, n)) = IF 1 <= n THEN n - 1 + 1 ELSE 0
      /\ \A i \in 1..(n - 1 + 1) : SubSeq(s, 1, n)[i] = s[1 + i - 1]
  BY <1>2, SubSeqProperties
<1>4. Len(SubSeq(s, 1, n)) = n /\ \A i \in 1..n : SubSeq(s, 1, n)[i] = s[i]
  BY <1>3
<1> QED
  BY <1>3, <1>4, SeqEqual DEF Begins

-------------------------------------------------------------------------------
\* What the invariant says of the lengths.

LEMMA Sizes ==
    ASSUME AttemptTypeOK, LinesPlaced
    PROVE  /\ \A s \in Streams :
                 /\ pipe[s] \in Seq(Lines) /\ said[s] \in Seq(Lines)
                 /\ Len(pipe[s]) \in Nat /\ Len(said[s]) \in Nat /\ Read(s) \in Nat
                 /\ EndsAt(pipe[s], said[s], Len(said[s]))
           /\ Len(log) \in Nat /\ Len(unwritten) \in Nat
           /\ Len(ring) \in Nat /\ Len(collected) \in Nat
<1>1. \A s \in Streams :
          /\ pipe[s] \in Seq(Lines) /\ said[s] \in Seq(Lines)
          /\ EndsAt(pipe[s], said[s], Len(said[s]))
  BY DEF AttemptTypeOK, LinesPlaced, PipeHoldsRest
<1>2. \A s \in Streams : Len(pipe[s]) \in Nat /\ Len(said[s]) \in Nat
  BY <1>1, LenProperties
<1>3. \A s \in Streams : Read(s) \in Nat
  <2> TAKE s \in Streams
  <2>1. Len(pipe[s]) <= Len(said[s])
    BY <1>1 DEF EndsAt
  <2> QED
    BY <1>2, <2>1 DEF Read
<1> QED
  BY <1>1, <1>2, <1>3, LenProperties DEF AttemptTypeOK

\* A step that leaves the drains and the driver alone leaves DriverWaits alone.
LEMMA DriverUndisturbed ==
    ASSUME DriverWaits, UNCHANGED <<exit, drain, ring, collected, pc, result>>
    PROVE  DriverWaits'
BY DEF DriverWaits, Exited, Concluded, Classify, IsStateLock, Contains

\* While a drain is at work there is no outcome.
LEMMA NoOutcomeYet ==
    ASSUME DriverWaits, NEW s \in Streams, drain[s] # "done"
    PROVE  ~Concluded
BY DEF DriverWaits, Streams

-------------------------------------------------------------------------------
\* The child.

\* What is written to the end stays so, and is not what is written next.
LEMMA WrittenStays ==
    ASSUME AttemptTypeOK, NEW s \in Streams, AllWritten(s),
           todo' \in {todo, Tail(todo), <<>>}, todo' = todo \/ todo # <<>>
    PROVE  AllWritten(s)' /\ (todo # <<>> => Head(todo)[1] # s)
<1>1. todo \in Seq(Streams \X Lines)
  BY DEF AttemptTypeOK
<1>2. ASSUME todo # <<>>
      PROVE  /\ Len(todo) \in Nat /\ Len(todo) >= 1 /\ Head(todo) = todo[1]
             /\ Len(Tail(todo)) = Len(todo) - 1
             /\ \A i \in 1..Len(Tail(todo)) : Tail(todo)[i] = todo[i + 1]
  BY <1>1, <1>2, HeadTailProperties, EmptySeq, LenProperties
<1>3. todo # <<>> => Head(todo)[1] # s
  BY <1>2 DEF AllWritten
<1>4. CASE todo' = todo
  BY <1>3, <1>4 DEF AllWritten
<1>5. CASE todo # <<>> /\ todo' = Tail(todo)
  <2>1. ASSUME NEW i \in 1..Len(Tail(todo)) PROVE Tail(todo)[i][1] # s
    <3>1. i + 1 \in 1..Len(todo) /\ Tail(todo)[i] = todo[i + 1]
      BY <1>2, <1>5
    <3> QED
      BY <3>1 DEF AllWritten
  <2> QED
    BY <1>3, <1>5, <2>1 DEF AllWritten
<1>6. CASE todo' = <<>>
  <2>1. 1..Len(todo') = {}
    BY <1>6
  <2> QED
    BY <1>3, <2>1 DEF AllWritten
<1> QED
  BY <1>4, <1>5, <1>6

\* A line that is written is said and in its pipe.
LEMMA WriteKeeps ==
    ASSUME AttemptInv, ChildWrite
    PROVE  AttemptInv'
<1> USE DEF AttemptInv
<1>1. PICK s \in Streams, x \in Lines :
          /\ Head(todo)[1] = s /\ drain[s] # "failed" /\ Len(pipe[s]) < PipeCap
          /\ pipe' = [pipe EXCEPT ![s] = Append(@, x)]
          /\ said' = [said EXCEPT ![s] = Append(@, x)]
  <2>1. Head(todo) \in Streams \X Lines
    BY HeadTailProperties DEF ChildWrite, AttemptTypeOK
  <2> QED
    BY <2>1 DEF ChildWrite
<1>2. /\ todo # <<>> /\ todo' = Tail(todo)
      /\ UNCHANGED <<exit, drain, log, unwritten, ring, collected, pc, result>>
  BY DEF ChildWrite, drains, driver, file
<1>3. /\ pipe \in [Streams -> Seq(Lines)] /\ said \in [Streams -> Seq(Lines)]
      /\ \A t \in Streams : Len(pipe[t]) \in Nat /\ Len(said[t]) \in Nat
  BY Sizes DEF AttemptTypeOK
<1>4. /\ pipe'[s] = Append(pipe[s], x) /\ said'[s] = Append(said[s], x)
      /\ \A t \in Streams \ {s} : pipe'[t] = pipe[t] /\ said'[t] = said[t]
      /\ pipe' \in [Streams -> Seq(Lines)] /\ said' \in [Streams -> Seq(Lines)]
  BY <1>1, <1>3
<1>5. Len(pipe'[s]) = Len(pipe[s]) + 1 /\ Len(said'[s]) = Len(said[s]) + 1
  BY <1>1, <1>3, <1>4
<1>6. \A t \in Streams : Read(t)' = Read(t)
  <2> TAKE t \in Streams
  <2>1. CASE t = s
    <3>1. Len(said[s]) + 1 - (Len(pipe[s]) + 1) = Len(said[s]) - Len(pipe[s])
      BY <1>3
    <3>2. Read(s)' = Len(said'[s]) - Len(pipe'[s]) /\ Read(s) = Len(said[s]) - Len(pipe[s])
      BY DEF Read
    <3> QED
      BY <1>5, <2>1, <3>1, <3>2
  <2> QED
    BY <1>4, <2>1 DEF Read
<1>7. AttemptTypeOK'
  <2>1. todo' \in Seq(Streams \X Lines)
    BY <1>2, HeadTailProperties DEF AttemptTypeOK
  <2>2. \A t \in Streams : Len(pipe'[t]) <= PipeCap
    <3>1. Len(pipe'[s]) <= PipeCap
      BY <1>1, <1>3, <1>5, SizesAssumption
    <3> QED
      BY <1>4, <3>1 DEF AttemptTypeOK
  <2> QED
    BY <1>2, <1>4, <2>1, <2>2 DEF AttemptTypeOK
<1>8. \A t \in Streams : PipeHoldsRest(t)'
  <2>1. EndsAt(pipe'[s], said'[s], Len(said'[s]))
    BY <1>3, <1>4, Sizes, EndTakesNew
  <2> QED
    BY <1>4, <2>1 DEF PipeHoldsRest, LinesPlaced
<1>9. \A t \in Streams : \A u \in Seq(Lines), n \in Nat :
          /\ EndsAt(u, said[t], n) => EndsAt(u, said'[t], n)
          /\ Begins(u, said[t]) => Begins(u, said'[t])
  BY <1>3, <1>4, EndOutlives, BeginOutlives
<1>10. "out" \in Streams /\ "err" \in Streams
  BY DEF Streams
<1>11. drain["out"] \in {"reading", "done"} => OutKept'
  BY <1>2, <1>6, <1>9, <1>10, Sizes DEF LinesPlaced, OutKept, AttemptTypeOK
<1>12. drain["err"] \in {"reading", "done"} => ErrKept'
  BY <1>2, <1>6, <1>9, <1>10, Sizes DEF LinesPlaced, ErrKept, AttemptTypeOK
<1>13. LinesPlaced'
  BY <1>2, <1>6, <1>8, <1>10, <1>11, <1>12 DEF LinesPlaced, OutFresh
<1>14. DoneIsAll'
  <2>1. ASSUME NEW t \in Streams, drain[t] = "done" PROVE AllWritten(t)' /\ pipe'[t] = <<>>
    <3>1. AllWritten(t)' /\ t # s
      BY <1>1, <1>2, <2>1, WrittenStays DEF DoneIsAll
    <3> QED
      BY <1>4, <2>1, <3>1 DEF DoneIsAll
  <2> QED
    BY <1>2, <1>10, <2>1 DEF DoneIsAll
<1> QED
  BY <1>2, <1>7, <1>13, <1>14, DriverUndisturbed

\* The other steps of the child change nothing but what it has still to write,
\* and its exit code once.
LEMMA ChildKeeps ==
    ASSUME AttemptInv, ChildBrokenPipe \/ ChildExit \/ ChildExitEarly
    PROVE  AttemptInv'
<1> USE DEF AttemptInv
<1>1. /\ todo' \in {todo, Tail(todo), <<>>} /\ (todo' = todo \/ todo # <<>>)
      /\ UNCHANGED <<said, pipe, drain, log, unwritten, ring, collected, pc, result>>
      /\ exit' = exit \/ (pc = "wait" /\ ~Exited /\ exit' \in Codes)
  BY DEF ChildBrokenPipe, ChildExit, ChildExitEarly, drains, driver, file
<1>2. todo' \in Seq(Streams \X Lines)
  <2>1. todo \in Seq(Streams \X Lines) /\ <<>> \in Seq(Streams \X Lines)
    BY EmptySeq DEF AttemptTypeOK
  <2>2. todo # <<>> => Tail(todo) \in Seq(Streams \X Lines)
    BY <2>1, HeadTailProperties
  <2> QED
    BY <1>1, <2>1, <2>2
<1>3. AttemptTypeOK'
  BY <1>1, <1>2 DEF AttemptTypeOK
<1>4. LinesPlaced'
  BY <1>1 DEF LinesPlaced, PipeHoldsRest, OutFresh, OutKept, ErrKept, Read
<1>5. DoneIsAll'
  BY <1>1, WrittenStays DEF DoneIsAll
<1>6. DriverWaits'
  <2>1. CASE exit' = exit
    BY <1>1, <2>1, DriverUndisturbed
  <2>2. CASE pc = "wait"
    <3>1. result = "none"
      BY <2>2 DEF DriverWaits
    <3> QED
      BY <1>1, <2>2, <3>1 DEF DriverWaits, Concluded, Outcomes
  <2> QED
    BY <1>1, <2>1, <2>2
<1> QED
  BY <1>3, <1>4, <1>5, <1>6

-------------------------------------------------------------------------------
\* The spawn.

LEMMA ScriptsAreSequences == Scripts \subseteq Seq(Streams \X Lines)
<1>1. Writes \subseteq Streams \X Lines
  BY DEF Writes, Streams, Lines
<1>2. \A n \in 0..MaxLines : [1..n -> Streams \X Lines] \subseteq Seq(Streams \X Lines)
  BY MaxLinesAssumption
<1>3. \A n \in 0..MaxLines : [1..n -> Writes] \subseteq [1..n -> Streams \X Lines]
  BY <1>1
<1> QED
  BY <1>2, <1>3 DEF Scripts

\* A new terraform has fresh pipes and drains with fresh locals.
LEMMA SpawnKeeps ==
    ASSUME AttemptInv, Spawn
    PROVE  AttemptInv'
<1> USE DEF AttemptInv
<1>1. /\ todo' \in Scripts /\ exit' = Running
      /\ pipe' = NoLines /\ said' = NoLines
      /\ drain' = [out |-> "opening", err |-> "reading"]
      /\ unwritten' = <<>> /\ ring' = <<>> /\ collected' = <<>>
      /\ pc' = "wait" /\ log' = log /\ result' = result
  BY DEF Spawn
<1>2. /\ <<>> \in Seq(Lines) /\ Len(<<>>) = 0
      /\ EndsAt(<<>>, <<>>, 0) /\ Begins(<<>>, <<>>)
  BY DEF EndsAt, Begins
<1>3. \A s \in Streams : pipe'[s] = <<>> /\ said'[s] = <<>>
  BY <1>1 DEF NoLines
<1>4. drain'["out"] = "opening" /\ drain'["err"] = "reading"
      /\ "out" \in Streams /\ "err" \in Streams
  BY <1>1 DEF Streams
<1>5. \A s \in Streams : Read(s)' = 0
  BY <1>2, <1>3 DEF Read
<1>6. AttemptTypeOK'
  <2>1. todo' \in Seq(Streams \X Lines)
    BY <1>1, ScriptsAreSequences
  <2>2. /\ pipe' \in [Streams -> Seq(Lines)] /\ said' \in [Streams -> Seq(Lines)]
        /\ \A s \in Streams : Len(pipe'[s]) <= PipeCap
    BY <1>1, <1>2, <1>3, SizesAssumption DEF NoLines
  <2>3. drain' \in [Streams -> {"opening", "reading", "done", "failed"}]
    BY <1>1 DEF Streams
  <2>4. Len(unwritten') <= 1 /\ Len(ring') <= TailLines /\ Len(collected') <= StderrLines
    BY <1>1, <1>2, SizesAssumption
  <2> QED
    BY <1>1, <1>2, <2>1, <2>2, <2>3, <2>4 DEF AttemptTypeOK
<1>7. LinesPlaced'
  <2>1. \A s \in Streams : PipeHoldsRest(s)'
    BY <1>2, <1>3 DEF PipeHoldsRest
  <2>2. Least(0, StderrLines) = 0
    BY SizesAssumption DEF Least
  <2>3. OutFresh' /\ ErrKept'
    BY <1>1, <1>2, <1>3, <1>4, <1>5, <2>2 DEF OutFresh, ErrKept
  <2> QED
    BY <1>4, <2>1, <2>3 DEF LinesPlaced
<1>8. DoneIsAll'
  BY <1>4 DEF DoneIsAll, AllWritten, Streams
<1>9. DriverWaits'
  <2>1. result = "none"
    BY DEF DriverWaits, Spawn
  <2> QED
    BY <1>1, <2>1 DEF DriverWaits, Concluded, Outcomes
<1> QED
  BY <1>6, <1>7, <1>8, <1>9

-------------------------------------------------------------------------------
\* The stdout drain.

\* The log starts empty, when nothing has been read yet.
LEMMA OpenKeeps ==
    ASSUME AttemptInv, OpenLog
    PROVE  AttemptInv'
<1> USE DEF AttemptInv
<1>1. /\ drain["out"] = "opening" /\ drain'["out"] = "reading"
      /\ drain'["err"] = drain["err"]
      /\ drain' \in [Streams -> {"opening", "reading", "done", "failed"}]
      /\ log' = <<>>
      /\ UNCHANGED <<todo, exit, said, pipe, unwritten, ring, collected, pc, result>>
  BY DEF OpenLog, AttemptTypeOK, Streams, child, driver
<1>2. AttemptTypeOK'
  BY <1>1, EmptySeq DEF AttemptTypeOK
<1>3. OutKept'
  <2>1. unwritten = <<>> /\ ring = <<>> /\ Read("out") = 0
    BY <1>1 DEF LinesPlaced, OutFresh
  <2>2. said["out"] \in Seq(Lines)
    BY Sizes DEF Streams
  <2>3. /\ Begins(<<>>, said["out"]) /\ EndsAt(<<>>, said["out"], 0)
        /\ Len(<<>>) + Len(<<>>) = 0
    BY <2>2 DEF Begins, EndsAt
  <2>4. Len(<<>>) = Least(0, TailLines)
    BY SizesAssumption DEF Least
  <2>5. Read("out")' = 0
    BY <1>1, <2>1 DEF Read
  <2> QED
    BY <1>1, <2>1, <2>3, <2>4, <2>5 DEF OutKept
<1>4. LinesPlaced'
  BY <1>1, <1>3 DEF LinesPlaced, PipeHoldsRest, ErrKept, Read
<1>5. DoneIsAll'
  BY <1>1 DEF DoneIsAll, AllWritten, Streams
<1>6. DriverWaits'
  BY <1>1 DEF DriverWaits, Concluded, Exited
<1> QED
  BY <1>2, <1>4, <1>5, <1>6

\* A line goes from the pipe into the file and into the ring.
LEMMA DrainOutKeeps ==
    ASSUME AttemptInv, DrainOut
    PROVE  AttemptInv'
<1> USE DEF AttemptInv
<1> DEFINE x == Head(pipe["out"])  n == Read("out")  all == said["out"]
<1>1. /\ drain["out"] = "reading" /\ pipe["out"] # <<>> /\ unwritten = <<>>
      /\ unwritten' = <<x>> /\ ring' = Push(x)
      /\ pipe' = [pipe EXCEPT !["out"] = Tail(@)]
      /\ UNCHANGED <<todo, exit, said, drain, log, collected, pc, result>>
  BY DEF DrainOut, CanDrain, child, driver
<1>2. "out" \in Streams /\ "err" \in Streams
  BY DEF Streams
<1>3. /\ pipe["out"] \in Seq(Lines) /\ all \in Seq(Lines)
      /\ EndsAt(pipe["out"], all, Len(all)) /\ Len(all) \in Nat /\ n \in Nat
      /\ n = Len(all) - Len(pipe["out"])
  BY <1>2, Sizes DEF Read
<1>4. /\ EndsAt(Tail(pipe["out"]), all, Len(all)) /\ Tail(pipe["out"]) \in Seq(Lines)
      /\ Len(Tail(pipe["out"])) = Len(pipe["out"]) - 1 /\ Len(pipe["out"]) >= 1
      /\ x \in Lines /\ x = all[Len(all) - Len(pipe["out"]) + 1]
  BY <1>1, <1>3, EndLosesHead
<1>5. /\ pipe'["out"] = Tail(pipe["out"]) /\ pipe'["err"] = pipe["err"]
      /\ pipe' \in [Streams -> Seq(Lines)]
  BY <1>1, <1>2, <1>4 DEF AttemptTypeOK
<1>6. Len(pipe["out"]) \in Nat
  BY <1>3, LenProperties
<1>7. Read("out")' = n + 1 /\ n < Len(all) /\ x = all[n + 1]
  <2>1. Read("out")' = Len(said'["out"]) - Len(pipe'["out"])
    BY DEF Read
  <2> HIDE DEF n, all
  <2> QED
    BY <1>1, <1>3, <1>4, <1>5, <1>6, <2>1 DEF all
<1> HIDE DEF x, n, all
<1>8. OutKept
  BY <1>1 DEF LinesPlaced
<1>9. ring \in Seq(Lines) /\ Len(ring) \in Nat /\ Len(ring) <= TailLines
  BY Sizes DEF AttemptTypeOK
<1>10. /\ ring' \in Seq(Lines) /\ EndsAt(ring', all, n + 1)
       /\ Len(ring') = Least(n + 1, TailLines)
  <2>1. EndsAt(ring, all, n) /\ Len(ring) = Least(n, TailLines)
    BY <1>8 DEF OutKept, n, all
  <2>2. CASE Len(ring) = TailLines
    <3>1. ring # <<>>
      BY <2>2, SizesAssumption, EmptySeq
    <3>2. /\ EndsAt(Tail(ring), all, n) /\ Tail(ring) \in Seq(Lines)
          /\ Len(Tail(ring)) = Len(ring) - 1
      BY <1>3, <1>9, <2>1, <3>1, EndLosesHead
    <3>3. EndsAt(Append(Tail(ring), x), all, n + 1)
      BY <1>3, <1>7, <3>2, EndMovesOn
    <3>4. ring' = Append(Tail(ring), x)
      BY <1>1, <2>2 DEF Push, x
    <3>5. Len(ring') = Len(ring) /\ ring' \in Seq(Lines)
      <4>1. /\ Len(ring') = Len(Tail(ring)) + 1 /\ ring' \in Seq(Lines)
        BY <1>4, <3>2, <3>4, AppendProperties
      <4> QED
        BY <1>9, <3>2, <4>1
    <3>6. Least(n + 1, TailLines) = TailLines
      BY <1>3, <2>1, <2>2, SizesAssumption, LeastMovesOn
    <3> QED
      BY <2>2, <3>3, <3>4, <3>5, <3>6
  <2>3. CASE Len(ring) # TailLines
    <3>1. EndsAt(Append(ring, x), all, n + 1)
      BY <1>3, <1>7, <1>9, <2>1, EndMovesOn
    <3>2. ring' = Append(ring, x)
      BY <1>1, <2>3 DEF Push, x
    <3>3. Len(ring') = Len(ring) + 1 /\ ring' \in Seq(Lines)
      BY <1>4, <1>9, <3>2, AppendProperties
    <3>4. Len(ring) + 1 = Least(n + 1, TailLines)
      <4>1. TailLines \in Nat
        BY SizesAssumption
      <4>2. Least(n + 1, TailLines) = Least(n, TailLines) + 1
        BY <1>3, <2>1, <2>3, <4>1, LeastMovesOn
      <4> QED
        BY <2>1, <4>2
    <3> QED
      BY <3>1, <3>2, <3>3, <3>4
  <2> QED
    BY <2>2, <2>3
<1>11. OutKept'
  <2>1. EndsAt(<<x>>, all, n + 1) /\ Len(<<x>>) = 1
    <3>1. <<>> \in Seq(Lines) /\ EndsAt(<<>>, all, n)
      BY <1>3, <1>7 DEF EndsAt
    <3>2. EndsAt(Append(<<>>, x), all, n + 1)
      BY <1>3, <1>7, <3>1, EndMovesOn
    <3> QED
      BY <3>2
  <2>2. Len(log) = n /\ Begins(log, all)
    <3>1. Len(log) \in Nat /\ Len(unwritten) = 0
      BY <1>1, Sizes, EmptySeq
    <3> QED
      BY <1>8, <3>1 DEF OutKept, n, all
  <2>3. said'["out"] = all /\ log' = log /\ unwritten' = <<x>>
    BY <1>1 DEF all, x
  <2>4. Len(log') + Len(unwritten') = n + 1
    BY <1>3, <2>1, <2>2, <2>3
  <2> QED
    BY <1>7, <1>10, <2>1, <2>2, <2>3, <2>4 DEF OutKept
<1>12. AttemptTypeOK'
  <2>1. \A s \in Streams : Len(pipe'[s]) <= PipeCap
    <3>1. Len(pipe'["out"]) <= PipeCap
      <4>1. Len(pipe["out"]) <= PipeCap
        BY <1>2 DEF AttemptTypeOK
      <4> QED
        BY <1>4, <1>5, <1>6, <4>1, SizesAssumption
    <3> QED
      BY <1>5, <3>1 DEF AttemptTypeOK, Streams
  <2>2. unwritten' \in Seq(Lines) /\ Len(unwritten') <= 1
    BY <1>1, <1>4 DEF x
  <2>3. Len(ring') <= TailLines
    <3>1. n + 1 \in Nat /\ TailLines \in Nat
      BY <1>3, SizesAssumption
    <3> QED
      BY <1>10, <3>1, LeastMovesOn
  <2> QED
    BY <1>1, <1>5, <1>10, <2>1, <2>2, <2>3 DEF AttemptTypeOK
<1>13. LinesPlaced'
  <2>1. \A s \in Streams : PipeHoldsRest(s)'
    BY <1>1, <1>4, <1>5 DEF PipeHoldsRest, LinesPlaced, Streams, all
  <2>2. ErrKept => ErrKept'
    BY <1>1, <1>5 DEF ErrKept, Read
  <2> QED
    BY <1>1, <1>11, <2>1, <2>2 DEF LinesPlaced
<1>14. DoneIsAll'
  BY <1>1, <1>5 DEF DoneIsAll, AllWritten, Streams
<1>15. DriverWaits'
  BY <1>1, <1>2, NoOutcomeYet DEF DriverWaits, Concluded, Exited
<1> QED
  BY <1>12, <1>13, <1>14, <1>15

\* What the file has taken is written to its end.
LEMMA LogKeeps ==
    ASSUME AttemptInv, LogWritten
    PROVE  AttemptInv'
<1> USE DEF AttemptInv
<1>1. /\ unwritten # <<>> /\ unwritten' = <<>> /\ log' = log \o unwritten
      /\ UNCHANGED <<todo, exit, said, pipe, drain, ring, collected, pc, result>>
  BY DEF LogWritten, child, driver
<1>2. drain["out"] \notin {"opening", "done"}
  BY <1>1 DEF LinesPlaced, OutFresh, DoneIsAll
<1>3. AttemptTypeOK'
  <2>1. <<>> \in Seq(Lines) /\ Len(<<>>) <= 1
    OBVIOUS
  <2>2. log' \in Seq(Lines)
    <3>1. log \in Seq(Lines) /\ unwritten \in Seq(Lines)
      BY DEF AttemptTypeOK
    <3>2. log \o unwritten \in Seq(Lines)
      BY <3>1, ConcatProperties
    <3> QED
      BY <1>1, <3>2
  <2> QED
    BY <1>1, <2>1, <2>2 DEF AttemptTypeOK
<1>4. OutKept => OutKept'
  <2> SUFFICES ASSUME OutKept PROVE OutKept'
    OBVIOUS
  <2>1. /\ log \in Seq(Lines) /\ unwritten \in Seq(Lines) /\ said["out"] \in Seq(Lines)
        /\ Len(unwritten) <= 1 /\ Len(log) \in Nat /\ Len(unwritten) \in Nat
        /\ Read("out") \in Nat /\ Len(said["out"]) \in Nat
    BY Sizes DEF AttemptTypeOK, Streams
  <2>2. Len(unwritten) = 1
    <3>1. Len(unwritten) # 0
      BY <1>1, <2>1, EmptySeq
    <3> DEFINE k == Len(unwritten)
    <3>2. k \in Nat /\ k <= 1 /\ k # 0
      BY <2>1, <3>1
    <3> HIDE DEF k
    <3>3. k = 1
      BY <3>2
    <3> QED
      BY <3>3 DEF k
  <2>3. Read("out") = Len(log) + 1 /\ Read("out") <= Len(said["out"])
    BY <2>1, <2>2 DEF OutKept, EndsAt
  <2>4. unwritten[1] = said["out"][Len(log) + 1]
    <3>1. unwritten[1] = said["out"][Read("out") - Len(unwritten) + 1]
      BY <2>2 DEF OutKept, EndsAt
    <3>2. Read("out") - Len(unwritten) + 1 = Len(log) + 1
      BY <2>1, <2>2, <2>3
    <3> QED
      BY <3>1, <3>2
  <2>5. /\ Len(log') = Len(log) + 1 /\ log' \in Seq(Lines)
        /\ \A i \in 1..Len(log) + 1 :
              log'[i] = IF i <= Len(log) THEN log[i] ELSE unwritten[i - Len(log)]
    <3>1. /\ log \o unwritten \in Seq(Lines)
          /\ Len(log \o unwritten) = Len(log) + Len(unwritten)
          /\ \A i \in 1..Len(log) + Len(unwritten) : (log \o unwritten)[i] =
                IF i <= Len(log) THEN log[i] ELSE unwritten[i - Len(log)]
      BY <2>1, ConcatProperties
    <3> QED
      BY <1>1, <2>2, <3>1
  <2>6. Begins(log', said["out"])
    <3>1. \A i \in 1..Len(log) + 1 : log'[i] = said["out"][i]
      <4> TAKE i \in 1..Len(log) + 1
      <4>1. CASE i <= Len(log)
        BY <2>1, <2>5, <4>1 DEF OutKept, Begins
      <4>2. CASE i = Len(log) + 1
        <5>1. i - Len(log) = 1 /\ ~(i <= Len(log))
          BY <2>1, <4>2
        <5> QED
          BY <2>4, <2>5, <4>2, <5>1
      <4> QED
        BY <2>1, <4>1, <4>2
    <3>2. Len(log) + 1 <= Len(said["out"])
      BY <2>1, <2>3
    <3> QED
      BY <2>5, <3>1, <3>2 DEF Begins
  <2>7. EndsAt(<<>>, said["out"], Read("out")) /\ Len(<<>>) = 0
    BY <2>1, <2>3 DEF EndsAt
  <2>8. Len(log') + 0 = Read("out")
    BY <2>1, <2>3, <2>5
  <2>9. Read("out")' = Read("out")
    BY <1>1 DEF Read
  <2> QED
    BY <1>1, <2>6, <2>7, <2>8, <2>9 DEF OutKept
<1>5. LinesPlaced'
  BY <1>1, <1>2, <1>4 DEF LinesPlaced, PipeHoldsRest, ErrKept, Read
<1>6. DoneIsAll'
  BY <1>1 DEF DoneIsAll, AllWritten
<1> QED
  BY <1>1, <1>3, <1>5, <1>6, DriverUndisturbed

-------------------------------------------------------------------------------
\* The stderr drain.

\* A line of stderr is kept, or read and dropped when the cap is reached.
LEMMA DrainErrKeeps ==
    ASSUME AttemptInv, DrainErr
    PROVE  AttemptInv'
<1> USE DEF AttemptInv
<1> DEFINE x == Head(pipe["err"])  n == Read("err")  all == said["err"]
<1>1. /\ drain["err"] = "reading" /\ pipe["err"] # <<>>
      /\ collected' = IF Len(collected) < StderrLines
                      THEN Append(collected, x) ELSE collected
      /\ pipe' = [pipe EXCEPT !["err"] = Tail(@)]
      /\ UNCHANGED <<todo, exit, said, drain, log, unwritten, ring, pc, result>>
  BY DEF DrainErr, CanDrain, child, driver, file
<1>2. "out" \in Streams /\ "err" \in Streams
  BY DEF Streams
<1>3. /\ pipe["err"] \in Seq(Lines) /\ all \in Seq(Lines)
      /\ EndsAt(pipe["err"], all, Len(all)) /\ Len(all) \in Nat /\ n \in Nat
      /\ n = Len(all) - Len(pipe["err"])
  BY <1>2, Sizes DEF Read
<1>4. /\ EndsAt(Tail(pipe["err"]), all, Len(all)) /\ Tail(pipe["err"]) \in Seq(Lines)
      /\ Len(Tail(pipe["err"])) = Len(pipe["err"]) - 1 /\ Len(pipe["err"]) >= 1
      /\ x \in Lines /\ x = all[Len(all) - Len(pipe["err"]) + 1]
  BY <1>1, <1>3, EndLosesHead
<1>5. /\ pipe'["err"] = Tail(pipe["err"]) /\ pipe'["out"] = pipe["out"]
      /\ pipe' \in [Streams -> Seq(Lines)]
  BY <1>1, <1>2, <1>4 DEF AttemptTypeOK
<1>6. Len(pipe["err"]) \in Nat
  BY <1>3, LenProperties
<1>7. Read("err")' = n + 1 /\ n < Len(all) /\ x = all[n + 1]
  <2>1. Read("err")' = Len(said'["err"]) - Len(pipe'["err"])
    BY DEF Read
  <2> HIDE DEF n, all
  <2> QED
    BY <1>1, <1>3, <1>4, <1>5, <1>6, <2>1 DEF all
<1>8. Begins(collected, all) /\ Len(collected) = Least(n, StderrLines)
  BY <1>1 DEF LinesPlaced, ErrKept
<1>9. collected \in Seq(Lines) /\ Len(collected) \in Nat /\ StderrLines \in Nat
  BY Sizes, SizesAssumption DEF AttemptTypeOK
<1> HIDE DEF x, n, all
<1>10. /\ collected' \in Seq(Lines) /\ Begins(collected', all)
       /\ Len(collected') = Least(n + 1, StderrLines)
  <2>1. CASE Len(collected) < StderrLines
    <3>1. Len(collected) = n /\ Len(collected) + 1 = Least(n + 1, StderrLines)
      <4>1. Len(collected) # StderrLines
        BY <1>9, <2>1
      <4>2. Least(n, StderrLines) = n /\ Least(n + 1, StderrLines) = Least(n, StderrLines) + 1
        BY <1>3, <1>8, <1>9, <4>1, LeastMovesOn
      <4> QED
        BY <1>8, <4>2
    <3>2. collected' = Append(collected, x)
      BY <1>1, <2>1 DEF x
    <3>3. Begins(Append(collected, x), all)
      BY <1>3, <1>7, <1>8, <1>9, <3>1, BeginMovesOn
    <3>4. Len(collected') = Len(collected) + 1 /\ collected' \in Seq(Lines)
      BY <1>4, <1>9, <3>2, AppendProperties
    <3> QED
      BY <3>1, <3>2, <3>3, <3>4
  <2>2. CASE ~(Len(collected) < StderrLines)
    <3>1. Len(collected) = StderrLines
      <4>1. Len(collected) <= StderrLines
        BY <1>3, <1>8, <1>9, LeastMovesOn
      <4> QED
        BY <1>9, <2>2, <4>1
    <3>2. Least(n + 1, StderrLines) = StderrLines
      BY <1>3, <1>8, <1>9, <3>1, LeastMovesOn
    <3> QED
      BY <1>1, <1>8, <1>9, <2>2, <3>1, <3>2
  <2> QED
    BY <2>1, <2>2
<1>11. ErrKept'
  BY <1>1, <1>7, <1>10 DEF ErrKept, all
<1>12. AttemptTypeOK'
  <2>1. \A s \in Streams : Len(pipe'[s]) <= PipeCap
    <3>1. Len(pipe'["err"]) <= PipeCap
      <4>1. Len(pipe["err"]) <= PipeCap
        BY <1>2 DEF AttemptTypeOK
      <4> QED
        BY <1>4, <1>5, <1>6, <4>1, SizesAssumption
    <3> QED
      BY <1>5, <3>1 DEF AttemptTypeOK, Streams
  <2>2. Len(collected') <= StderrLines
    <3>1. n + 1 \in Nat
      BY <1>3
    <3> QED
      BY <1>9, <1>10, <3>1, LeastMovesOn
  <2> QED
    BY <1>1, <1>5, <1>10, <2>1, <2>2 DEF AttemptTypeOK
<1>13. LinesPlaced'
  <2>1. \A s \in Streams : PipeHoldsRest(s)'
    BY <1>1, <1>4, <1>5 DEF PipeHoldsRest, LinesPlaced, Streams, all
  <2>2. (OutKept => OutKept') /\ (OutFresh => OutFresh')
    BY <1>1, <1>5 DEF OutKept, OutFresh, Read
  <2> QED
    BY <1>1, <1>11, <2>1, <2>2 DEF LinesPlaced
<1>14. DoneIsAll'
  BY <1>1, <1>5 DEF DoneIsAll, AllWritten, Streams
<1>15. DriverWaits'
  BY <1>1, <1>2, NoOutcomeYet DEF DriverWaits, Concluded, Exited
<1> QED
  BY <1>12, <1>13, <1>14, <1>15

-------------------------------------------------------------------------------
\* A drain ends.

\* A drain that fails closes its pipe; the other one goes on.
LEMMA AbortKeeps ==
    ASSUME AttemptInv, NEW s \in Streams, drain[s] # "done", Abort(s),
           unwritten' = unwritten \/ (s = "out" /\ unwritten' = <<>>)
    PROVE  AttemptInv'
<1> USE DEF AttemptInv
<1>1. /\ drain' = [drain EXCEPT ![s] = "failed"]
      /\ pipe' = [pipe EXCEPT ![s] = <<>>]
      /\ UNCHANGED <<todo, exit, said, log, ring, collected, pc, result>>
  BY DEF Abort, child, driver
<1>2. /\ drain'[s] = "failed" /\ pipe'[s] = <<>>
      /\ \A t \in Streams \ {s} : drain'[t] = drain[t] /\ pipe'[t] = pipe[t]
      /\ drain' \in [Streams -> {"opening", "reading", "done", "failed"}]
      /\ <<>> \in Seq(Lines) /\ Len(<<>>) = 0
      /\ pipe' \in [Streams -> Seq(Lines)]
  <2>1. /\ pipe \in [Streams -> Seq(Lines)]
        /\ drain \in [Streams -> {"opening", "reading", "done", "failed"}]
    BY DEF AttemptTypeOK
  <2>2. <<>> \in Seq(Lines) /\ Len(<<>>) = 0
    OBVIOUS
  <2> QED
    BY <1>1, <2>1, <2>2
<1>3. "out" \in Streams /\ "err" \in Streams
  BY DEF Streams
<1>4. AttemptTypeOK'
  <2>1. \A t \in Streams : Len(pipe'[t]) <= PipeCap
    <3>1. Len(pipe'[s]) <= PipeCap
      BY <1>2, SizesAssumption
    <3>2. \A t \in Streams : Len(pipe[t]) <= PipeCap
      BY DEF AttemptTypeOK
    <3> QED
      BY <1>2, <3>1, <3>2
  <2>2. unwritten' \in Seq(Lines) /\ Len(unwritten') <= 1
    <3>1. unwritten \in Seq(Lines) /\ Len(unwritten) <= 1
      BY DEF AttemptTypeOK
    <3>2. <<>> \in Seq(Lines) /\ Len(<<>>) <= 1
      OBVIOUS
    <3> QED
      BY <3>1, <3>2
  <2> QED
    BY <1>1, <1>2, <2>1, <2>2 DEF AttemptTypeOK
<1>5. LinesPlaced'
  <2>1. \A t \in Streams : PipeHoldsRest(t)'
    <3>1. EndsAt(<<>>, said[s], Len(said[s]))
      BY <1>2, Sizes DEF EndsAt
    <3> QED
      BY <1>1, <1>2, <3>1 DEF LinesPlaced, PipeHoldsRest
  <2>2. CASE s = "out"
    <3>1. drain'["out"] = "failed" /\ drain'["err"] = drain["err"]
          /\ pipe'["err"] = pipe["err"]
      BY <1>2, <1>3, <2>2
    <3>2. ErrKept => ErrKept'
      BY <1>1, <3>1 DEF ErrKept, Read
    <3> QED
      BY <2>1, <3>1, <3>2 DEF LinesPlaced
  <2>3. CASE s = "err"
    <3>1. drain'["err"] = "failed" /\ drain'["out"] = drain["out"]
          /\ pipe'["out"] = pipe["out"]
      BY <1>2, <1>3, <2>3
    <3>2. (OutKept => OutKept') /\ (OutFresh => OutFresh')
      BY <1>1, <2>3, <3>1 DEF OutKept, OutFresh, Read
    <3> QED
      BY <2>1, <3>1, <3>2 DEF LinesPlaced
  <2> QED
    BY <2>2, <2>3 DEF Streams
<1>6. DoneIsAll'
  BY <1>1, <1>2, <1>3 DEF DoneIsAll, AllWritten
<1>7. DriverWaits'
  BY <1>1, <1>2, <1>3, NoOutcomeYet DEF DriverWaits, Concluded, Exited
<1> QED
  BY <1>4, <1>5, <1>6, <1>7

LEMMA FailedDrainKeeps ==
    ASSUME AttemptInv, LogFails \/ \E s \in Streams : DrainGarbled(s)
    PROVE  AttemptInv'
BY AbortKeeps DEF LogFails, DrainGarbled, CanDrain, Streams

\* A drain is done at the end of its pipe, and that of stdout after its flush.
LEMMA DoneKeeps ==
    ASSUME AttemptInv, NEW s \in Streams, DrainDone(s)
    PROVE  AttemptInv'
<1> USE DEF AttemptInv
<1>1. /\ drain[s] = "reading" /\ drain' = [drain EXCEPT ![s] = "done"]
      /\ Exited /\ AllWritten(s) /\ pipe[s] = <<>>
      /\ s = "out" => unwritten = <<>>
      /\ UNCHANGED <<todo, exit, said, pipe, log, unwritten, ring, collected, pc, result>>
  BY DEF DrainDone, CanDrain, Closed, child, driver, file
<1>2. /\ drain'[s] = "done" /\ \A t \in Streams \ {s} : drain'[t] = drain[t]
      /\ drain' \in [Streams -> {"opening", "reading", "done", "failed"}]
      /\ "out" \in Streams /\ "err" \in Streams
  BY <1>1 DEF AttemptTypeOK, Streams
<1>3. AttemptTypeOK'
  BY <1>1, <1>2 DEF AttemptTypeOK
<1>4. LinesPlaced'
  <2>1. /\ OutKept => OutKept'
        /\ OutFresh => OutFresh'
        /\ ErrKept => ErrKept'
        /\ \A t \in Streams : PipeHoldsRest(t) => PipeHoldsRest(t)'
    BY <1>1 DEF OutKept, OutFresh, ErrKept, PipeHoldsRest, Read
  <2> QED
    BY <1>1, <1>2, <2>1 DEF LinesPlaced
<1>5. DoneIsAll'
  BY <1>1, <1>2 DEF DoneIsAll, AllWritten
<1>6. DriverWaits'
  BY <1>1, <1>2, NoOutcomeYet DEF DriverWaits, Concluded, Exited
<1> QED
  BY <1>3, <1>4, <1>5, <1>6

-------------------------------------------------------------------------------
\* The driver.

\* The driver forms its result from drains that are done.
LEMMA DriverKeeps ==
    ASSUME AttemptInv, SpawnFails \/ Wait \/ JoinOut \/ JoinErr
    PROVE  AttemptInv'
<1> USE DEF AttemptInv
<1>1. UNCHANGED <<todo, exit, said, pipe, drain, log, unwritten, ring, collected>>
  BY DEF SpawnFails, Wait, JoinOut, JoinErr, child, drains, file
<1>2. LinesPlaced' /\ DoneIsAll'
  BY <1>1 DEF LinesPlaced, PipeHoldsRest, OutFresh, OutKept, ErrKept, Read, DoneIsAll, AllWritten
<1>3. "driver_error" \notin Outcomes /\ "none" \notin Outcomes
  BY DEF Outcomes
<1>4. Classify \in Outcomes /\ Classify' = Classify
  BY <1>1 DEF Classify, Outcomes, IsStateLock, Contains
<1>5. /\ pc' \in {"join out", "join err", "end"}
      /\ result' \in Outcomes \cup {"none", "driver_error"}
  BY <1>4 DEF SpawnFails, Wait, JoinOut, JoinErr, DriverWaits, Outcomes, AttemptTypeOK
<1>6. AttemptTypeOK'
  BY <1>1, <1>5 DEF AttemptTypeOK
<1>7. DriverWaits'
  <2>1. CASE SpawnFails
    BY <1>1, <1>3, <2>1 DEF SpawnFails, DriverWaits, Concluded
  <2>2. CASE Wait
    BY <1>1, <1>3, <2>2 DEF Wait, DriverWaits, Concluded, Exited
  <2>3. CASE JoinOut
    BY <1>1, <1>3, <2>3 DEF JoinOut, DriverWaits, Concluded, Exited
  <2>4. CASE JoinErr
    <3>1. /\ pc = "join err" /\ pc' = "end" /\ drain["err"] # "reading"
          /\ result' = IF drain["err"] = "failed" THEN "driver_error" ELSE Classify
      BY <2>4 DEF JoinErr
    <3>2. /\ Exited' /\ drain'["out"] = "done" /\ result' # "none"
      BY <1>1, <1>3, <1>4, <3>1 DEF DriverWaits, Exited
    <3>3. drain["err"] \in {"reading", "done", "failed"}
      BY DEF AttemptTypeOK, DoneIsAll, Streams
    <3>4. CASE drain["err"] = "failed"
      BY <1>3, <3>1, <3>2, <3>4 DEF DriverWaits, Concluded
    <3>5. CASE drain["err"] = "done"
      BY <1>1, <1>4, <3>1, <3>2, <3>5 DEF DriverWaits, Concluded
    <3> QED
      BY <3>1, <3>3, <3>4, <3>5
  <2> QED
    BY <2>1, <2>2, <2>3, <2>4
<1> QED
  BY <1>2, <1>6, <1>7

-------------------------------------------------------------------------------
\* The attempt as a whole.

LEMMA AttemptStarts ==
    ASSUME AttemptInit
    PROVE  AttemptInv
<1> USE DEF AttemptInit
<1>1. /\ <<>> \in Seq(Lines) /\ <<>> \in Seq(Streams \X Lines) /\ Len(<<>>) = 0
      /\ EndsAt(<<>>, <<>>, 0) /\ Begins(<<>>, <<>>)
  BY DEF EndsAt, Begins
<1>2. \A s \in Streams : pipe[s] = <<>> /\ said[s] = <<>> /\ drain[s] = "done"
  BY DEF NoLines
<1>3. "out" \in Streams /\ "err" \in Streams
  BY DEF Streams
<1>4. \A s \in Streams : Read(s) = 0
  BY <1>1, <1>2 DEF Read
<1>5. AttemptTypeOK
  <2>1. /\ pipe \in [Streams -> Seq(Lines)] /\ said \in [Streams -> Seq(Lines)]
        /\ drain \in [Streams -> {"opening", "reading", "done", "failed"}]
    BY <1>1 DEF NoLines
  <2>2. \A s \in Streams : Len(pipe[s]) <= PipeCap
    BY <1>1, <1>2, SizesAssumption
  <2> QED
    BY <1>1, <2>1, <2>2, SizesAssumption DEF AttemptTypeOK
<1>6. LinesPlaced
  <2>1. \A s \in Streams : PipeHoldsRest(s)
    BY <1>1, <1>2 DEF PipeHoldsRest
  <2>2. Least(0, TailLines) = 0 /\ Least(0, StderrLines) = 0
    BY SizesAssumption DEF Least
  <2>3. OutKept /\ ErrKept
    BY <1>1, <1>2, <1>3, <1>4, <2>2 DEF OutKept, ErrKept
  <2> QED
    BY <1>2, <1>3, <2>1, <2>3 DEF LinesPlaced
<1>7. DoneIsAll
  BY <1>2, <1>3 DEF DoneIsAll, AllWritten
<1>8. DriverWaits
  BY DEF DriverWaits, Concluded, Outcomes
<1> QED
  BY <1>5, <1>6, <1>7, <1>8 DEF AttemptInv

AttemptStep == ChildStep \/ DrainOutStep \/ LogWritten \/ DrainErrStep \/ DriverStep \/ FaultStep

\* Every step of an attempt keeps the invariant.
LEMMA AttemptKeeps ==
    ASSUME AttemptInv, AttemptStep
    PROVE  AttemptInv'
<1>1. CASE ChildStep
  BY <1>1, WriteKeeps, ChildKeeps DEF ChildStep
<1>2. CASE DrainOutStep
  BY <1>2, OpenKeeps, DrainOutKeeps, FailedDrainKeeps, DoneKeeps DEF DrainOutStep, Streams
<1>3. CASE LogWritten
  BY <1>3, LogKeeps
<1>4. CASE DrainErrStep
  BY <1>4, DrainErrKeeps, FailedDrainKeeps, DoneKeeps DEF DrainErrStep, Streams
<1>5. CASE DriverStep
  BY <1>5, SpawnKeeps, DriverKeeps DEF DriverStep
<1>6. CASE FaultStep
  BY <1>6, ChildKeeps, FailedDrainKeeps, DriverKeeps DEF FaultStep
<1> QED
  BY <1>1, <1>2, <1>3, <1>4, <1>5, <1>6 DEF AttemptStep

\* When there is an outcome, the attempt is over: nothing is left to do for the
\* child, for a drain or for the file.
LEMMA OutcomeIsLast ==
    ASSUME AttemptInv, Concluded
    PROVE  ~AttemptStep
<1>0. /\ unwritten = <<>> /\ pc = "end" /\ "out" \in Streams /\ "err" \in Streams
      /\ \A s \in Streams : drain[s] = "done" /\ AllWritten(s)
  BY DEF AttemptInv, DriverWaits, DoneIsAll, Concluded, Outcomes, Streams
<1>1. /\ todo = <<>> /\ unwritten = <<>> /\ pc = "end"
      /\ \A s \in Streams : drain[s] = "done"
  <2> SUFFICES ASSUME todo # <<>> PROVE FALSE
    BY <1>0
  <2>1. todo \in Seq(Streams \X Lines) /\ AttemptTypeOK
    BY DEF AttemptInv, AttemptTypeOK
  <2>2. /\ Len(todo) \in Nat /\ Len(todo) >= 1
    BY <2>1, EmptySeq, LenProperties
  <2>3. todo[1] \in Streams \X Lines /\ 1 \in 1..Len(todo)
    BY <2>1, <2>2, ElementOfSeq
  <2>4. PICK s \in Streams : todo[1][1] = s
    BY <2>3
  <2> QED
    BY <1>0, <2>3, <2>4 DEF AllWritten
<1>2. ~ChildStep
  BY <1>1 DEF ChildStep, ChildWrite, ChildBrokenPipe, ChildExit
<1>3. ~DrainOutStep /\ ~LogWritten /\ ~DrainErrStep
  BY <1>1 DEF DrainOutStep, OpenLog, DrainOut, DrainGarbled, DrainDone, LogWritten,
              DrainErrStep, DrainErr, CanDrain, Streams
<1>4. ~DriverStep
  BY <1>1 DEF DriverStep, Spawn, Wait, JoinOut, JoinErr
<1>5. ~FaultStep
  BY <1>1 DEF FaultStep, ChildExitEarly, LogFails, SpawnFails, CanDrain, Streams
<1> QED
  BY <1>2, <1>3, <1>4, <1>5 DEF AttemptStep

-------------------------------------------------------------------------------
\* What the driver may conclude.

\* With an outcome, everything that was said has been read.
LEMMA OutcomeHasAll ==
    ASSUME AttemptInv, Concluded
    PROVE  /\ OutKept /\ ErrKept /\ unwritten = <<>>
           /\ Read("out") = Len(said["out"]) /\ Read("err") = Len(said["err"])
           /\ exit \in Codes /\ result = Classify
<1>1. /\ drain["out"] = "done" /\ drain["err"] = "done" /\ unwritten = <<>>
      /\ pipe["out"] = <<>> /\ pipe["err"] = <<>>
      /\ exit \in Codes /\ result = Classify
  BY DEF AttemptInv, AttemptTypeOK, DriverWaits, DoneIsAll, Exited, Streams
<1>2. Len(said["out"]) \in Nat /\ Len(said["err"]) \in Nat /\ Len(<<>>) = 0
  BY Sizes DEF AttemptInv, Streams
<1>3. Read("out") = Len(said["out"]) /\ Read("err") = Len(said["err"])
  BY <1>1, <1>2 DEF Read
<1> QED
  BY <1>1, <1>3 DEF AttemptInv, LinesPlaced

\* The log is everything that this terraform wrote to stdout.
LEMMA LogIsComplete ==
    ASSUME AttemptInv
    PROVE  LogComplete
<1> SUFFICES ASSUME Concluded PROVE log = said["out"]
  BY DEF LogComplete
<1>1. log \in Seq(Lines) /\ said["out"] \in Seq(Lines) /\ Len(log) \in Nat
  BY Sizes DEF AttemptInv, AttemptTypeOK, Streams
<1>2. /\ Begins(log, said["out"]) /\ unwritten = <<>>
      /\ Len(log) + Len(unwritten) = Len(said["out"])
  BY OutcomeHasAll DEF OutKept
<1>3. Len(log) = Len(said["out"])
  BY <1>1, <1>2
<1> QED
  BY <1>1, <1>2, <1>3, BeginOfAll

\* The ring is the end of stdout, and what is kept of stderr its beginning.
LEMMA KeptIsEnds ==
    ASSUME AttemptInv, Concluded
    PROVE  /\ ring = LastOf(said["out"], TailLines)
           /\ collected = SubSeq(said["err"], 1, Least(Len(said["err"]), StderrLines))
           /\ ring = <<>> <=> said["out"] = <<>>
<1>1. /\ ring \in Seq(Lines) /\ said["out"] \in Seq(Lines)
      /\ collected \in Seq(Lines) /\ said["err"] \in Seq(Lines)
      /\ Len(said["out"]) \in Nat /\ Len(said["err"]) \in Nat
      /\ Len(ring) \in Nat /\ Len(collected) \in Nat
  BY Sizes DEF AttemptInv, AttemptTypeOK, Streams
<1>2. TailLines \in Nat /\ StderrLines \in Nat /\ TailLines # 0
  BY SizesAssumption
<1>3. /\ EndsAt(ring, said["out"], Len(said["out"]))
      /\ Len(ring) = Least(Len(said["out"]), TailLines)
  BY OutcomeHasAll DEF OutKept
<1>4. /\ Begins(collected, said["err"])
      /\ Len(collected) = Least(Len(said["err"]), StderrLines)
  BY OutcomeHasAll DEF ErrKept
<1>5. ring = LastOf(said["out"], TailLines)
  BY <1>1, <1>2, <1>3, EndIsLast
<1>6. collected = SubSeq(said["err"], 1, Least(Len(said["err"]), StderrLines))
  BY <1>1, <1>4, BeginIsFirst
<1>7. Len(ring) = 0 <=> Len(said["out"]) = 0
  BY <1>1, <1>2, <1>3 DEF Least
<1>8. \A s \in Seq(Lines) : s = <<>> <=> Len(s) = 0
  BY EmptySeq
<1> QED
  BY <1>1, <1>5, <1>6, <1>7, <1>8

\* The tail of a report is the end of what was written.
LEMMA TailIsReported ==
    ASSUME AttemptInv
    PROVE  ReportIsTail
<1> SUFFICES ASSUME Concluded PROVE LogTail = TailOfSaid
  BY DEF ReportIsTail
<1>1. CASE said["out"] # <<>>
  BY <1>1, KeptIsEnds DEF LogTail, TailOfSaid
<1>2. CASE said["out"] = <<>>
  <2>1. ErrSaid = collected /\ ring = <<>>
    BY <1>2, KeptIsEnds DEF ErrSaid, Least
  <2> QED
    BY <1>2, <2>1 DEF LogTail, TailOfSaid
<1> QED
  BY <1>1, <1>2

\* The classifier finds the lock exactly where it was said.
LEMMA LockIsFound ==
    ASSUME AttemptInv, Concluded
    PROVE  IsStateLock <=> LockSaid
<1> DEFINE out == said["out"]  err == said["err"]
<1>1. /\ Len(out) \in Nat /\ Len(err) \in Nat /\ TailLines \in Nat /\ StderrLines \in Nat
      /\ Len(ring) \in Nat /\ Len(collected) \in Nat
  BY Sizes, SizesAssumption DEF AttemptInv, AttemptTypeOK, Streams
<1>2. /\ \A i \in 1..Len(ring) : ring[i] = out[Len(out) - Len(ring) + i]
      /\ Len(ring) = Least(Len(out), TailLines)
  BY OutcomeHasAll DEF OutKept, EndsAt
<1>3. /\ \A i \in 1..Len(collected) : collected[i] = err[i]
      /\ Len(collected) = Least(Len(err), StderrLines)
  BY OutcomeHasAll DEF ErrKept, Begins
<1> HIDE DEF out, err
<1>4. /\ Len(ring) <= Len(out) /\ Len(ring) <= TailLines
      /\ Len(ring) = Len(out) \/ Len(ring) = TailLines
  BY <1>1, <1>2 DEF Least
<1>5. Contains(ring, "lock") <=>
          \E i \in 1..Len(out) : out[i] = "lock" /\ i + TailLines > Len(out)
  <2>1. ASSUME NEW i \in 1..Len(ring), ring[i] = "lock"
        PROVE  \E j \in 1..Len(out) : out[j] = "lock" /\ j + TailLines > Len(out)
    <3> DEFINE j == Len(out) - Len(ring) + i
    <3>1. j \in 1..Len(out) /\ j + TailLines > Len(out)
      BY <1>1, <1>4
    <3>2. out[j] = "lock"
      BY <1>2, <2>1
    <3> QED
      BY <3>1, <3>2
  <2>2. ASSUME NEW j \in 1..Len(out), out[j] = "lock", j + TailLines > Len(out)
        PROVE  \E i \in 1..Len(ring) : ring[i] = "lock"
    <3> DEFINE i == j - (Len(out) - Len(ring))
    <3>1. i \in 1..Len(ring) /\ Len(out) - Len(ring) + i = j
      BY <1>1, <1>4, <2>2
    <3>2. ring[i] = "lock"
      BY <1>2, <2>2, <3>1
    <3> QED
      BY <3>1, <3>2
  <2> QED
    BY <2>1, <2>2 DEF Contains
<1>6. Contains(collected, "lock") <=>
          \E i \in 1..Len(err) : err[i] = "lock" /\ i <= StderrLines
  <2>1. \A i : i \in 1..Len(collected) <=> i \in 1..Len(err) /\ i <= StderrLines
    BY <1>1, <1>3 DEF Least
  <2> QED
    BY <1>3, <2>1 DEF Contains
<1> QED
  BY <1>5, <1>6 DEF IsStateLock, LockSaid, out, err

\* The verdict is the one the output calls for.
LEMMA VerdictIsRight ==
    ASSUME AttemptInv
    PROVE  /\ VerdictMatchesOutput
           /\ Concluded => (result = "ConfigError" <=> exit = 1 /\ ~LockSaid)
<1> SUFFICES ASSUME Concluded
             PROVE  /\ result = "StateLock" <=> exit = 1 /\ LockSaid
                    /\ result = "ConfigError" <=> exit = 1 /\ ~LockSaid
  BY DEF VerdictMatchesOutput
<1>1. exit \in Codes /\ result = Classify /\ (IsStateLock <=> LockSaid)
  BY OutcomeHasAll, LockIsFound
<1> QED
  BY <1>1 DEF Classify, Codes

===============================================================================
