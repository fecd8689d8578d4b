--------------------------- MODULE CommandProofs ---------------------------
(***************************************************************************)
(* Theorems about the run of a command, for every number of processes, all *)
(* that they may write, and every capacity of the pipes.                   *)
(***************************************************************************)
EXTENDS Command, SequenceTheorems, TLAPS

(***************************************************************************)
(* The inductive invariant: what was written to a stream is what has been  *)
(* read of it, followed by what is in its pipe; and when the reader turns  *)
(* to the next stream, no process can write any more.                      *)
(***************************************************************************)
Accounted(x, y) ==
  /\ output = Tagged("stdout", x) \o Tagged("stderr", y)
  /\ written["stdout"] = x \o pipe["stdout"]
  /\ written["stderr"] = y \o pipe["stderr"]
  /\ reader \in {"starting", "failed", "stdout"} => y = <<>>

ReaderInv ==
  /\ reader \in {"starting", "failed"} => open = {}
  /\ reader \in {"stderr", "waiting", "done"} => pipe["stdout"] = <<>> /\ open = {}
  /\ reader \in {"waiting", "done"} => pipe["stderr"] = <<>>

CommandInv ==
  CommandTypeOK /\ ReaderInv /\ \E x, y \in Seq(Lines) : Accounted(x, y)

-----------------------------------------------------------------------------
LEMMA TaggedType ==
  ASSUME NEW stream \in Streams, NEW x \in Seq(Lines)
  PROVE  /\ Tagged(stream, x) \in Seq(Writes)
         /\ Len(Tagged(stream, x)) = Len(x)
         /\ \A i \in 1 .. Len(x) : Tagged(stream, x)[i] = [to |-> stream, line |-> x[i]]
<1>1. DOMAIN x = 1 .. Len(x) /\ \A i \in 1 .. Len(x) : x[i] \in Lines
  OBVIOUS
<1>2. \A i \in 1 .. Len(x) : [to |-> stream, line |-> x[i]] \in Writes
  BY <1>1 DEF Writes, Streams
<1>3. Tagged(stream, x) \in Seq(Writes)
  BY <1>1, <1>2 DEF Tagged
<1>. QED
  BY <1>1, <1>3 DEF Tagged

LEMMA TaggedEmpty == \A stream : Tagged(stream, <<>>) = <<>>
BY DEF Tagged

LEMMA TaggedAppend ==
  ASSUME NEW stream \in Streams, NEW x \in Seq(Lines), NEW l \in Lines
  PROVE  Tagged(stream, Append(x, l)) = Append(Tagged(stream, x), [to |-> stream, line |-> l])
<1> DEFINE a == Tagged(stream, Append(x, l))
           b == Append(Tagged(stream, x), [to |-> stream, line |-> l])
<1>1. Append(x, l) \in Seq(Lines) /\ Len(Append(x, l)) = Len(x) + 1
  OBVIOUS
<1>2. /\ a \in Seq(Writes) /\ Len(a) = Len(x) + 1
      /\ \A i \in 1 .. Len(x) + 1 : a[i] = [to |-> stream, line |-> Append(x, l)[i]]
  BY <1>1, TaggedType
<1>3. /\ b \in Seq(Writes) /\ Len(b) = Len(x) + 1
      /\ \A i \in 1 .. Len(x) : b[i] = [to |-> stream, line |-> x[i]]
      /\ b[Len(x) + 1] = [to |-> stream, line |-> l]
  <2>1. [to |-> stream, line |-> l] \in Writes
    BY DEF Writes, Streams
  <2>. QED
    BY <2>1, TaggedType, AppendProperties
<1>4. \A i \in 1 .. Len(x) + 1 : a[i] = b[i]
  BY <1>2, <1>3
<1>. HIDE DEF a, b
<1>. QED
  BY <1>2, <1>3, <1>4, SeqEqual DEF a, b

\* The head of a sequence's second part may be appended to the first.
LEMMA AppendHead ==
  ASSUME NEW S, NEW s \in Seq(S), NEW t \in Seq(S), t # <<>>
  PROVE  /\ Append(s, Head(t)) \in Seq(S)
         /\ Append(s, Head(t)) \o Tail(t) = s \o t
<1>1. Head(t) \in S /\ Tail(t) \in Seq(S) /\ <<Head(t)>> \in Seq(S)
  BY HeadTailProperties
<1>2. t = <<Head(t)>> \o Tail(t)
  BY <1>1, SeqEqual, HeadTailProperties, ConcatProperties
<1>3. Append(s, Head(t)) = s \o <<Head(t)>>
  BY <1>1, AppendIsConcat
<1>. QED
  BY <1>1, <1>2, <1>3, ConcatAssociative, AppendProperties

-----------------------------------------------------------------------------
LEMMA CommandInitInv == Init => CommandInv
<1> SUFFICES ASSUME Init PROVE CommandInv
  OBVIOUS
<1>1. <<>> \in Seq(Lines) /\ <<>> \in Seq(Writes)
  BY EmptySeq
<1>2. CommandTypeOK
  BY <1>1, CommandAssumption DEF Init, CommandTypeOK, Readers, Streams
<1>3. Accounted(<<>>, <<>>)
  BY <1>1, TaggedEmpty, ConcatEmptySeq DEF Init, Accounted, Streams
<1>. QED
  BY <1>1, <1>2, <1>3 DEF CommandInv, ReaderInv, Init

LEMMA SpawnInv ==
  ASSUME CommandInv, Spawn \/ Wait
  PROVE  CommandInv'
<1>1. CommandTypeOK' /\ ReaderInv'
  BY DEF CommandInv, CommandTypeOK, ReaderInv, Spawn, Wait, Readers
<1>2. PICK x \in Seq(Lines), y \in Seq(Lines) : Accounted(x, y)
  BY DEF CommandInv
<1>3. Accounted(x, y)'
  BY <1>2 DEF Accounted, Spawn, Wait
<1>. QED
  BY <1>1, <1>3 DEF CommandInv

LEMMA EndInv ==
  ASSUME CommandInv, NEW p \in Processes, End(p) \/ Redirect(p)
  PROVE  CommandInv'
<1>1. CommandTypeOK' /\ ReaderInv'
  BY DEF CommandInv, CommandTypeOK, ReaderInv, End, Redirect
<1>2. PICK x \in Seq(Lines), y \in Seq(Lines) : Accounted(x, y)
  BY DEF CommandInv
<1>3. Accounted(x, y)'
  BY <1>2 DEF Accounted, End, Redirect
<1>. QED
  BY <1>1, <1>3 DEF CommandInv

LEMMA WriteInv ==
  ASSUME CommandInv, NEW p \in Processes, Write(p)
  PROVE  CommandInv'
<1> DEFINE to == Head(todo[p]).to
           line == Head(todo[p]).line
<1>1. to \in Streams /\ line \in Lines /\ Tail(todo[p]) \in Seq(Writes)
  <2>1. todo[p] \in Seq(Writes) /\ todo[p] # <<>>
    BY DEF CommandInv, CommandTypeOK, Write
  <2>2. Head(todo[p]) \in Writes /\ Tail(todo[p]) \in Seq(Writes)
    BY <2>1, HeadTailProperties
  <2>. QED
    BY <2>2 DEF Writes, Streams
<1>2. /\ pipe' = [pipe EXCEPT ![to] = Append(pipe[to], line)]
      /\ written' = [written EXCEPT ![to] = Append(written[to], line)]
      /\ todo' = [todo EXCEPT ![p] = Tail(todo[p])]
      /\ p \in open
      /\ UNCHANGED <<reader, output, alive, open>>
  BY DEF Write
<1> HIDE DEF to, line
<1>3. \A stream \in Streams : pipe[stream] \in Seq(Lines) /\ written[stream] \in Seq(Lines)
  BY DEF CommandInv, CommandTypeOK
<1>4. CommandTypeOK'
  BY <1>1, <1>2, <1>3, AppendProperties DEF CommandInv, CommandTypeOK
<1>5. ReaderInv'
  BY <1>2 DEF CommandInv, CommandTypeOK, ReaderInv, Readers
<1>6. PICK x \in Seq(Lines), y \in Seq(Lines) : Accounted(x, y)
  BY DEF CommandInv
<1>7. ASSUME NEW s \in Seq(Lines), NEW t \in Seq(Lines)
      PROVE  Append(s \o t, line) = s \o Append(t, line)
  <2>1. <<line>> \in Seq(Lines) /\ s \o t \in Seq(Lines)
    BY <1>1, ConcatProperties
  <2>2. Append(s \o t, line) = (s \o t) \o <<line>> /\ Append(t, line) = t \o <<line>>
    BY <1>1, <2>1, AppendIsConcat
  <2>3. (s \o t) \o <<line>> = s \o (t \o <<line>>)
    BY <2>1, ConcatAssociative
  <2>. QED
    BY <2>2, <2>3
<1>8. Accounted(x, y)'
  <2>1. CASE to = "stdout"
    BY <1>2, <1>3, <1>6, <1>7, <2>1 DEF Accounted, CommandInv, CommandTypeOK, Streams
  <2>2. CASE to = "stderr"
    BY <1>2, <1>3, <1>6, <1>7, <2>2 DEF Accounted, CommandInv, CommandTypeOK, Streams
  <2>. QED
    BY <1>1, <2>1, <2>2 DEF Streams
<1>. QED
  BY <1>4, <1>5, <1>8 DEF CommandInv

LEMMA EndOfFileInv ==
  ASSUME CommandInv, EndOfFile("stdout", "stderr") \/ EndOfFile("stderr", "waiting")
  PROVE  CommandInv'
<1>1. CommandTypeOK' /\ ReaderInv'
  BY DEF CommandInv, CommandTypeOK, ReaderInv, EndOfFile, Readers
<1>2. PICK x \in Seq(Lines), y \in Seq(Lines) : Accounted(x, y)
  BY DEF CommandInv
<1>3. Accounted(x, y)'
  BY <1>2 DEF Accounted, EndOfFile
<1>. QED
  BY <1>1, <1>3 DEF CommandInv

LEMMA ReadLineInv ==
  ASSUME CommandInv, NEW stream \in Streams, ReadLine(stream)
  PROVE  CommandInv'
<1>1. PICK line \in Lines : line = Head(pipe[stream])
  <2>1. pipe[stream] \in Seq(Lines) /\ pipe[stream] # <<>>
    BY DEF CommandInv, CommandTypeOK, ReadLine
  <2>. QED
    BY <2>1, HeadTailProperties
<1>2. PICK rest \in Seq(Lines) : rest = Tail(pipe[stream])
  BY HeadTailProperties DEF CommandInv, CommandTypeOK, ReadLine
<1> DEFINE new == [to |-> stream, line |-> line]
<1>3. /\ new \in Writes
      /\ reader = stream /\ output' = Append(output, new)
      /\ pipe' = [pipe EXCEPT ![stream] = rest]
      /\ UNCHANGED <<reader, todo, alive, open, written>>
  BY <1>1, <1>2 DEF ReadLine, Writes, Streams
<1>4. PICK x \in Seq(Lines), y \in Seq(Lines) : Accounted(x, y)
  BY DEF CommandInv
<1>5. Tagged("stdout", x) \in Seq(Writes) /\ Tagged("stderr", y) \in Seq(Writes)
  BY TaggedType DEF Streams
<1>6. CommandTypeOK'
  BY <1>3, AppendProperties DEF CommandInv, CommandTypeOK
<1>7. ReaderInv'
  BY <1>3 DEF CommandInv, CommandTypeOK, ReaderInv, Streams
<1>8. ASSUME NEW s \in Seq(Lines)
      PROVE  Append(s, line) \in Seq(Lines) /\ Append(s, line) \o rest = s \o pipe[stream]
  <2>1. pipe[stream] \in Seq(Lines) /\ pipe[stream] # <<>>
    BY DEF CommandInv, CommandTypeOK, ReadLine
  <2>. QED
    BY <1>1, <1>2, <2>1, AppendHead
<1>9. CASE stream = "stdout"
  <2>1. y = <<>> /\ output = Tagged("stdout", x)
    BY <1>3, <1>4, <1>5, <1>9, TaggedEmpty, ConcatEmptySeq DEF Accounted
  <2>2. output' = Tagged("stdout", Append(x, line)) \o Tagged("stderr", y)
    <3>1. Tagged("stdout", Append(x, line)) = output'
      BY <1>3, <1>9, <2>1, TaggedAppend DEF Streams
    <3>2. Tagged("stdout", Append(x, line)) \in Seq(Writes)
      BY <1>8, TaggedType DEF Streams
    <3>. QED
      BY <2>1, <3>1, <3>2, TaggedEmpty, ConcatEmptySeq
  <2>3. Accounted(Append(x, line), y)'
    BY <1>3, <1>4, <1>8, <1>9, <2>1, <2>2 DEF Accounted, CommandInv, CommandTypeOK, Streams
  <2>. QED
    BY <1>6, <1>7, <1>8, <2>3 DEF CommandInv
<1>10. CASE stream = "stderr"
  <2>1. output' = Tagged("stdout", x) \o Tagged("stderr", Append(y, line))
    <3>1. Tagged("stderr", Append(y, line)) = Append(Tagged("stderr", y), new)
      BY <1>10, TaggedAppend DEF Streams
    <3>2. output = Tagged("stdout", x) \o Tagged("stderr", y)
      BY <1>4 DEF Accounted
    <3>3. Append(Tagged("stdout", x) \o Tagged("stderr", y), new)
            = Tagged("stdout", x) \o Append(Tagged("stderr", y), new)
      <4> DEFINE s == Tagged("stdout", x)
                 t == Tagged("stderr", y)
      <4>1. <<new>> \in Seq(Writes) /\ s \o t \in Seq(Writes)
        BY <1>3, <1>5, ConcatProperties
      <4>2. Append(s \o t, new) = (s \o t) \o <<new>> /\ Append(t, new) = t \o <<new>>
        BY <1>3, <1>5, <4>1, AppendIsConcat
      <4>3. (s \o t) \o <<new>> = s \o (t \o <<new>>)
        BY <1>5, <4>1, ConcatAssociative
      <4>. QED
        BY <4>2, <4>3
    <3>. QED
      BY <1>3, <3>1, <3>2, <3>3
  <2>2. Accounted(x, Append(y, line))'
    BY <1>3, <1>4, <1>8, <1>10, <2>1 DEF Accounted, CommandInv, CommandTypeOK, Streams
  <2>. QED
    BY <1>6, <1>7, <1>8, <2>2 DEF CommandInv
<1>. QED
  BY <1>9, <1>10 DEF Streams

\* The account of what was written holds in every reachable state.
THEOREM CommandInvariant == Spec => []CommandInv
<1>1. CommandInv /\ Next => CommandInv'
  BY SpawnInv, EndInv, WriteInv, EndOfFileInv, ReadLineInv
     DEF Next, ReadStdout, ReadStderr, Streams
<1>2. CommandInv /\ UNCHANGED vars => CommandInv'
  <2> SUFFICES ASSUME CommandInv, UNCHANGED vars PROVE CommandInv'
    OBVIOUS
  <2>1. PICK x \in Seq(Lines), y \in Seq(Lines) : Accounted(x, y)
    BY DEF CommandInv
  <2>2. Accounted(x, y)'
    BY <2>1 DEF Accounted, vars
  <2>. QED
    BY <2>2 DEF vars, CommandInv, CommandTypeOK, ReaderInv
<1>. QED
  BY <1>1, <1>2, CommandInitInv, PTL DEF Spec

\* Every variable keeps its type; only running processes have a pipe open.
THEOREM CommandTypeCorrect == Spec => []CommandTypeOK
BY CommandInvariant, PTL DEF CommandInv

\* When Workspace::execute_command returns, its output is all that was written
\* to the two pipes, whichever of the processes wrote it and however long they
\* outlived the shell.
THEOREM LosesNothing == Spec => []NothingIsLost
<1>1. CommandInv => NothingIsLost
  <2> SUFFICES ASSUME CommandInv, reader = "done"
               PROVE  output = Tagged("stdout", written["stdout"]) \o Tagged("stderr", written["stderr"])
    BY DEF NothingIsLost
  <2>1. PICK x \in Seq(Lines), y \in Seq(Lines) : Accounted(x, y)
    BY DEF CommandInv
  <2>2. pipe["stdout"] = <<>> /\ pipe["stderr"] = <<>>
    BY DEF CommandInv, ReaderInv
  <2>3. written["stdout"] = x /\ written["stderr"] = y
    BY <2>1, <2>2, ConcatEmptySeq DEF Accounted
  <2>. QED
    BY <2>1, <2>3 DEF Accounted
<1>. QED
  BY <1>1, CommandInvariant, PTL
=============================================================================
