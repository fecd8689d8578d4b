----------------------------- MODULE WireProofs -----------------------------
(***************************************************************************)
(* Proof that requests and responses stay in step on a connection, whatever*)
(* the texts are, however long, and wherever the streams are cut.          *)
(***************************************************************************)
EXTENDS Wire, SequenceTheorems, TLAPS

(***************************************************************************)
(* The inductive invariant: while nothing has contained the delimiter and  *)
(* the server is there, the client is between two commands and nothing is  *)
(* under way, or its request is, or the response to it is, or what is left *)
(* of a response whose rest was sent from elsewhere.                       *)
(***************************************************************************)
Idle == ~asking /\ toServer = <<>> /\ toClient = <<>> /\ got = answer

Asked ==
  /\ asking /\ toClient = <<>>
  /\ \E text \in Texts : Clean(text) /\ toServer = Framed(text)

Answered ==
  /\ asking /\ toServer = <<>>
  /\ answer \in Texts /\ Clean(answer)
  /\ toClient = Framed(answer)

Stuck == asking /\ toServer = <<>> /\ toClient \in Texts /\ Delimiters(toClient) = {}

WireInv == WireTypeOK /\ (clean /\ connected => Idle \/ Asked \/ Answered \/ Stuck)

-----------------------------------------------------------------------------
\* A clean text and the delimiter behind it: the delimiter is the only one.
LEMMA FramedDelimiters ==
  ASSUME NEW text \in Texts, Clean(text)
  PROVE  /\ Framed(text) \in Texts
         /\ Len(Framed(text)) = Len(text) + 1
         /\ Delimiters(Framed(text)) = {Len(text) + 1}
         /\ SubSeq(Framed(text), 1, Len(text)) = text
         /\ After(Len(text) + 1, Framed(text)) = <<>>
<1> DEFINE f == Framed(text)
<1>1. Marker \in Line /\ text \in Seq(Line) /\ text # <<>> /\ Len(text) \in Nat \ {0}
  BY WireAssumption, EmptySeq DEF Texts
<1>2. /\ f \in Seq(Line) /\ Len(f) = Len(text) + 1 /\ f[Len(text) + 1] = Marker
      /\ \A i \in 1 .. Len(text) : f[i] = text[i]
  BY <1>1, AppendProperties DEF Framed
<1>3. f \in Texts
  BY <1>2, <1>1 DEF Texts
<1>4. Delimiters(f) = {Len(text) + 1}
  <2>1. ASSUME NEW i \in Delimiters(f) PROVE i = Len(text) + 1
    <3>1. i \in 2 .. Len(text) + 1 /\ f[i] = Marker
      BY <2>1, <1>2 DEF Delimiters
    <3>2. CASE i <= Len(text)
      <4>1. i \in 2 .. Len(text) /\ text[i] = Marker
        BY <3>1, <3>2, <1>1, <1>2
      <4> QED BY <4>1 DEF Clean, Delimiters
    <3> QED BY <3>1, <3>2, <1>1
  <2>2. Len(text) + 1 \in Delimiters(f)
    BY <1>1, <1>2 DEF Delimiters
  <2> QED BY <2>1, <2>2
<1>5. SubSeq(f, 1, Len(text)) = text
  <2>1. /\ SubSeq(f, 1, Len(text)) \in Seq(Line)
        /\ Len(SubSeq(f, 1, Len(text))) = Len(text)
        /\ \A i \in 1 .. Len(text) : SubSeq(f, 1, Len(text))[i] = f[i]
    BY <1>1, <1>2, SubSeqProperties
  <2> QED BY <2>1, <1>1, <1>2, SeqEqual
<1>6. After(Len(text) + 1, f) = <<>>
  BY <1>1, <1>2 DEF After
<1> QED BY <1>2, <1>3, <1>4, <1>5, <1>6

\* Nothing in transit holds no delimiter.
LEMMA NoDelimiters == Delimiters(<<>>) = {}
BY DEF Delimiters

\* What is cut off a stream has no delimiter that the stream has not.
LEMMA CutDelimiters ==
  ASSUME NEW stream \in Seq(Line), NEW k \in 1 .. Len(stream)
  PROVE  /\ SubSeq(stream, 1, k) \in Seq(Line)
         /\ Len(SubSeq(stream, 1, k)) = k
         /\ Delimiters(SubSeq(stream, 1, k)) \subseteq Delimiters(stream)
<1>1. /\ SubSeq(stream, 1, k) \in Seq(Line)
      /\ Len(SubSeq(stream, 1, k)) = k
      /\ \A i \in 1 .. k : SubSeq(stream, 1, k)[i] = stream[i]
  BY SubSeqProperties, LenProperties
<1>2. Len(stream) \in Nat
  BY LenProperties
<1> QED BY <1>1, <1>2 DEF Delimiters

\* do_write sends the response with its delimiter, or something without any.
LEMMA SentShape ==
  ASSUME NEW text \in Texts, Clean(text), NEW out \in Sent(text)
  PROVE  \/ out = Framed(text)
         \/ out \in Texts /\ Delimiters(out) = {}
<1>1. CASE out = Framed(text)
  BY <1>1
<1>2. CASE out # Framed(text)
  <2>1. PICK i \in 1 .. Len(text) : out = Append(SubSeq(text, 1, i), Garbage)
    BY <1>2 DEF Sent
  <2> DEFINE cut == SubSeq(text, 1, i)
  <2>2. text \in Seq(Line) /\ Garbage \in Line /\ Garbage # Marker
    BY WireAssumption DEF Texts
  <2>3. cut \in Seq(Line) /\ Len(cut) = i /\ Delimiters(cut) = {}
    BY <2>2, CutDelimiters DEF Clean
  <2>4. /\ out \in Seq(Line) /\ out # <<>> /\ Len(out) = i + 1 /\ out[i + 1] = Garbage
        /\ \A j \in 1 .. i : out[j] = cut[j]
    <3> HIDE DEF cut
    <3> QED BY <2>1, <2>2, <2>3, AppendProperties DEF cut
  <2>5. ASSUME NEW j \in Delimiters(out) PROVE FALSE
    <3>1. j \in 2 .. i + 1 /\ out[j] = Marker
      BY <2>4, <2>5 DEF Delimiters
    <3>2. j # i + 1
      BY <3>1, <2>4, <2>2
    <3>3. j \in 2 .. Len(cut) /\ cut[j] = Marker
      BY <3>1, <3>2, <2>4, <2>3
    <3> QED BY <3>3, <2>3 DEF Delimiters
  <2> QED BY <2>4, <2>5 DEF Texts
<1> QED BY <1>1, <1>2

-----------------------------------------------------------------------------
LEMMA WireInitInv == WireInit => WireInv
<1>1. <<>> \in Seq(Line)
  BY EmptySeq
<1> QED BY <1>1 DEF WireInit, WireInv, WireTypeOK, Idle

LEMMA AskInv ==
  ASSUME WireInv, NEW text \in Texts, Ask(text)
  PROVE  WireInv'
<1> USE DEF WireInv, Ask
<1>1. text \in Seq(Line) /\ Marker \in Line
  BY WireAssumption DEF Texts
<1>2. Framed(text) \in Seq(Line)
  BY <1>1, AppendProperties DEF Framed
<1>3. WireTypeOK'
  BY <1>2, ConcatProperties, EmptySeq DEF WireTypeOK, Clean
<1>4. ASSUME clean', connected' PROVE Asked'
  <2>1. clean /\ connected /\ Clean(text)
    BY <1>4 DEF WireTypeOK
  <2>2. Idle
    BY <2>1 DEF Idle, Asked, Answered, Stuck
  <2>3. toServer' = Framed(text) /\ toClient' = <<>> /\ asking'
    BY <2>1, <2>2, <1>2, ConcatEmptySeq DEF Idle
  <2> QED BY <2>1, <2>3 DEF Asked, Clean, Delimiters, Framed
<1> QED BY <1>3, <1>4

LEMMA RespondInv ==
  ASSUME WireInv, NEW i \in 1 .. Len(toServer), NEW response \in Texts, Respond(i, response)
  PROVE  WireInv'
<1> USE DEF WireInv
<1>1. answer' \in Texts /\ answer' = Append(response, Blank)
  BY WireAssumption, AppendProperties DEF Texts, Respond
<1>2. toServer' = SubSeq(toServer, i + 1, Len(toServer))
  BY DEF Respond, Taken, After
<1>3. toServer \in Seq(Line) /\ toClient \in Seq(Line) /\ Len(toServer) \in Nat
  BY LenProperties DEF WireTypeOK
<1>4. toServer' \in Seq(Line)
  BY <1>2, <1>3, SubSeqProperties
<1>5. PICK out \in Sent(answer') : toClient' = toClient \o out
  BY DEF Respond
<1>6. out \in Seq(Line)
  <2>1. CASE out = Framed(answer')
    BY <2>1, <1>1, WireAssumption, AppendProperties DEF Framed, Texts
  <2>2. CASE out # Framed(answer')
    <3>1. PICK j \in 1 .. Len(answer') : out = Append(SubSeq(answer', 1, j), Garbage)
      BY <2>2, <1>5 DEF Sent
    <3>2. answer' \in Seq(Line) /\ Garbage \in Line
      BY <1>1, WireAssumption DEF Texts
    <3>3. SubSeq(answer', 1, j) \in Seq(Line)
      BY <3>2, CutDelimiters
    <3> QED BY <3>1, <3>2, <3>3, AppendProperties
  <2> QED BY <2>1, <2>2
<1>7. toClient' \in Seq(Line)
  BY <1>3, <1>5, <1>6, ConcatProperties
<1>8. WireTypeOK'
  BY <1>1, <1>4, <1>7 DEF WireTypeOK, Respond, Texts, Clean
<1>9. ASSUME clean', connected' PROVE Answered' \/ Stuck'
  <2>1. clean /\ connected /\ Clean(answer')
    BY <1>9 DEF Respond, WireTypeOK
  <2>2. Asked
    BY <2>1, NoDelimiters DEF Respond, IsFirst, Idle, Answered, Stuck
  <2>3. PICK text \in Texts : Clean(text) /\ toServer = Framed(text)
    BY <2>2 DEF Asked
  <2>4. i = Len(text) + 1 /\ toServer' = <<>>
    BY <2>3, FramedDelimiters DEF Respond, IsFirst, Taken
  <2>5. toClient' = out
    BY <2>2, <1>5, <1>6, ConcatEmptySeq DEF Asked
  <2>6. out = Framed(answer') \/ (out \in Texts /\ Delimiters(out) = {})
    BY <2>1, <1>1, <1>5, SentShape
  <2>7. asking'
    BY <2>2 DEF Asked, Respond
  <2>8. CASE out = Framed(answer')
    BY <2>1, <2>4, <2>5, <2>7, <2>8, <1>1 DEF Answered, Framed, Clean, Delimiters
  <2>9. CASE out \in Texts /\ Delimiters(out) = {}
    BY <2>4, <2>5, <2>7, <2>9 DEF Stuck, Delimiters
  <2> QED BY <2>6, <2>8, <2>9
<1> QED BY <1>8, <1>9

\* A client that has read a delimiter has been sent one ...
LEMMA ReceiveNeeds ==
  ASSUME WireTypeOK, Receive
  PROVE  Delimiters(toClient) # {}
<1>1. PICK k \in 1 .. Len(toClient) : \E i \in 2 .. k : IsLast(i, SubSeq(toClient, 1, k))
  BY DEF Receive
<1>2. toClient \in Seq(Line)
  BY DEF WireTypeOK
<1> QED BY <1>1, <1>2, CutDelimiters DEF IsLast

\* ... and when that is the answer's, it returns the answer, and all of it.
LEMMA ReceiveAnswer ==
  ASSUME WireTypeOK, Answered, Receive
  PROVE  got' = answer /\ toClient' = <<>>
<1>1. PICK k \in 1 .. Len(toClient) : \E i \in 2 .. k :
        /\ IsLast(i, SubSeq(toClient, 1, k))
        /\ got' = SubSeq(toClient, 1, i - 1)
        /\ toClient' = After(k, toClient)
  BY DEF Receive
<1>2. PICK i \in 2 .. k :
        /\ IsLast(i, SubSeq(toClient, 1, k))
        /\ got' = SubSeq(toClient, 1, i - 1)
        /\ toClient' = After(k, toClient)
  BY <1>1
<1>3. toClient \in Seq(Line) /\ Len(toClient) \in Nat
  BY LenProperties DEF WireTypeOK
<1>4. i \in Delimiters(toClient) /\ i <= k
  BY <1>2, <1>3, CutDelimiters DEF IsLast
<1>5. answer \in Texts /\ Clean(answer) /\ toClient = Framed(answer)
  BY DEF Answered
<1>6. i = Len(answer) + 1 /\ Len(toClient) = Len(answer) + 1 /\ Len(answer) \in Nat
  BY <1>4, <1>5, FramedDelimiters, LenProperties DEF Texts
<1>7. k = Len(answer) + 1
  BY <1>3, <1>4, <1>6
<1> QED BY <1>2, <1>5, <1>6, <1>7, FramedDelimiters

LEMMA ReceiveInv ==
  ASSUME WireInv, Receive
  PROVE  WireInv'
<1> USE DEF WireInv
<1>1. PICK k \in 1 .. Len(toClient) :
        \E i \in 2 .. k : got' = SubSeq(toClient, 1, i - 1) /\ toClient' = After(k, toClient)
  BY DEF Receive
<1>2. toClient \in Seq(Line) /\ Len(toClient) \in Nat
  BY LenProperties DEF WireTypeOK
<1>3. toClient' \in Seq(Line) /\ got' \in Seq(Line)
  BY <1>1, <1>2, SubSeqProperties DEF After
<1>4. WireTypeOK'
  BY <1>3 DEF WireTypeOK, Receive
<1>5. ASSUME clean', connected' PROVE Idle'
  <2>1. clean /\ connected /\ asking
    BY <1>5 DEF Receive
  <2>2. Answered
    BY <2>1, ReceiveNeeds, NoDelimiters DEF Idle, Asked, Stuck
  <2> QED BY <2>2, ReceiveAnswer DEF Idle, Answered, Receive
<1> QED BY <1>4, <1>5

LEMMA EndInv ==
  ASSUME WireInv, Break \/ Fail
  PROVE  WireInv'
<1>1. <<>> \in Seq(Line)
  BY EmptySeq
<1>2. ~connected'
  BY DEF Break, Fail
<1>3. WireTypeOK'
  <2>1. CASE Break
    BY <1>1, <2>1 DEF WireInv, WireTypeOK, Break
  <2>2. CASE Fail
    BY <1>1, <2>2 DEF WireInv, WireTypeOK, Fail
  <2> QED BY <2>1, <2>2
<1> QED BY <1>2, <1>3 DEF WireInv

LEMMA WireStep == WireInv /\ [WireNext]_wireVars => WireInv'
<1> SUFFICES ASSUME WireInv, [WireNext]_wireVars PROVE WireInv'
  OBVIOUS
<1>1. CASE \E text \in Texts : Ask(text)
  BY <1>1, AskInv
<1>2. CASE \E i \in 1 .. Len(toServer), response \in Texts : Respond(i, response)
  BY <1>2, RespondInv
<1>3. CASE Receive
  BY <1>3, ReceiveInv
<1>4. CASE Break \/ Fail
  BY <1>4, EndInv
<1>5. CASE UNCHANGED wireVars
  BY <1>5 DEF wireVars, WireInv, WireTypeOK, Idle, Asked, Answered, Stuck, Framed, Clean,
              Delimiters
<1> QED BY <1>1, <1>2, <1>3, <1>4, <1>5 DEF WireNext

-----------------------------------------------------------------------------
\* What is on the connection, at every moment.
THEOREM WireInvariant == WireSpec => []WireInv
BY WireInitInv, WireStep, PTL DEF WireSpec

\* send_command returns the response to its own request and leaves nothing
\* behind, for all texts without the delimiter.
THEOREM RequestsInStep == WireSpec => []InStep
<1>1. WireInv => InStep
  BY DEF WireInv, InStep, Idle, Asked, Answered, Stuck
<1> QED BY <1>1, WireInvariant, PTL
=============================================================================
