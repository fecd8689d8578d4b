---------------------------- MODULE ClientProofs ----------------------------
(***************************************************************************)
(* Proofs about the whole program: client, session and everything around   *)
(* them use the connection as Wire says, so that requests and responses    *)
(* stay in step for every user, every zone and every file; they use the    *)
(* zones as Workspace says; and what the console says and saves is what    *)
(* the server has done.                                                    *)
(***************************************************************************)
EXTENDS Client, WireProofs, WorkspaceProofs

\* What goes into a message: every file has a content of at least one line,
\* and the console is at a line that somebody typed.
FilesOK == \A f \in DOMAIN files : files[f] \in Seq(Text) \ {<<>>}

InputOK == input \in Typed \cup {EmptyLine}

ClientInv == WireInv /\ FilesOK /\ InputOK

-----------------------------------------------------------------------------
\* The functions over 1 .. n are sequences of length n.
LEMMA FunctionIsSeq ==
  ASSUME NEW S, NEW n \in Nat, NEW m \in [1 .. n -> S]
  PROVE  m \in Seq(S) /\ Len(m) = n
<1>1. m \in Seq(S)
  OBVIOUS
<1>2. DOMAIN m = 1 .. n /\ DOMAIN m = 1 .. Len(m) /\ Len(m) \in Nat
  BY <1>1, LenProperties
<1> QED BY <1>1, <1>2

LEMMA OneLine ==
  ASSUME NEW text \in Text
  PROVE  <<text>> \in Seq(Text) \ {<<>>}
OBVIOUS

LEMMA EmptyContent == <<"">> \in Seq(Text) \ {<<>>}
BY ClientAssumption, OneLine

\* A message is a text that can be sent.
LEMMA MessageIsText ==
  ASSUME NEW op \in {Op[c] : c \in DOMAIN Op} \cup Replies \cup {""},
         NEW name \in {line.name : line \in Typed} \cup {<<>>},
         NEW content \in Seq(Text) \ {<<>>}
  PROVE  Message(op, name, content) \in Texts
<1>1. Len(content) \in Nat \ {0} /\ \A i \in 1 .. Len(content) : content[i] \in Text
  BY ElementOfSeq, EmptySeq, LenProperties
<1>2. \A text \in Text : Words(op, name, text) \in Line /\ Plain(text) \in Line
  BY ClientAssumption DEF Lines, Words, Plain
<1> DEFINE m == Message(op, name, content)
           n == Len(content)
<1>3. n \in Nat \ {0} /\ m \in [1 .. n -> Line]
  BY <1>1, <1>2 DEF Message
<1>4. m \in Seq(Line) /\ Len(m) = n
  <2> HIDE DEF m, n
  <2> QED BY <1>3, FunctionIsSeq
<1>5. m # <<>>
  <2> HIDE DEF m, n
  <2> QED BY <1>3, <1>4
<1> QED BY <1>4, <1>5 DEF Texts

\* So is a request.
LEMMA RequestIsText ==
  ASSUME NEW line \in Typed \cup {EmptyLine}, line.cmd \in DOMAIN Op
  PROVE  Request(line) \in Texts
<1>1. line.content \in Seq(Text) \ {<<>>} /\ line.name \in {l.name : l \in Typed} \cup {<<>>}
  <2>1. CASE line \in Typed
    BY <2>1, ClientAssumption
  <2>2. CASE line = EmptyLine
    <3>1. line.content = <<"">> /\ line.name = <<>>
      BY <2>2 DEF EmptyLine
    <3> QED BY <3>1, EmptyContent
  <2> QED BY <2>1, <2>2
<1>2. Op[line.cmd] \in {Op[c] : c \in DOMAIN Op}
  OBVIOUS
<1> QED BY <1>1, <1>2, MessageIsText DEF Request

-----------------------------------------------------------------------------
\* Uploads and commands put contents into files.
LEMMA UploadFiles ==
  ASSUME FilesOK, NEW s, NEW name, NEW content \in Seq(Text) \ {<<>>}, NEW reply,
         handleUpload(s, name, content, reply)
  PROVE  FilesOK'
<1> DEFINE p == Normal(path[s] \o name)
<1>1. files' = files \/ files' = With(files, p, content)
  BY DEF handleUpload
<1>2. CASE files' = files
  BY <1>2 DEF FilesOK
<1>3. CASE files' = With(files, p, content)
  <2> HIDE DEF p
  <2> QED BY <1>3 DEF FilesOK, With
<1> QED BY <1>1, <1>2, <1>3

LEMMA RunFiles ==
  ASSUME FilesOK, NEW d, RunIn(d)
  PROVE  FilesOK'
<1>1. CASE \E name \in FileNames, content \in Contents : files' = With(files, d \o name, content)
  <2>1. PICK name \in FileNames, content \in Contents : files' = With(files, d \o name, content)
    BY <1>1
  <2>2. content \in Seq(Text) \ {<<>>}
    BY WorkspaceAssumption
  <2> DEFINE p == d \o name
  <2>3. files' = With(files, p, content)
    BY <2>1
  <2> HIDE DEF p
  <2> QED BY <2>2, <2>3 DEF FilesOK, With
<1>2. CASE \E p \in ShellPaths : files' = Without(files, Below(p))
  <2>1. PICK S : files' = Without(files, S)
    BY <1>2
  <2> QED BY <2>1 DEF FilesOK, Without
<1>3. CASE files' = files
  BY <1>3 DEF FilesOK
<1> QED BY <1>1, <1>2, <1>3 DEF RunIn

LEMMA CommandFiles ==
  ASSUME FilesOK, NEW s, NEW reply, runCommand(s, reply)
  PROVE  FilesOK'
<1>1. RunIn(directory[s]) \/ files' = files
  BY DEF runCommand
<1> QED BY <1>1, RunFiles DEF FilesOK

\* A request that is no upload and no command leaves the files alone.
LEMMA OtherFiles ==
  ASSUME FilesOK, NEW s, NEW name, NEW reply,
         \/ handleCreateZone(s, name, reply)
         \/ handleEnterZone(s, name, reply)
         \/ handleLeaveZone(s, reply)
         \/ handleDownload(s, name, reply)
         \/ changeDirectory(s, name, reply)
         \/ UNCHANGED workspaceVars
  PROVE  FilesOK'
BY DEF FilesOK, handleCreateZone, handleEnterZone, handleLeaveZone, Left, handleDownload,
       changeDirectory, workspaceVars

\* What the session of the client takes from the connection is made of lines.
LEMMA RequestIsLines ==
  ASSUME WireInv, NEW i \in 1 .. Len(toServer), IsFirst(i, toServer)
  PROVE  /\ FirstRequest(i) \in Texts
         /\ \A j \in DOMAIN FirstRequest(i) : FirstRequest(i)[j] \in Lines
<1>1. toServer \in Seq(Line) /\ i \in 2 .. Len(toServer)
  BY DEF WireInv, WireTypeOK, IsFirst, Delimiters
<1> DEFINE k == i - 1
<1>2. k \in 1 .. Len(toServer)
  BY <1>1, LenProperties
<1>3. SubSeq(toServer, 1, k) \in Seq(Line) /\ Len(SubSeq(toServer, 1, k)) = k
  <2> HIDE DEF k
  <2> QED BY <1>1, <1>2, CutDelimiters
<1>4. FirstRequest(i) \in Seq(Line) /\ Len(FirstRequest(i)) = k
  BY <1>3 DEF FirstRequest
<1>5. FirstRequest(i) # <<>>
  BY <1>2, <1>4
<1>6. \A j \in DOMAIN FirstRequest(i) : FirstRequest(i)[j] \in Line
  <2> HIDE DEF k
  <2> QED BY <1>4, LenProperties
<1> QED BY <1>4, <1>5, <1>6, ClientAssumption DEF Texts

LEMMA AnswerFiles ==
  ASSUME ClientInv, NEW i \in 1 .. Len(toServer), IsFirst(i, toServer), NEW reply,
         handleRequest(FirstRequest(i), reply)
  PROVE  FilesOK'
<1> DEFINE request == FirstRequest(i)
<1>1. FilesOK /\ \A j \in DOMAIN request : request[j].text \in Text
  BY RequestIsLines DEF ClientInv, Lines
<1>2. CASE \E j \in First(Carried(request)) :
             handleUpload(me, request[1].name, <<request[j].text>>, reply)
  <2>1. PICK j \in First(Carried(request)) :
          handleUpload(me, request[1].name, <<request[j].text>>, reply)
    BY <1>2
  <2>2. j \in DOMAIN request
    <3>1. request \in Texts
      BY RequestIsLines DEF ClientInv
    <3>. QED
      BY <2>1, <3>1, LenProperties DEF First, NonBlank, Carried, Texts
  <2>3. <<request[j].text>> \in Seq(Text) \ {<<>>}
    BY <1>1, <2>2, OneLine
  <2> QED BY <1>1, <2>1, <2>3, UploadFiles
<1>3. CASE runCommand(me, reply)
  BY <1>1, <1>3, CommandFiles
<1>4. CASE \E name : changeDirectory(me, name, reply)
  BY <1>1, <1>4, OtherFiles
<1>5. CASE ~ \/ \E j \in First(Carried(request)) :
                  handleUpload(me, request[1].name, <<request[j].text>>, reply)
             \/ runCommand(me, reply)
             \/ \E name : changeDirectory(me, name, reply)
  BY <1>1, <1>5, OtherFiles DEF handleRequest, COMMAND
<1> QED BY <1>2, <1>3, <1>4, <1>5

\* What a command has printed, in a line of its own.
LEMMA OutputIsContent ==
  ASSUME NEW output \in Outputs
  PROVE  <<"">> \o output \in Seq(Text) \ {<<>>}
<1> DEFINE c == <<"">> \o output
<1>1. <<"">> \in Seq(Text) /\ Len(<<"">>) = 1 /\ output \in Seq(Text)
  BY ClientAssumption, EmptyContent
<1>2. c \in Seq(Text) /\ Len(c) = 1 + Len(output) /\ Len(output) \in Nat
  BY <1>1, ConcatProperties, LenProperties
<1>3. c # <<>>
  <2> HIDE DEF c
  <2>. QED
    BY <1>2
<1>. QED
  BY <1>2, <1>3

\* The session answers with a text: a download finds a file.
LEMMA ResponseIsText ==
  ASSUME ClientInv, NEW i \in 1 .. Len(toServer),
         NEW reply \in Replies, NEW output \in Outputs,
         handleRequest(FirstRequest(i), reply)
  PROVE  Response(FirstRequest(i), reply, output) \in Texts
<1> DEFINE request == FirstRequest(i)
           f == Normal(path[me] \o request[1].name)
<1>1. reply = "DOWNLOAD" => f \in DOMAIN files
  BY DEF handleRequest, handleCreateZone, handleEnterZone, handleLeaveZone, COMMAND,
         changeDirectory, runCommand, handleUpload, handleDownload, Readable
<1>2. CASE reply = "DOWNLOAD"
  <2>1. files[f] \in Seq(Text) \ {<<>>}
    BY <1>1, <1>2 DEF ClientInv, FilesOK
  <2>2. Response(request, reply, output) = Message(reply, <<>>, files[f])
    BY <1>2 DEF Response
  <2> QED BY <2>1, <2>2, MessageIsText
<1>3. CASE reply = "CMD_RESULT"
  <2>1. <<"">> \o output \in Seq(Text) \ {<<>>}
    BY OutputIsContent
  <2>2. Response(request, reply, output) = Message(reply, <<>>, <<"">> \o output)
    BY <1>3 DEF Response
  <2> QED BY <2>1, <2>2, MessageIsText
<1>4. CASE reply \notin {"DOWNLOAD", "CMD_RESULT"}
  <2>1. Response(request, reply, output) = Message(reply, <<>>, <<"">>)
    BY <1>4 DEF Response
  <2> QED BY <2>1, EmptyContent, MessageIsText
<1> QED BY <1>2, <1>3, <1>4

-----------------------------------------------------------------------------
LEMMA ClientInitInv == ClientInit => ClientInv
<1>1. DOMAIN <<>> = {}
  OBVIOUS
<1>2. ClientInit => FilesOK
  BY <1>1 DEF ClientInit, WorkspaceInit, FilesOK
<1> QED BY <1>2, WireInitInv DEF ClientInit, ClientInv, InputOK

\* The console uses the connection as send_command does, and keeps its line.
LEMMA ConsoleWire ==
  ASSUME ClientInv, Console
  PROVE  [WireNext]_wireVars /\ FilesOK' /\ InputOK'
<1>1. FilesOK'
  BY DEF Console, ClientInv, FilesOK, workspaceVars
<1>2. InputOK'
  BY DEF ClientInv, InputOK, Console, ConsoleStep, Continue, Exit, Help, Unknown, Missing,
         handleCommand, Returns, Throws, getline
<1>3. CASE Continue \/ Exit \/ Help \/ Unknown \/ Missing
  BY <1>1, <1>2, <1>3 DEF Continue, Exit, Help, Unknown, Missing, Prints
<1>4. CASE handleCommand
  <2>1. Request(input') \in Texts
    BY <1>2, <1>4, RequestIsText DEF handleCommand, InputOK
  <2> QED BY <1>1, <1>2, <1>4, <2>1 DEF handleCommand, WireNext
<1>5. CASE Returns \/ Throws
  BY <1>1, <1>2, <1>5 DEF Returns, Throws, WireNext
<1> QED BY <1>1, <1>2, <1>3, <1>4, <1>5 DEF Console, ConsoleStep

\* The session uses it as do_read and do_write do.
LEMMA SessionWire ==
  ASSUME ClientInv, Session
  PROVE  [WireNext]_wireVars /\ FilesOK' /\ InputOK'
<1>1. PICK i \in 1 .. Len(toServer) : Answers(i)
  BY DEF Session
<1>2. PICK reply \in Replies, output \in Outputs :
        /\ handleRequest(FirstRequest(i), reply)
        /\ Respond(i, Response(FirstRequest(i), reply, output))
  BY <1>1 DEF Answers
<1>3. Response(FirstRequest(i), reply, output) \in Texts
  BY <1>2, ResponseIsText
<1>4. WireNext
  BY <1>2, <1>3 DEF WireNext
<1>5. FilesOK'
  BY <1>1, <1>2, AnswerFiles DEF Answers
<1> QED BY <1>4, <1>5 DEF Session, consoleVars, ClientInv, InputOK

\* Everything else only writes files, or ends the server.
LEMMA OtherWire ==
  ASSUME ClientInv, Dying \/ Disconnected \/ Neighbour \/ StrayStep \/ NeighbourDying
  PROVE  [WireNext]_wireVars /\ FilesOK' /\ InputOK'
<1>1. InputOK'
  BY DEF Dying, Disconnected, Neighbour, StrayStep, NeighbourDying, consoleVars, ClientInv,
         InputOK
<1>2. CASE Dying \/ NeighbourDying
  BY <1>1, <1>2 DEF Dying, NeighbourDying, WireNext, ClientInv, FilesOK, workspaceVars
<1>3. CASE Disconnected
  BY <1>1, <1>3 DEF Disconnected, Left, ClientInv, FilesOK
<1>4. CASE Neighbour
  <2>1. PICK s \in Sessions \ {me} : Handles(s)
    BY <1>4 DEF Neighbour
  <2>2. PICK reply \in Replies :
          \/ \E name \in Names : handleCreateZone(s, name, reply)
          \/ \E name \in Names : handleEnterZone(s, name, reply)
          \/ handleLeaveZone(s, reply)
          \/ \E d \in Directories : changeDirectory(s, d, reply)
          \/ runCommand(s, reply)
          \/ \E name \in RemoteNames, text \in Uploads : handleUpload(s, name, <<text>>, reply)
    BY <2>1 DEF Handles
  <2>3. FilesOK /\ \A text \in Uploads : <<text>> \in Seq(Text) \ {<<>>}
    BY WorkspaceAssumption, OneLine DEF ClientInv
  <2>4. FilesOK'
    BY <2>2, <2>3, UploadFiles, CommandFiles, OtherFiles
  <2> QED BY <1>1, <1>4, <2>4 DEF Neighbour
<1>5. CASE StrayStep
  <2>1. PICK d \in strays : Stray(d)
    BY <1>5 DEF StrayStep
  <2>2. FilesOK'
    BY <2>1, RunFiles DEF Stray, ClientInv
  <2> QED BY <1>1, <1>5, <2>2 DEF StrayStep
<1> QED BY <1>2, <1>3, <1>4, <1>5

LEMMA ClientStep ==
  ClientInv /\ [ClientNext]_clientVars => [WireNext]_wireVars /\ ClientInv'
<1> SUFFICES ASSUME ClientInv, [ClientNext]_clientVars
             PROVE  [WireNext]_wireVars /\ ClientInv'
  OBVIOUS
<1>1. [WireNext]_wireVars /\ FilesOK' /\ InputOK'
  <2>1. CASE ClientNext
    BY <2>1, ConsoleWire, SessionWire, OtherWire DEF ClientNext
  <2>2. CASE UNCHANGED clientVars
    BY <2>2 DEF clientVars, workspaceVars, consoleVars, ClientInv, FilesOK, InputOK
  <2> QED BY <2>1, <2>2
<1>2. WireInv'
  BY <1>1, WireStep DEF ClientInv
<1> QED BY <1>1, <1>2 DEF ClientInv

-----------------------------------------------------------------------------
\* The client and the server implement the connection of Wire: every step of
\* theirs is one of its steps, or leaves the connection alone.
THEOREM ClientImplementsWire == ClientSpec => WireSpec
<1>1. ClientInit => WireInit
  BY DEF ClientInit
<1> QED BY <1>1, ClientInitInv, ClientStep, PTL DEF ClientSpec, WireSpec

\* Hence every command's response is its own.
THEOREM ClientInStep == ClientSpec => []InStep
BY ClientImplementsWire, RequestsInStep, PTL

-----------------------------------------------------------------------------
(***************************************************************************)
(* The workspaces.  What reaches the session of the client are lines of    *)
(* the requests that were typed, so the session handles the requests that  *)
(* Workspace has for every session.                                        *)
(***************************************************************************)
Complete(line) == line \in Typed /\ line.cmd \in DOMAIN Op /\ ~Incomplete(line)

Sendable(l) ==
  \/ l = Marker
  \/ /\ l.text \in Uploads \cup {""}
     /\ l.op # "" => \E line \in Typed : Complete(line) /\ l.op = Op[line.cmd] /\ l.name = line.name

SentTyped == \A i \in 1 .. Len(toServer) : Sendable(toServer[i])

\* The lines of a message.
LEMMA MessageLines ==
  ASSUME NEW op, NEW name, NEW content \in Seq(Text)
  PROVE  /\ DOMAIN Message(op, name, content) = 1 .. Len(content)
         /\ \A i \in 1 .. Len(content) :
              Message(op, name, content)[i] =
                IF i = 1 THEN Words(op, name, content[1]) ELSE Plain(content[i])
BY DEF Message

LEMMA PlainFields == \A text : Plain(text).op = "" /\ Plain(text).text = text
BY DEF Plain, Words

LEMMA RequestSendable ==
  ASSUME NEW line, Complete(line)
  PROVE  \A i \in 1 .. Len(Request(line)) : Sendable(Request(line)[i])
<1> DEFINE content == line.content
           m == Request(line)
<1>1. content \in Seq(Text) \ {<<>>} /\ Covered(line)
  BY ClientAssumption DEF Complete
<1>2. /\ DOMAIN m = 1 .. Len(content)
      /\ \A i \in 1 .. Len(content) :
           m[i] = IF i = 1 THEN Words(Op[line.cmd], line.name, content[1]) ELSE Plain(content[i])
  BY <1>1, MessageLines DEF Request
<1>3. m \in Texts
  BY RequestIsText DEF Complete
<1> HIDE DEF m
<1>4. 1 .. Len(m) = 1 .. Len(content)
  BY <1>2, <1>3, LenProperties DEF Texts
<1>5. \A i \in 1 .. Len(content) :
        content[i] \in Uploads \cup {""} \/ (i > 1 /\ content[i] = "END_CMD")
  <2>1. DOMAIN content = 1 .. Len(content)
    BY <1>1, LenProperties
  <2>. QED
    BY <1>1, <2>1 DEF Covered
<1> HIDE DEF content
<1>6. ASSUME NEW i \in 1 .. Len(content) PROVE Sendable(m[i])
  <2>1. CASE i = 1
    <3>1. /\ m[i].text = content[1] /\ m[i].op = Op[line.cmd] /\ m[i].name = line.name
      BY <1>2, <2>1 DEF Words
    <3>2. content[1] \in Uploads \cup {""}
      <4>1. 1 \in 1 .. Len(content) /\ ~(1 > 1)
        BY <2>1
      <4>. QED
        BY <1>5, <4>1
    <3>. QED
      BY <3>1, <3>2 DEF Sendable, Complete
  <2>2. CASE i # 1 /\ content[i] = "END_CMD"
    <3>1. m[i] = Marker
      BY <1>2, <2>2, ClientAssumption
    <3>. QED
      BY <3>1 DEF Sendable
  <2>3. CASE i # 1 /\ content[i] # "END_CMD"
    <3>1. m[i].text = content[i] /\ m[i].op = ""
      <4>1. m[i] = Plain(content[i])
        BY <1>2, <2>3
      <4>. QED
        BY <4>1, PlainFields
    <3>. QED
      BY <1>5, <2>3, <3>1 DEF Sendable
  <2>. QED
    BY <2>1, <2>2, <2>3
<1>. QED
  BY <1>4, <1>6 DEF m

\* Asking adds such lines, and handling a request or the end of the server
\* takes some away.
LEMMA SentStep ==
  ASSUME ClientInv, SentTyped, ClientNext
  PROVE  SentTyped'
<1>0. toServer \in Seq(Line)
  BY DEF ClientInv, WireInv, WireTypeOK
<1>1. CASE UNCHANGED toServer
  BY <1>1 DEF SentTyped, Sendable
<1>2. CASE \E text : Ask(text) /\ text = Request(input') /\ Complete(input')
  <2> DEFINE text == Request(input')
             f == Framed(text)
  <2>1. Ask(text) /\ Complete(input')
    BY <1>2
  <2>2. text \in Seq(Line) /\ \A i \in 1 .. Len(text) : Sendable(text[i])
    BY <2>1, RequestIsText, RequestSendable DEF Complete, Texts
  <2> HIDE DEF text
  <2>3. /\ f \in Seq(Line) /\ Len(f) = Len(text) + 1 /\ f[Len(text) + 1] = Marker
        /\ \A i \in 1 .. Len(text) : f[i] = text[i]
    BY <2>2, WireAssumption, AppendProperties DEF Framed
  <2> HIDE DEF f
  <2>4. Len(text) \in Nat /\ \A i \in 1 .. Len(f) : Sendable(f[i])
    <3>1. Len(text) \in Nat
      BY <2>2, LenProperties
    <3>2. \A i \in 1 .. Len(text) + 1 : i \in 1 .. Len(text) \/ i = Len(text) + 1
      BY <3>1
    <3>3. Sendable(Marker)
      BY DEF Sendable
    <3>. QED
      BY <2>2, <2>3, <3>1, <3>2, <3>3
  <2>5. toServer' = toServer \o f \/ toServer' = <<>>
    BY <2>1 DEF Ask, f
  <2>6. CASE toServer' = <<>>
    BY <2>6 DEF SentTyped
  <2>7. CASE toServer' = toServer \o f
    <3>1. /\ Len(toServer') = Len(toServer) + Len(f) /\ Len(toServer) \in Nat /\ Len(f) \in Nat
          /\ \A i \in 1 .. Len(toServer) + Len(f) :
               toServer'[i] = IF i <= Len(toServer) THEN toServer[i] ELSE f[i - Len(toServer)]
      <4>1. Len(toServer) \in Nat /\ Len(f) \in Nat
        BY <1>0, <2>3, LenProperties
      <4>2. /\ Len(toServer \o f) = Len(toServer) + Len(f)
            /\ \A i \in 1 .. Len(toServer) + Len(f) :
                 (toServer \o f)[i] = IF i <= Len(toServer) THEN toServer[i]
                                       ELSE f[i - Len(toServer)]
        BY <1>0, <2>3, ConcatProperties
      <4>. QED
        BY <2>7, <4>1, <4>2
    <3>2. ASSUME NEW i \in 1 .. Len(toServer') PROVE Sendable(toServer'[i])
      <4>1. CASE i <= Len(toServer)
        BY <3>1, <4>1 DEF SentTyped
      <4>2. CASE ~(i <= Len(toServer))
        <5>1. i - Len(toServer) \in 1 .. Len(f)
          BY <3>1, <4>2
        <5>. QED
          BY <2>4, <3>1, <4>2, <5>1
      <4>. QED
        BY <4>1, <4>2
    <3>. QED
      BY <3>2 DEF SentTyped, Sendable
  <2>. QED
    BY <2>5, <2>6, <2>7
<1>3. CASE \E i \in 1 .. Len(toServer) : \E response : Respond(i, response)
  <2>1. PICK i \in 1 .. Len(toServer) : toServer' = SubSeq(toServer, i + 1, Len(toServer))
    BY <1>3 DEF Respond, Taken, After
  <2> DEFINE n == Len(toServer)
  <2>2. n \in Nat /\ i + 1 \in 1 .. n + 1 /\ \A j \in i + 1 .. n : toServer[j] \in Line
    BY <1>0, LenProperties
  <2>3. /\ Len(toServer') = IF i + 1 <= n THEN n - (i + 1) + 1 ELSE 0
        /\ \A j \in 1 .. n - (i + 1) + 1 : toServer'[j] = toServer[(i + 1) + j - 1]
    <3> HIDE DEF n
    <3>1. toServer' = SubSeq(toServer, i + 1, n)
      BY <2>1 DEF n
    <3>. QED
      BY <2>2, <3>1, SubSeqProperties
  <2>4. ASSUME NEW j \in 1 .. Len(toServer') PROVE Sendable(toServer'[j])
    <3>1. j \in 1 .. n - (i + 1) + 1 /\ (i + 1) + j - 1 \in 1 .. n
      BY <2>2, <2>3
    <3>. QED
      BY <2>3, <3>1 DEF SentTyped
  <2>. QED
    BY <2>4 DEF SentTyped, Sendable
<1>4. CASE toServer' = <<>>
  BY <1>4 DEF SentTyped
<1>5. CASE Console
  <2>1. CASE handleCommand
    <3>1. input' \in Typed \cup {EmptyLine}
      BY <1>5, ConsoleWire DEF InputOK
    <3>2. input' # EmptyLine
      <4>1. EmptyLine.cmd \notin DOMAIN Op
        BY DEF EmptyLine, Op
      <4>. QED
        BY <2>1, <4>1 DEF handleCommand
    <3>. QED
      BY <1>2, <2>1, <3>1, <3>2 DEF handleCommand, Complete
  <2>. QED
    BY <1>1, <1>5, <2>1 DEF Console, ConsoleStep, Continue, Exit, Help, Unknown, Missing, Prints,
                           Returns, Receive, Throws, Fail, wireVars
<1>6. CASE Session
  BY <1>3, <1>6 DEF Session, Answers
<1>7. CASE Dying \/ NeighbourDying
  BY <1>4, <1>7 DEF Dying, NeighbourDying, Break
<1>8. CASE Disconnected \/ Neighbour \/ StrayStep
  BY <1>1, <1>8 DEF Disconnected, Neighbour, StrayStep, wireVars
<1>. QED
  BY <1>5, <1>6, <1>7, <1>8 DEF ClientNext

\* In what do_read takes, the delimiter is at most the first line.
LEMMA RequestIsSendable ==
  ASSUME ClientInv, SentTyped, NEW i \in 1 .. Len(toServer), IsFirst(i, toServer),
         NEW j \in DOMAIN FirstRequest(i)
  PROVE  /\ Sendable(FirstRequest(i)[j])
         /\ FirstRequest(i)[j] = Marker => j = 1
<1> DEFINE k == i - 1
<1>1. toServer \in Seq(Line) /\ i \in 2 .. Len(toServer) /\ Len(toServer) \in Nat
  BY LenProperties DEF ClientInv, WireInv, WireTypeOK, IsFirst, Delimiters
<1>2. k \in Nat /\ k < i /\ \A n \in 1 .. k : n \in 1 .. Len(toServer) /\ toServer[n] \in Line
  BY <1>1, LenProperties
<1>3. /\ FirstRequest(i) \in Seq(Line) /\ Len(FirstRequest(i)) = k
      /\ \A n \in 1 .. k : FirstRequest(i)[n] = toServer[n]
  <2>1. FirstRequest(i) = SubSeq(toServer, 1, k)
    BY DEF FirstRequest
  <2> HIDE DEF k
  <2>. QED
    BY <1>2, <2>1, SubSeqProperties
<1>4. j \in 1 .. k /\ j \in 1 .. Len(toServer) /\ FirstRequest(i)[j] = toServer[j]
  <2> HIDE DEF k
  <2>. QED
    BY <1>2, <1>3, LenProperties
<1>5. toServer[j] = Marker => j = 1
  <2>1. j \in 2 .. Len(toServer) /\ toServer[j] = Marker => i <= j
    BY DEF IsFirst, Delimiters
  <2>. QED
    BY <1>1, <1>4, <2>1
<1>. QED
  BY <1>4, <1>5 DEF SentTyped

\* Each operation has one command.
LEMMA OpIsInjective ==
  \A c \in DOMAIN Op :
    /\ Op[c] = "CREATE_ZONE" => c = "create_zone"
    /\ Op[c] = "ENTER_ZONE" => c = "enter_zone"
    /\ Op[c] = "LEAVE_ZONE" => c = "leave_zone"
    /\ Op[c] = "COMMAND" => c = "command"
    /\ Op[c] = "UPLOAD" => c = "upload"
    /\ Op[c] = "DOWNLOAD" => c = "download"
BY DEF Op

\* The session handles requests that Workspace has, or changes nothing.
LEMMA HandlesRequest ==
  ASSUME ClientInv, SentTyped, NEW i \in 1 .. Len(toServer), IsFirst(i, toServer),
         NEW reply \in Replies, handleRequest(FirstRequest(i), reply)
  PROVE  Handles(me) \/ UNCHANGED workspaceVars
<1> DEFINE request == FirstRequest(i)
           op == request[1].op
           name == request[1].name
<1>0. request \in Texts
  BY RequestIsLines DEF ClientInv
<1>1. 1 \in DOMAIN request
  BY <1>0, EmptySeq, LenProperties DEF Texts
<1>2. op # "" =>
        /\ \A j \in DOMAIN request : request[j].text \in Uploads \cup {""}
        /\ \E line \in Typed : Complete(line) /\ op = Op[line.cmd] /\ name = line.name
  <2>1. Marker.op = ""
    BY ClientAssumption, PlainFields
  <2>2. op # "" => \A j \in DOMAIN request : request[j] # Marker
    BY <2>1, RequestIsSendable
  <2>. QED
    BY <1>1, <2>2, RequestIsSendable DEF Sendable
<1> HIDE DEF request
<1> HIDE DEF op, name
<1>3. ASSUME op # ""
      PROVE  \E line : /\ Covered(line) /\ ~Incomplete(line) /\ name = line.name
                       /\ line.cmd \in DOMAIN Op /\ op = Op[line.cmd]
  BY <1>2, <1>3, ClientAssumption DEF Complete
<1> USE OpIsInjective DEF Covered
<1>4. op = "CREATE_ZONE" => name \in Names
  BY <1>3
<1>5. op = "ENTER_ZONE" => name \in Names
  BY <1>3
<1>6. op = "UPLOAD" => name \in RemoteNames
  BY <1>3
<1>7. op = "COMMAND" /\ name[1] = "cd" => Tail(name) \in Directories
  BY <1>3
<1>8. CASE op = "CREATE_ZONE" /\ handleCreateZone(me, name, reply)
  BY <1>4, <1>8 DEF Handles
<1>9. CASE op = "ENTER_ZONE" /\ handleEnterZone(me, name, reply)
  BY <1>5, <1>9 DEF Handles
<1>10. CASE handleLeaveZone(me, reply)
  BY <1>10 DEF Handles
<1>11. CASE op = "COMMAND" /\ COMMAND(name, reply)
  BY <1>7, <1>11 DEF COMMAND, Handles
<1>12. CASE /\ op = "UPLOAD"
            /\ \E j \in First(Carried(request)) :
                 handleUpload(me, name, <<request[j].text>>, reply)
  <2>1. PICK j \in First(Carried(request)) : handleUpload(me, name, <<request[j].text>>, reply)
    BY <1>12
  <2>2. j \in DOMAIN request /\ request[j].text # ""
    BY <1>0, <2>1, LenProperties DEF First, NonBlank, Carried, Texts
  <2>3. request[j].text \in Uploads
    BY <1>2, <1>12, <2>2
  <2>. QED
    BY <1>6, <1>12, <2>1, <2>3 DEF Handles
<1>13. CASE UNCHANGED workspaceVars
  BY <1>13
<1>. QED
  BY <1>8, <1>9, <1>10, <1>11, <1>12, <1>13 DEF handleRequest, handleDownload, request, op, name

LEMMA WorkspaceStep ==
  ASSUME ClientInv, SentTyped, ClientNext
  PROVE  [WorkspaceNext]_workspaceVars
<1>1. me \in Sessions
  BY ClientAssumption
<1>2. CASE Session
  <2>1. PICK i \in 1 .. Len(toServer), reply \in Replies :
          IsFirst(i, toServer) /\ handleRequest(FirstRequest(i), reply)
    BY <1>2 DEF Session, Answers
  <2>. QED
    BY <1>1, <2>1, HandlesRequest DEF WorkspaceNext
<1>3. CASE Disconnected
  <2>1. handleLeaveZone(me, "LEFT_ZONE")
    BY <1>3 DEF Disconnected, handleLeaveZone
  <2>2. "LEFT_ZONE" \in Replies
    BY DEF Replies
  <2>. QED
    BY <1>1, <2>1, <2>2 DEF WorkspaceNext, Handles
<1>4. CASE Neighbour \/ StrayStep
  BY <1>4 DEF Neighbour, StrayStep, WorkspaceNext
<1>5. CASE Console \/ Dying \/ NeighbourDying
  BY <1>5 DEF Console, Dying, NeighbourDying
<1>. QED
  BY <1>2, <1>3, <1>4, <1>5 DEF ClientNext

LEMMA SentInvariant == ClientSpec => [](ClientInv /\ SentTyped)
<1>1. ClientInit => ClientInv /\ SentTyped
  <2>1. ClientInit => toServer = <<>>
    BY DEF ClientInit, WireInit
  <2>. QED
    BY <2>1, ClientInitInv DEF SentTyped
<1>2. ClientInv /\ SentTyped /\ [ClientNext]_clientVars => (ClientInv /\ SentTyped)'
  <2>1. SentTyped /\ UNCHANGED clientVars => SentTyped'
    BY DEF clientVars, wireVars, SentTyped, Sendable
  <2>. QED
    BY <2>1, SentStep, ClientStep
<1>. QED
  BY <1>1, <1>2, PTL DEF ClientSpec

\* The whole program, with what a user types and what the sessions take from
\* the connections, implements the workspaces: a step of a handler is one of
\* Workspace's, and everything else leaves the zones and their files alone.
THEOREM ClientImplementsWorkspace == ClientSpec => WorkspaceSpec
<1>1. ClientInit => WorkspaceInit
  BY DEF ClientInit
<1>2. ClientInv /\ SentTyped /\ [ClientNext]_clientVars => [WorkspaceNext]_workspaceVars
  BY WorkspaceStep DEF clientVars
<1>. QED
  BY <1>1, <1>2, SentInvariant, PTL DEF ClientSpec, WorkspaceSpec

\* So what was proved of the workspaces holds for every user and connection:
\* commands stay in their zones, uploads are kept, nobody works in a zone that
\* is not leased to him.
THEOREM ClientKeepsZones ==
  ClientSpec => /\ []CommandsStayHome /\ []UploadsAreKept
                /\ FreeZonesAreStill /\ LeasesItsZones
BY ClientImplementsWorkspace, StayHome, KeepsUploads, StillZones, WorkspaceRefinement, PTL

-----------------------------------------------------------------------------
\* The line that is stored is the first that is not blank.
LEMMA FirstOfContent ==
  ASSUME NEW content \in Seq(Text), NEW i \in First(content)
  PROVE  /\ i \in DOMAIN content /\ content[i] # ""
         /\ \A j \in 1 .. i - 1 : content[j] = ""
<1> DEFINE n == Len(content)
<1>1. DOMAIN content = 1 .. n /\ n \in Nat
  BY LenProperties
<1>2. i \in 1 .. n /\ content[i] # ""
  BY <1>1 DEF First, NonBlank
<1>3. ASSUME NEW k \in 1 .. n, k = i, NEW j \in 1 .. k - 1 PROVE content[j] = ""
  <2> HIDE DEF n
  <2>1. j \in 1 .. n /\ ~(k <= j)
    BY <1>1
  <2>. QED
    BY <1>1, <1>3, <2>1 DEF First, NonBlank
<1>. QED
  BY <1>1, <1>2, <1>3

\* What an upload leaves of a content.
Stored(content) == {<<content[i]>> : i \in First(content)}

(***************************************************************************)
(* What the console says.  Right(op, lines) is what a response with first  *)
(* word op and text lines says of the zone and the file of the command it  *)
(* answers.  TrackInv follows it: from the handler that has just done it,  *)
(* over the connection, to the console that has printed it.                *)
(***************************************************************************)
Right(op, lines) ==
  /\ input.cmd = "upload" /\ op = "UPLOAD_OK" =>
       \A f \in DOMAIN kept[me] :
         f = Normal(path[me] \o input.name) => kept[me][f] \in Stored(input.content)
  /\ input.cmd = "enter_zone" /\ op = "ENTERED_ZONE" => InZone(me) /\ path[me] = input.name
  /\ input.cmd = "leave_zone" /\ op = "LEFT_ZONE" => ~InZone(me)
  /\ input.cmd = "download" /\ op = "DOWNLOAD" =>
       \A f \in DOMAIN kept[me] :
         f = Normal(path[me] \o input.name) => lines = Append(kept[me][f], "")

\* The first word of the response, as far as the console has noticed it.
Heard ==
  CASE input.cmd = "download" -> IF told = "File downloaded successfully" THEN "DOWNLOAD" ELSE ""
    [] input.cmd = "upload"   -> IF told = "File uploaded successfully" THEN got[1].op ELSE ""
    [] OTHER                  -> told

Settled ==
  /\ ~asking /\ toServer = <<>> /\ toClient = <<>>
  /\ console = "prompt" => Right(Heard, saved)

Asks ==
  /\ asking /\ connected /\ toClient = <<>>
  /\ Complete(input) /\ Clean(Request(input)) /\ toServer = Framed(Request(input))

Gone == asking /\ ~connected /\ toServer = <<>> /\ toClient = <<>>

AnsweredRight == Answered /\ Right(answer[1].op, Carried(answer))

TrackInv ==
  /\ console \in {"prompt", "exited"} /\ (asking => console = "prompt")
  /\ clean => Settled \/ Asks \/ Gone \/ AnsweredRight \/ Stuck

\* What the session of the client keeps while others act: its zone, and what is
\* still recorded of its uploads.
LEMMA LeftAlone ==
  ASSUME HomeInv, Neighbour \/ StrayStep
  PROVE  /\ path'[me] = path[me]
         /\ \A f \in DOMAIN kept'[me] : f \in DOMAIN kept[me] /\ kept'[me][f] = kept[me][f]
<1>0. me \in Sessions
  BY ClientAssumption
<1>1. CASE Neighbour
  <2>1. PICK s \in Sessions \ {me} : Handles(s)
    BY <1>1 DEF Neighbour
  <2>2. path'[me] = path[me] /\ kept'[me] = kept[me]
    BY <1>0, <2>1 DEF HomeInv, Handles, handleCreateZone, handleEnterZone, Entered,
                      handleLeaveZone, Left, changeDirectory, runCommand, handleUpload,
                      workspaceVars
  <2>. QED
    BY <2>2
<1>2. CASE StrayStep
  BY <1>0, <1>2 DEF StrayStep, Stray, KeepUntouched, Without
<1>. QED
  BY <1>1, <1>2

\* A text and one line more.
LEMMA TextAppended ==
  ASSUME NEW text \in Seq(Text), NEW last \in Text
  PROVE  /\ Append(text, last) \in Seq(Text) /\ Len(Append(text, last)) = Len(text) + 1
         /\ Append(text, last)[Len(text) + 1] = last
         /\ \A i \in 1 .. Len(text) : Append(text, last)[i] = text[i]
BY AppendProperties

\* What is carried by a request.
LEMMA CarriedRequest ==
  ASSUME NEW op, NEW name, NEW content \in Seq(Text)
  PROVE  Carried(Message(op, name, content)) = content
<1> DEFINE m == Message(op, name, content)
<1>1. /\ DOMAIN m = 1 .. Len(content)
      /\ \A i \in 1 .. Len(content) :
           m[i] = IF i = 1 THEN Words(op, name, content[1]) ELSE Plain(content[i])
  BY MessageLines
<1>2. \A i \in 1 .. Len(content) : m[i].text = content[i]
  <2> HIDE DEF m
  <2>1. Words(op, name, content[1]).text = content[1]
    BY DEF Words
  <2>. QED
    BY <1>1, <2>1, PlainFields
<1>3. Len(m) = Len(content)
  BY DEF Message
<1>4. Carried(m) = [i \in 1 .. Len(content) |-> content[i]]
  <2> HIDE DEF m
  <2>. QED
    BY <1>2, <1>3 DEF Carried
<1>5. DOMAIN content = 1 .. Len(content) /\ content = [i \in DOMAIN content |-> content[i]]
  BY LenProperties
<1>. QED
  BY <1>4, <1>5

\* What is carried by a message and the newline behind it.
LEMMA CarriedMessage ==
  ASSUME NEW op \in Replies, NEW content \in Seq(Text) \ {<<>>}
  PROVE  LET a == Append(Message(op, <<>>, content), Blank) IN
         a \in Texts /\ a[1].op = op /\ Carried(a) = Append(content, "")
<1> DEFINE m == Message(op, <<>>, content)
           n == Len(content)
           a == Append(m, Blank)
           c == Append(content, "")
<1>1. /\ DOMAIN m = 1 .. n
      /\ \A i \in 1 .. n : m[i] = IF i = 1 THEN Words(op, <<>>, content[1]) ELSE Plain(content[i])
  BY MessageLines
<1>2. m \in Texts /\ Blank \in Line
  BY MessageIsText, WireAssumption
<1>3. n \in Nat \ {0} /\ \A i \in 1 .. n : content[i] \in Text
  BY EmptySeq, LenProperties, ElementOfSeq
<1>4. m[1].op = op /\ \A i \in 1 .. n : m[i].text = content[i]
  <2> HIDE DEF m, n, a, c
  <2>1. m[1] = Words(op, <<>>, content[1])
    BY <1>1, <1>3
  <2>2. m[1].op = op /\ m[1].text = content[1]
    BY <2>1 DEF Words
  <2>3. ASSUME NEW i \in 1 .. n, i # 1 PROVE m[i].text = content[i]
    BY <1>1, <2>3, PlainFields
  <2>. QED
    BY <2>2, <2>3
<1> HIDE DEF m, n
<1>5. Len(m) = n
  BY <1>1, <1>2, <1>3, LenProperties DEF Texts
<1>6. /\ a \in Seq(Line) /\ Len(a) = n + 1 /\ a[n + 1] = Blank
      /\ \A i \in 1 .. n : a[i] = m[i]
  BY <1>2, <1>5, AppendProperties DEF Texts
<1>7. /\ c \in Seq(Text) /\ Len(c) = n + 1 /\ c[n + 1] = ""
      /\ \A i \in 1 .. n : c[i] = content[i]
  <2> HIDE DEF a, m
  <2>1. content \in Seq(Text) /\ "" \in Text
    BY ClientAssumption
  <2>2. /\ c \in Seq(Text) /\ Len(c) = Len(content) + 1 /\ c[Len(content) + 1] = ""
        /\ \A i \in 1 .. Len(content) : c[i] = content[i]
    BY <2>1, TextAppended
  <2> HIDE DEF c
  <2>. QED
    BY <2>2 DEF n
<1> HIDE DEF a, c
<1>8. Blank.text = ""
  BY ClientAssumption, PlainFields
<1>9. \A i \in 1 .. n + 1 : a[i].text = c[i]
  <2>1. \A i \in 1 .. n + 1 : i \in 1 .. n \/ i = n + 1
    BY <1>3
  <2>. QED
    BY <1>4, <1>6, <1>7, <1>8, <2>1
<1>10. Carried(a) = c
  <2>1. Carried(a) = [i \in 1 .. n + 1 |-> a[i].text]
    BY <1>6 DEF Carried
  <2>2. DOMAIN c = 1 .. n + 1 /\ c = [i \in DOMAIN c |-> c[i]]
    BY <1>7, LenProperties
  <2>. QED
    BY <1>9, <2>1, <2>2
<1>11. a \in Texts /\ a[1].op = op
  BY <1>3, <1>4, <1>6 DEF Texts
<1>. QED
  BY <1>10, <1>11 DEF a, m, c

\* A response begins with its reply, and one to a download carries the file.
LEMMA ResponseBegins ==
  ASSUME ClientInv, NEW i \in 1 .. Len(toServer), NEW reply \in Replies, NEW output \in Outputs,
         handleRequest(FirstRequest(i), reply)
  PROVE  LET a == Append(Response(FirstRequest(i), reply, output), Blank) IN
         /\ a \in Texts /\ a[1].op = reply
         /\ reply = "DOWNLOAD" =>
              Carried(a) = Append(files[Normal(path[me] \o FirstRequest(i)[1].name)], "")
<1> DEFINE request == FirstRequest(i)
           f == Normal(path[me] \o request[1].name)
           a == Append(Response(request, reply, output), Blank)
<1>1. ASSUME NEW content \in Seq(Text) \ {<<>>},
             Response(request, reply, output) = Message(reply, <<>>, content)
      PROVE  a \in Texts /\ a[1].op = reply /\ Carried(a) = Append(content, "")
  BY <1>1, CarriedMessage
<1> HIDE DEF a
<1>2. CASE reply = "DOWNLOAD"
  <2>1. f \in DOMAIN files
    BY <1>2 DEF handleRequest, handleCreateZone, handleEnterZone, handleLeaveZone, COMMAND,
       changeDirectory, runCommand, handleUpload, handleDownload, Readable
  <2>2. files[f] \in Seq(Text) \ {<<>>}
    BY <2>1 DEF ClientInv, FilesOK
  <2>3. Response(request, reply, output) = Message(reply, <<>>, files[f])
    BY <1>2 DEF Response
  <2>. QED
    BY <1>1, <2>2, <2>3 DEF a
<1>3. CASE reply = "CMD_RESULT"
  <2> DEFINE c == <<"">> \o output
  <2>1. c \in Seq(Text) \ {<<>>}
    BY OutputIsContent
  <2>2. Response(request, reply, output) = Message(reply, <<>>, c)
    BY <1>3 DEF Response
  <2>. QED
    BY <1>1, <1>3, <2>1, <2>2 DEF a
<1>4. CASE reply \notin {"DOWNLOAD", "CMD_RESULT"}
  <2>1. Response(request, reply, output) = Message(reply, <<>>, <<"">>)
    BY <1>4 DEF Response
  <2>. QED
    BY <1>1, <1>4, <2>1, EmptyContent DEF a
<1>. QED
  BY <1>2, <1>3, <1>4 DEF a

\* A line that asks for nothing answers itself; one that does is sent.
LEMMA TrackTyping ==
  ASSUME ClientInv, TrackInv, UNCHANGED workspaceVars,
         Continue \/ Exit \/ Help \/ Unknown \/ Missing \/ handleCommand
  PROVE  TrackInv'
<1>1. console = "prompt" /\ ~asking /\ (clean' => clean /\ Settled)
  <2>1. AtPrompt /\ (clean' => clean)
    <3>1. CASE Continue \/ Exit \/ Help \/ Unknown \/ Missing
      <4>1. AtPrompt /\ UNCHANGED wireVars
        BY <3>1 DEF Continue, Exit, Help, Unknown, Missing, Prints
      <4>. QED
        BY <4>1 DEF wireVars
    <3>2. CASE handleCommand
      <4>1. AtPrompt /\ clean' = (clean /\ Clean(Request(input')))
        BY <3>2 DEF handleCommand, Ask
      <4>. QED
        BY <4>1
    <3>. QED
      BY <3>1, <3>2
  <2>2. clean => Settled
    BY <2>1 DEF TrackInv, AtPrompt, Asks, Gone, AnsweredRight, Answered, Stuck
  <2>. QED
    BY <2>1, <2>2 DEF AtPrompt
<1>2. CASE Continue \/ Help \/ Unknown \/ Missing
  <2>1. UNCHANGED <<asking, toServer, toClient, console>> /\ saved' = <<>>
    BY <1>2 DEF Continue, Help, Unknown, Missing, Prints, wireVars
  <2>2. told' \in {"", "Available commands", "Unknown command", "Error"}
    BY <1>2 DEF Continue, Help, Unknown, Missing, Prints
  <2>3. Right(Heard, saved)'
    BY <2>2 DEF Right, Heard
  <2>. QED
    BY <1>1, <2>1, <2>3 DEF TrackInv, Settled
<1>3. CASE Exit
  BY <1>1, <1>3 DEF Exit, wireVars, TrackInv, Settled
<1>4. CASE handleCommand
  <2> DEFINE text == Request(input')
  <2>1. Ask(text) /\ UNCHANGED console
    BY <1>4 DEF handleCommand
  <2>2. Complete(input')
    <3>1. input' \in Typed \cup {EmptyLine}
      BY <1>4, ConsoleWire DEF InputOK, Console, ConsoleStep
    <3>2. EmptyLine.cmd \notin DOMAIN Op
      BY DEF EmptyLine, Op
    <3>. QED
      BY <1>4, <3>1, <3>2 DEF handleCommand, Complete
  <2>3. text \in Texts
    BY <2>2, RequestIsText DEF Complete
  <2>4. Framed(text) \in Seq(Line)
    <3> HIDE DEF text
    <3>. QED
      BY <2>3, WireAssumption, AppendProperties DEF Framed, Texts
  <2>5. ASSUME clean' PROVE Asks' \/ Gone'
    <3>1. toServer = <<>> /\ toClient = <<>> /\ Clean(text)
      BY <1>1, <2>1, <2>5 DEF Settled, Ask, ClientInv, WireInv, WireTypeOK
    <3>2. CASE connected
      <4>1. toServer' = Framed(text) /\ toClient' = <<>> /\ asking' /\ connected'
        BY <2>1, <2>4, <3>1, <3>2, ConcatEmptySeq DEF Ask
      <4>. QED
        BY <2>2, <3>1, <4>1 DEF Asks, Complete, Incomplete, Clean, Delimiters, Framed, Request,
                                Message
    <3>3. CASE ~connected
      BY <2>1, <3>1, <3>3 DEF Ask, Gone
    <3>. QED
      BY <3>2, <3>3
  <2>. QED
    BY <1>1, <2>1, <2>5 DEF TrackInv, Ask
<1>. QED
  BY <1>2, <1>3, <1>4

\* What send_command returns is what the handler has answered.
LEMMA TrackReturn ==
  ASSUME ClientInv, TrackInv, UNCHANGED workspaceVars, Returns \/ Throws
  PROVE  TrackInv'
<1>0. console = "prompt" /\ console' = console /\ ~asking' /\ clean' = clean
  BY DEF TrackInv, Returns, Throws, Receive, Fail
<1>1. ASSUME clean, Returns PROVE Settled'
  <2>1. WireTypeOK /\ Receive /\ asking
    BY <1>1 DEF ClientInv, WireInv, Returns, Receive
  <2>2. AnsweredRight
    BY <1>1, <2>1, ReceiveNeeds, NoDelimiters DEF TrackInv, Settled, Asks, Gone, Stuck
  <2>3. got' = answer /\ toClient' = <<>> /\ toServer' = <<>>
    BY <2>1, <2>2, ReceiveAnswer DEF AnsweredRight, Answered, Receive
  <2>4. /\ told' = Shown(input, answer) /\ input' = input
        /\ told' = "File downloaded successfully" => saved' = Carried(answer)
    BY <1>1, <2>3 DEF Returns
  <2>5. Right(answer[1].op, Carried(answer)) /\ UNCHANGED <<path, kept>>
    BY <2>2 DEF AnsweredRight, workspaceVars
  <2>6. Right(Heard, saved)'
    <3> DEFINE op == answer[1].op
               lines == Carried(answer)
    <3>1. CASE input.cmd = "download"
      <4>1. told' = IF op = "DOWNLOAD" THEN "File downloaded successfully" ELSE "Error"
        BY <2>4, <3>1 DEF Shown
      <4>2. CASE op = "DOWNLOAD"
        <5>1. Heard' = op /\ saved' = lines
          BY <2>4, <3>1, <4>1, <4>2 DEF Heard
        <5>. QED
          BY <2>4, <2>5, <5>1 DEF Right, InZone
      <4>3. CASE op # "DOWNLOAD"
        BY <2>4, <3>1, <4>1, <4>3 DEF Heard, Right
      <4>. QED
        BY <4>2, <4>3
    <3>2. CASE input.cmd = "upload"
      <4>1. Heard' = op
        BY <2>3, <2>4, <3>2 DEF Shown, Heard
      <4>. QED
        BY <2>4, <2>5, <3>2, <4>1 DEF Right, InZone
    <3>3. CASE input.cmd \in {"enter_zone", "leave_zone"}
      <4>1. told' = op /\ Heard' = told'
        BY <2>4, <3>3 DEF Shown, Heard
      <4>. QED
        BY <2>4, <2>5, <3>3, <4>1 DEF Right, InZone
    <3>4. CASE input.cmd \notin {"enter_zone", "leave_zone", "upload", "download"}
      BY <2>4, <3>4 DEF Right
    <3>. QED
      BY <3>1, <3>2, <3>3, <3>4
  <2>. QED
    BY <1>0, <2>3, <2>6 DEF Settled
<1>2. ASSUME clean, Throws PROVE Settled'
  <2>1. asking /\ ~connected
    BY <1>2 DEF Throws, Fail
  <2>2. toServer = <<>>
    BY <1>2, <2>1 DEF TrackInv, Settled, Asks, Gone, AnsweredRight, Answered, Stuck
  <2>3. Right(Heard, saved)'
    BY <1>2 DEF Throws, Right, Heard
  <2>. QED
    BY <1>0, <1>2, <2>2, <2>3 DEF Settled, Throws, Fail
<1>. QED
  BY <1>0, <1>1, <1>2 DEF TrackInv

\* The handler's answer is true when it is given.
LEMMA RightAnswer ==
  ASSUME HomeInv, NEW request, NEW reply \in Replies, handleRequest(request, reply),
         Complete(input), UNCHANGED input, request[1].op = Op[input.cmd],
         request[1].name = input.name, Carried(request) = input.content, NEW lines,
         reply = "DOWNLOAD" => lines = Append(files[Normal(path[me] \o input.name)], "")
  PROVE  Right(reply, lines)'
<1>1. me \in Sessions /\ path \in [Sessions -> Names \cup {None}] /\ Kept(me)
  BY ClientAssumption DEF HomeInv
<1>2. CASE input.cmd = "enter_zone" /\ reply = "ENTERED_ZONE"
  <2>1. handleEnterZone(me, input.name, reply)
    BY <1>2 DEF handleRequest, Op, handleCreateZone, handleLeaveZone, COMMAND, changeDirectory,
                runCommand, handleUpload, handleDownload
  <2>2. path' = [path EXCEPT ![me] = input.name]
    BY <1>2, <2>1 DEF handleEnterZone, Entered
  <2>3. input.name # None
    BY <1>2 DEF Complete, Incomplete, None
  <2>. QED
    BY <1>1, <1>2, <2>2, <2>3 DEF Right, InZone
<1>3. CASE input.cmd = "leave_zone" /\ reply = "LEFT_ZONE"
  <2>1. handleLeaveZone(me, reply)
    BY <1>3 DEF handleRequest, Op
  <2>2. path' = [path EXCEPT ![me] = None]
    BY <1>3, <2>1 DEF handleLeaveZone, Left
  <2>. QED
    BY <1>1, <1>3, <2>2 DEF Right, InZone
<1>4. CASE input.cmd = "download" /\ reply = "DOWNLOAD"
  <2>1. handleDownload(me, input.name, reply)
    BY <1>4 DEF handleRequest, handleCreateZone, handleEnterZone, handleLeaveZone, COMMAND,
                changeDirectory, runCommand, handleUpload
  <2>2. UNCHANGED workspaceVars
    BY <2>1 DEF handleDownload
  <2>. QED
    BY <1>1, <1>4, <2>2 DEF Right, Kept, workspaceVars
<1>5. CASE input.cmd = "upload" /\ reply = "UPLOAD_OK"
  <2>1. request[1].op = "UPLOAD"
    BY <1>5 DEF Op
  <2>2. PICK i \in First(Carried(request)) :
          handleUpload(me, input.name, <<request[i].text>>, reply)
    BY <1>5, <2>1 DEF handleRequest
  <2> DEFINE p == Normal(path[me] \o input.name)
  <2>3. /\ path' = path
        /\ kept' = [kept EXCEPT ![me] = With(kept[me], p, <<request[i].text>>)]
    BY <1>5, <2>2 DEF handleUpload
  <2>4. request[i].text = input.content[i]
    BY <2>2 DEF Carried, First, NonBlank
  <2>5. <<request[i].text>> \in Stored(input.content)
    BY <2>2, <2>4 DEF Stored
  <2>6. DOMAIN kept = Sessions
    BY DEF HomeInv
  <2> HIDE DEF p
  <2>7. kept'[me] = With(kept[me], p, <<request[i].text>>)
    BY <1>1, <2>3, <2>6
  <2>8. \A f \in DOMAIN kept'[me] : f = p => kept'[me][f] = <<request[i].text>>
    BY <2>7 DEF With
  <2>. QED
    BY <1>5, <2>3, <2>5, <2>8 DEF Right, p, Stored
<1>. QED
  BY <1>2, <1>3, <1>4, <1>5 DEF Right

\* The handler has taken the one request there is.
LEMMA TrackAnswer ==
  ASSUME HomeInv, ClientInv, SentTyped, TrackInv, Session
  PROVE  TrackInv'
<1>1. PICK i \in 1 .. Len(toServer), reply \in Replies, output \in Outputs :
        /\ IsFirst(i, toServer)
        /\ handleRequest(FirstRequest(i), reply)
        /\ Respond(i, Response(FirstRequest(i), reply, output))
  BY DEF Session, Answers
<1> DEFINE request == FirstRequest(i)
           response == Response(request, reply, output)
<1>2. UNCHANGED <<console, input, asking>> /\ clean' = (clean /\ Clean(answer'))
  BY <1>1 DEF Session, consoleVars, Respond
<1>3. ASSUME clean, Clean(answer') PROVE AnsweredRight' \/ Stuck'
  <2>1. Asks
    BY <1>1, <1>3, NoDelimiters DEF TrackInv, IsFirst, Settled, Gone, AnsweredRight, Answered,
                                    Stuck
  <2> DEFINE text == Request(input)
  <2>2. text \in Texts /\ Clean(text) /\ toServer = Framed(text) /\ Complete(input)
    BY <2>1, RequestIsText DEF Asks, Complete
  <2>3. i = Len(text) + 1 /\ request = text /\ toServer' = <<>>
    <3> HIDE DEF text
    <3>1. Len(text) \in Nat /\ Delimiters(toServer) = {Len(text) + 1}
      BY <2>2, FramedDelimiters, LenProperties DEF Texts
    <3>2. i = Len(text) + 1
      BY <1>1, <3>1 DEF IsFirst
    <3>3. i - 1 = Len(text)
      BY <3>1, <3>2
    <3>. QED
      BY <1>1, <2>2, <3>2, <3>3, FramedDelimiters DEF FirstRequest, Respond, Taken
  <2>4. /\ request[1].op = Op[input.cmd] /\ request[1].name = input.name
        /\ Carried(request) = input.content
    <3> DEFINE content == input.content
    <3>1. content \in Seq(Text) \ {<<>>}
      BY <2>2, ClientAssumption DEF Complete
    <3>2. 1 \in 1 .. Len(content)
      BY <3>1, EmptySeq, LenProperties
    <3>3. text[1] = Words(Op[input.cmd], input.name, content[1])
      BY <3>1, <3>2, MessageLines DEF Request
    <3>4. Carried(text) = content
      BY <3>1, CarriedRequest DEF Request
    <3> HIDE DEF text, content
    <3>. QED
      BY <2>3, <3>3, <3>4 DEF Words, content
  <2>5. /\ answer' = Append(response, Blank) /\ answer' \in Texts /\ answer'[1].op = reply
        /\ reply = "DOWNLOAD" =>
             Carried(answer') = Append(files[Normal(path[me] \o input.name)], "")
    <3>1. answer' = Append(response, Blank)
      BY <1>1 DEF Respond
    <3> DEFINE a == Append(response, Blank)
    <3>2. /\ a \in Texts /\ a[1].op = reply
          /\ reply = "DOWNLOAD" =>
               Carried(a) = Append(files[Normal(path[me] \o request[1].name)], "")
      BY <1>1, ResponseBegins
    <3> HIDE DEF text, request, response
    <3>. QED
      BY <2>4, <3>1, <3>2
  <2>6. Right(answer[1].op, Carried(answer))'
    <3>1. PICK a : a = answer'
      OBVIOUS
    <3> DEFINE lines == Carried(a)
    <3>2. a[1].op = reply
      BY <2>5, <3>1
    <3>3. reply = "DOWNLOAD" => lines = Append(files[Normal(path[me] \o input.name)], "")
      BY <2>5, <3>1
    <3> HIDE DEF lines, request, response, text
    <3>4. handleRequest(request, reply) /\ UNCHANGED input
      BY <1>1, <1>2 DEF request
    <3>5. Right(reply, lines)'
      BY <2>2, <2>4, <3>3, <3>4, RightAnswer
    <3>. QED
      BY <3>1, <3>2, <3>5 DEF Right, InZone, Carried, lines
  <2>7. PICK out \in Sent(answer') : toClient' = toClient \o out
    BY <1>1 DEF Respond
  <2>8. out = Framed(answer') \/ (out \in Texts /\ Delimiters(out) = {})
    BY <1>3, <2>5, <2>7, SentShape
  <2>9. toClient' = out
    <3>1. out \in Seq(Line)
      BY <2>5, <2>8, FramedDelimiters, <1>3 DEF Texts
    <3>2. toClient = <<>>
      BY <2>1 DEF Asks
    <3>. QED
      BY <2>7, <3>1, <3>2, ConcatEmptySeq
  <2>10. asking'
    BY <1>2, <2>1 DEF Asks
  <2>11. CASE out = Framed(answer')
    BY <1>3, <2>3, <2>5, <2>6, <2>9, <2>10, <2>11
       DEF AnsweredRight, Answered, Framed, Clean, Delimiters
  <2>12. CASE out \in Texts /\ Delimiters(out) = {}
    BY <2>3, <2>9, <2>10, <2>12 DEF Stuck, Delimiters
  <2>. QED
    BY <2>8, <2>11, <2>12
<1>. QED
  BY <1>2, <1>3 DEF TrackInv

\* Nobody else touches what is under way, or makes untrue what it says.
LEMMA TrackOther ==
  ASSUME HomeInv, TrackInv,
         Dying \/ Disconnected \/ Neighbour \/ StrayStep \/ NeighbourDying
  PROVE  TrackInv'
<1>1. CASE Dying \/ NeighbourDying
  <2>1. /\ ~connected' /\ toServer' = <<>>
        /\ UNCHANGED <<toClient, asking, got, answer, clean, path, kept, console, input, told,
                        saved>>
    BY <1>1 DEF Dying, NeighbourDying, Break, workspaceVars, consoleVars
  <2>2. Settled => Settled'
    BY <2>1 DEF Settled, Right, Heard, InZone
  <2>3. Asks \/ Gone => Gone'
    BY <2>1 DEF Asks, Gone
  <2>4. AnsweredRight => AnsweredRight'
    BY <2>1 DEF AnsweredRight, Right, Carried, InZone, Answered, Framed, Clean, Delimiters
  <2>5. Stuck => Stuck'
    BY <2>1 DEF Stuck, Delimiters
  <2>. QED
    BY <2>1, <2>2, <2>3, <2>4, <2>5 DEF TrackInv
<1>2. CASE Disconnected
  <2>1. UNCHANGED <<wireVars, consoleVars>> /\ console = "exited"
    BY <1>2 DEF Disconnected
  <2>2. clean => Settled
    BY <2>1 DEF TrackInv, Asks, Gone, AnsweredRight, Answered, Stuck
  <2>3. ~asking /\ UNCHANGED <<asking, toServer, toClient, console, clean>>
    BY <2>1 DEF TrackInv, wireVars, consoleVars
  <2>. QED
    BY <2>1, <2>2, <2>3 DEF TrackInv, Settled
<1>3. CASE Neighbour \/ StrayStep
  <2>1. UNCHANGED <<wireVars, consoleVars>>
    BY <1>3 DEF Neighbour, StrayStep
  <2>2. ASSUME NEW op, NEW lines, Right(op, lines) PROVE Right(op, lines)'
    BY <1>3, <2>1, <2>2, LeftAlone DEF Right, consoleVars, InZone
  <2>. QED
    BY <2>1, <2>2 DEF TrackInv, wireVars, consoleVars, Settled, Asks, Gone, AnsweredRight,
                      Answered, Stuck, Heard, Carried, Framed, Clean, Delimiters
<1>. QED
  BY <1>1, <1>2, <1>3

LEMMA TrackStep ==
  ASSUME HomeInv, ClientInv, SentTyped, TrackInv, [ClientNext]_clientVars
  PROVE  TrackInv'
<1>1. CASE Console
  BY <1>1, TrackTyping, TrackReturn DEF Console, ConsoleStep
<1>2. CASE Session
  BY <1>2, TrackAnswer
<1>3. CASE Dying \/ Disconnected \/ Neighbour \/ StrayStep \/ NeighbourDying
  BY <1>3, TrackOther
<1>4. CASE UNCHANGED clientVars
  <2>1. UNCHANGED <<wireVars, consoleVars, path, kept>>
    BY <1>4 DEF clientVars, workspaceVars
  <2>2. UNCHANGED <<asking, connected, clean, toServer, toClient, got, answer, console, input, told,
                    saved, path, kept>>
    BY <2>1 DEF wireVars, consoleVars
  <2>. QED
    BY <2>2 DEF TrackInv, Settled, Asks, Gone, AnsweredRight, Answered, Stuck, Right, Heard,
                Carried, InZone, Framed, Clean, Delimiters
<1>. QED
  BY <1>1, <1>2, <1>3, <1>4 DEF ClientNext

\* From the first line that is typed to the last, what is on the connection and
\* on the console is true of the workspaces.
LEMMA TrackInvariant == ClientSpec => [](HomeInv /\ TrackInv)
<1>1. ClientInit => HomeInv /\ TrackInv
  <2>1. ClientInit => HomeInv
    BY HomeInitInv DEF ClientInit
  <2>2. ClientInit => Settled
    <3>1. ClientInit => input = EmptyLine /\ ~asking /\ toServer = <<>> /\ toClient = <<>>
      BY DEF ClientInit, WireInit
    <3>2. EmptyLine.cmd = ""
      BY DEF EmptyLine
    <3>3. input.cmd = "" => Right(Heard, saved)
      BY DEF Right
    <3>. QED
      BY <3>1, <3>2, <3>3 DEF Settled
  <2>. QED
    BY <2>1, <2>2 DEF ClientInit, WireInit, TrackInv
<1>2. ClientInv /\ SentTyped /\ HomeInv /\ TrackInv /\ [ClientNext]_clientVars
        => (HomeInv /\ TrackInv)'
  <2>1. ClientInv /\ SentTyped /\ [ClientNext]_clientVars => [WorkspaceNext]_workspaceVars
    BY WorkspaceStep DEF clientVars
  <2>. QED
    BY <2>1, HomeStep, TrackStep
<1>. QED
  BY <1>1, <1>2, SentInvariant, PTL DEF ClientSpec

LEMMA Confirmed ==
  ASSUME TrackInv, clean, AtPrompt
  PROVE  Right(Heard, saved)
BY DEF TrackInv, AtPrompt, Settled, Asks, Gone, AnsweredRight, Answered, Stuck

\* Whatever is typed, and whatever the other sessions and left processes do
\* meanwhile: after "ENTERED_ZONE" the session is in the zone that was typed,
\* after "LEFT_ZONE" in none.
THEOREM ConsoleIsRight == ClientSpec => []ToldWhereItIs
<1>1. HomeInv /\ TrackInv => ToldWhereItIs
  <2> SUFFICES ASSUME HomeInv, TrackInv, clean, AtPrompt
               PROVE  /\ input.cmd = "enter_zone" /\ told = "ENTERED_ZONE" =>
                           path[me] = input.name /\ input.name \in occupied
                      /\ input.cmd = "leave_zone" /\ told = "LEFT_ZONE" => ~InZone(me)
    BY DEF ToldWhereItIs
  <2>1. Right(Heard, saved) /\ Housed(me)
    BY Confirmed, ClientAssumption DEF HomeInv
  <2>. QED
    BY <2>1 DEF Right, Heard, Housed
<1>. QED
  BY <1>1, TrackInvariant, PTL

\* Whatever is typed and whoever else is at work: an uploaded file has the first
\* line of the local file that is not blank, and nothing more, and until a
\* command touches it this line, with the newline of do_read, is what comes back.
THEOREM DownloadsComeBack == ClientSpec => []DownloadsAreExact
<1>1. ClientInv /\ TrackInv => DownloadsAreExact
  <2> SUFFICES ASSUME ClientInv, TrackInv, clean, AtPrompt,
                      NEW f \in DOMAIN kept[me], f = Normal(path[me] \o input.name)
               PROVE  /\ input.cmd = "upload" /\ told = "File uploaded successfully"
                           /\ got[1].op = "UPLOAD_OK" =>
                           \E i \in DOMAIN input.content :
                             /\ input.content[i] # ""
                             /\ \A j \in 1 .. i - 1 : input.content[j] = ""
                             /\ kept[me][f] = <<input.content[i]>>
                      /\ input.cmd = "download" /\ told = "File downloaded successfully" =>
                           saved = Append(kept[me][f], "")
    BY DEF DownloadsAreExact
  <2>1. Right(Heard, saved)
    BY Confirmed
  <2>2. CASE input.cmd = "upload" /\ told = "File uploaded successfully"
    <3>1. Heard = got[1].op
      BY <2>2 DEF Heard
    <3>2. SUFFICES ASSUME got[1].op = "UPLOAD_OK"
                   PROVE  \E i \in DOMAIN input.content :
                            /\ input.content[i] # ""
                            /\ \A j \in 1 .. i - 1 : input.content[j] = ""
                            /\ kept[me][f] = <<input.content[i]>>
      BY <2>2
    <3>3. PICK i \in First(input.content) : kept[me][f] = <<input.content[i]>>
      BY <2>1, <2>2, <3>1, <3>2 DEF Right, Stored
    <3>4. input.content \in Seq(Text)
      <4>1. EmptyLine.cmd # "upload"
        BY DEF EmptyLine
      <4>. QED
        BY <2>2, <4>1, ClientAssumption DEF ClientInv, InputOK
    <3>. QED
      BY <3>3, <3>4, FirstOfContent
  <2>3. CASE input.cmd = "download" /\ told = "File downloaded successfully"
    <3>1. Heard = "DOWNLOAD"
      BY <2>3 DEF Heard
    <3>. QED
      BY <2>1, <2>3, <3>1 DEF Right
  <2>. QED
    BY <2>2, <2>3
<1>. QED
  BY <1>1, SentInvariant, TrackInvariant, PTL

-----------------------------------------------------------------------------
\* The types.
StdinOK == stdin \in {"open", "cut", "ended"}

SavedOK == saved \in Seq(Text)

LEMMA CarriedIsText ==
  ASSUME NEW lines \in Seq(Line)
  PROVE  Carried(lines) \in Seq(Text)
<1>1. Len(lines) \in Nat /\ \A i \in 1 .. Len(lines) : lines[i] \in Line
  BY LenProperties, ElementOfSeq
<1>2. \A l \in Line : l.text \in Text
  BY ClientAssumption DEF Lines
<1>3. Carried(lines) \in [1 .. Len(lines) -> Text]
  BY <1>1, <1>2 DEF Carried
<1>. QED
  BY <1>1, <1>3, FunctionIsSeq

LEMMA ConsoleTypes ==
  ASSUME ClientInv', StdinOK, SavedOK, [ClientNext]_clientVars
  PROVE  StdinOK' /\ SavedOK'
<1>1. Carried(got') \in Seq(Text) /\ <<>> \in Seq(Text)
  <2>1. got' \in Seq(Line)
    BY DEF ClientInv, WireInv, WireTypeOK
  <2>. QED
    BY <2>1, CarriedIsText, EmptySeq
<1>2. CASE Console
  <2>1. StdinOK'
    BY <1>2 DEF Console, ConsoleStep, Continue, Exit, Help, Unknown, Missing, handleCommand,
                Returns, Throws, getline, StdinOK
  <2>2. saved' \in {saved, <<>>, Carried(got')}
    BY <1>2 DEF Console, ConsoleStep, Continue, Exit, Help, Unknown, Missing, Prints,
                handleCommand, Returns, Throws
  <2>. QED
    BY <1>1, <2>1, <2>2 DEF SavedOK
<1>3. CASE ClientNext /\ ~Console
  BY <1>3 DEF ClientNext, Session, Dying, Disconnected, Neighbour, StrayStep, NeighbourDying,
              consoleVars, StdinOK, SavedOK
<1>4. CASE UNCHANGED clientVars
  BY <1>4 DEF clientVars, consoleVars, StdinOK, SavedOK
<1>. QED
  BY <1>2, <1>3, <1>4

\* The console, the connection and the workspaces stay within their types.
THEOREM ClientTypeCorrect == ClientSpec => []ClientTypeOK
<1>1. ClientSpec => [](StdinOK /\ SavedOK)
  <2>1. ClientInit => StdinOK /\ SavedOK
    BY EmptySeq DEF ClientInit, StdinOK, SavedOK
  <2>2. ClientInv' /\ StdinOK /\ SavedOK /\ [ClientNext]_clientVars => (StdinOK /\ SavedOK)'
    BY ConsoleTypes
  <2>. QED
    BY <2>1, <2>2, SentInvariant, PTL DEF ClientSpec
<1>2. ClientSpec => []WorkspaceTypeOK
  BY ClientImplementsWorkspace, WorkspaceTypeCorrect, PTL
<1>3. ClientInv /\ TrackInv /\ WorkspaceTypeOK /\ StdinOK /\ SavedOK => ClientTypeOK
  BY DEF ClientInv, WireInv, TrackInv, InputOK, StdinOK, SavedOK, ClientTypeOK
<1>. QED
  BY <1>1, <1>2, <1>3, SentInvariant, TrackInvariant, PTL
=============================================================================
