------------------------------- MODULE Client -------------------------------
(***************************************************************************)
(* A client program (client/main.cpp, client/UserCommandHandler.cpp, the   *)
(* member functions of client/Client.cpp), its connection, and the server  *)
(* behind it: what a user types goes over the wire to the session `me',    *)
(* which handles one request after the other, while the other sessions and *)
(* the processes that commands left go on.                                 *)
(*                                                                         *)
(* A line of text is a record: the first words of a request or response    *)
(* (op, name) and the text behind them; plain text has no words.           *)
(***************************************************************************)
EXTENDS Wire, Workspace

CONSTANTS
  me,          \* the session that serves this client
  Typed,       \* the lines a user may type: a command, a name, a local file
  Outputs,     \* what commands print
  MaxUnread    \* bound: no request is sent while more lines are under way

Words(op, name, text) == [op |-> op, name |-> name, text |-> text]

Plain(text) == Words("", <<>>, text)

\* "op name content": the content begins in the line of the words.
Message(op, name, content) ==
  [i \in 1 .. Len(content) |->
     IF i = 1 THEN Words(op, name, content[1]) ELSE Plain(content[i])]

\* What is behind the words.
Carried(message) == [i \in 1 .. Len(message) |-> message[i].text]

Op == [create_zone |-> "CREATE_ZONE", enter_zone |-> "ENTER_ZONE",
       leave_zone |-> "LEAVE_ZONE", list_zones |-> "LIST_ZONES",
       command |-> "COMMAND", upload |-> "UPLOAD", download |-> "DOWNLOAD"]

\* A line is a command, its argument (<<>> when it is left out) and the content
\* of the local file it names, <<"">> when there is none.
EmptyLine == [cmd |-> "", name |-> <<>>, content |-> <<"">>]

Lines ==
  [op : {Op[c] : c \in DOMAIN Op} \cup Replies \cup {""},
   name : {line.name : line \in Typed} \cup {<<>>},
   text : Text]

Incomplete(line) ==
  line.cmd \in {"create_zone", "enter_zone", "command", "download", "upload"} /\ line.name = <<>>

\* The lines typed use the names, directories and texts of all requests.
Covered(line) ==
  /\ line.cmd \in {"create_zone", "enter_zone"} /\ ~Incomplete(line) => line.name \in Names
  /\ line.cmd = "upload" /\ ~Incomplete(line) => line.name \in RemoteNames
  /\ line.cmd = "command" /\ ~Incomplete(line) /\ line.name[1] = "cd" =>
       Tail(line.name) \in Directories
  /\ \A i \in DOMAIN line.content :
       line.content[i] \in Uploads \cup {""} \/ (i > 1 /\ line.content[i] = "END_CMD")

ASSUME ClientAssumption ==
  /\ me \in Sessions
  /\ Line = Lines
  /\ Marker = Plain("END_CMD") /\ Blank = Plain("")
  /\ "" \in Text
  /\ Outputs \subseteq Seq(Text) \ {<<>>}
  /\ \A line \in Typed : line.content \in Seq(Text) \ {<<>>} /\ Covered(line)

VARIABLES
  console,    \* "prompt", "exited"
  stdin,      \* "open"; "cut": ended behind a line with no newline; "ended"
  input,      \* the line the console is at
  told,       \* history: what the console printed for that line
  saved       \* history: the local file that was written for it

consoleVars == <<console, stdin, input, told, saved>>

clientVars == <<wireVars, workspaceVars, consoleVars>>

-----------------------------------------------------------------------------
\* The console, in main's loop.

(***************************************************************************)
(* std::getline(std::cin, input).  At the end of the input it leaves an    *)
(* empty line; but behind a last line that has no newline the stream has   *)
(* reached its end already, and input stays as it was.                     *)
(***************************************************************************)
getline ==
  \/ stdin = "open" /\ input' \in Typed /\ stdin' \in {"open", "cut"}
  \/ stdin = "open" /\ input' = EmptyLine /\ stdin' = "ended"
  \/ stdin # "open" /\ UNCHANGED <<input, stdin>>

AtPrompt == console = "prompt" /\ ~asking

Request(line) == Message(Op[line.cmd], line.name, line.content)

Prints(text) == told' = text /\ saved' = <<>> /\ UNCHANGED <<wireVars, console>>

Continue == AtPrompt /\ getline /\ input'.cmd = "" /\ Prints("")

\* Broken: the console does not wait for the response.
ExitsAnytime ==
  /\ console = "prompt" /\ getline /\ input'.cmd = "exit"
  /\ console' = "exited"
  /\ told' = "" /\ saved' = <<>>
  /\ UNCHANGED wireVars

Exit ==
  /\ AtPrompt /\ getline /\ input'.cmd = "exit"
  /\ console' = "exited"
  /\ told' = "" /\ saved' = <<>>
  /\ UNCHANGED wireVars

Help == AtPrompt /\ getline /\ input'.cmd = "help" /\ Prints("Available commands")

Unknown == AtPrompt /\ getline /\ input'.cmd = "dir" /\ Prints("Unknown command")

Missing == AtPrompt /\ getline /\ Incomplete(input') /\ Prints("Error")

handleCommand ==
  /\ AtPrompt /\ Len(toServer) + Len(toClient) <= MaxUnread
  /\ getline
  /\ input'.cmd \in DOMAIN Op /\ ~Incomplete(input')
  /\ Ask(Request(input'))
  /\ told' = "" /\ saved' = <<>>
  /\ UNCHANGED console

\* What the console prints when send_command has returned `response'.  An
\* upload does not look at it.
Shown(line, response) ==
  CASE line.cmd = "upload"   -> "File uploaded successfully"
    [] line.cmd = "download" -> IF response[1].op = "DOWNLOAD"
                                THEN "File downloaded successfully" ELSE "Error"
    [] line.cmd = "command"  -> "Command result"
    [] OTHER                 -> response[1].op

Returns ==
  /\ Receive
  /\ told' = Shown(input, got')
  /\ saved' = IF told' = "File downloaded successfully" THEN Carried(got') ELSE <<>>
  /\ UNCHANGED <<console, stdin, input>>

Throws == Fail /\ told' = "Error" /\ UNCHANGED <<console, stdin, input, saved>>

ConsoleStep == Continue \/ Exit \/ Help \/ Unknown \/ Missing \/ handleCommand \/ Returns \/ Throws

Console == ConsoleStep /\ UNCHANGED workspaceVars

-----------------------------------------------------------------------------
(***************************************************************************)
(* The session of this client.  Of an uploaded content the handler takes   *)
(* the first line that is not blank; with none it throws, which nobody     *)
(* catches.                                                                *)
(***************************************************************************)
NonBlank(content) == {i \in DOMAIN content : content[i] # ""}

\* Broken: the last line is taken.
LastLine(content) == {i \in NonBlank(content) : \A j \in NonBlank(content) : i >= j}

First(content) == {i \in NonBlank(content) : \A j \in NonBlank(content) : i <= j}

Dies(request) == request[1].op = "UPLOAD" /\ InZone(me) /\ NonBlank(Carried(request)) = {}

COMMAND(name, reply) ==
  IF name[1] = "cd" THEN changeDirectory(me, Tail(name), reply) ELSE runCommand(me, reply)

handleRequest(request, reply) ==
  LET op == request[1].op
      name == request[1].name IN
  \/ op = "CREATE_ZONE" /\ handleCreateZone(me, name, reply)
  \/ op = "ENTER_ZONE" /\ handleEnterZone(me, name, reply)
  \/ op = "LEAVE_ZONE" /\ handleLeaveZone(me, reply)
  \/ op = "LIST_ZONES" /\ reply = "ZONES:" /\ UNCHANGED workspaceVars
  \/ op = "COMMAND" /\ COMMAND(name, reply)
  \/ /\ op = "UPLOAD"
     /\ \E i \in First(Carried(request)) : handleUpload(me, name, <<request[i].text>>, reply)
  \/ op = "UPLOAD" /\ NonBlank(Carried(request)) = {} /\ reply = "ERROR" /\ UNCHANGED workspaceVars
  \/ op = "DOWNLOAD" /\ handleDownload(me, name, reply)
  \/ op = "" /\ reply = "ERROR" /\ UNCHANGED workspaceVars

Response(request, reply, output) ==
  CASE reply = "DOWNLOAD"   -> Message(reply, <<>>, files[Normal(path[me] \o request[1].name)])
    [] reply = "CMD_RESULT" -> Message(reply, <<>>, <<"">> \o output)
    [] OTHER                -> Message(reply, <<>>, <<"">>)

FirstRequest(i) == SubSeq(toServer, 1, i - 1)

Answers(i) ==
  /\ IsFirst(i, toServer) /\ ~Dies(FirstRequest(i))
  /\ \E reply \in Replies, output \in Outputs :
       /\ handleRequest(FirstRequest(i), reply)
       /\ Respond(i, Response(FirstRequest(i), reply, output))

Session == (\E i \in 1 .. Len(toServer) : Answers(i)) /\ UNCHANGED consoleVars

Dying ==
  /\ \E i \in 1 .. Len(toServer) : IsFirst(i, toServer) /\ Dies(FirstRequest(i))
  /\ Break
  /\ UNCHANGED <<workspaceVars, consoleVars>>

\* The client's socket is closed when main ends; the session reads that, after
\* the requests it has.
Disconnected ==
  /\ console = "exited" /\ connected /\ Delimiters(toServer) = {} /\ InZone(me)
  /\ Left(me)
  /\ UNCHANGED <<wireVars, consoleVars>>

-----------------------------------------------------------------------------
(***************************************************************************)
(* The others.                                                             *)
(***************************************************************************)
Neighbour ==
  /\ connected
  /\ \E s \in Sessions \ {me} : Handles(s)
  /\ UNCHANGED <<wireVars, consoleVars>>

StrayStep == (\E d \in strays : Stray(d)) /\ UNCHANGED <<wireVars, consoleVars>>

\* A request of another session, too, can end the server: see Dies.
NeighbourDying ==
  /\ \E s \in Sessions \ {me} : InZone(s)
  /\ Break
  /\ UNCHANGED <<workspaceVars, consoleVars>>

ClientInit ==
  /\ WireInit /\ WorkspaceInit
  /\ console = "prompt" /\ stdin = "open" /\ input = EmptyLine
  /\ told = "" /\ saved = <<>>

ClientNext ==
  \/ Console
  \/ Session
  \/ Dying
  \/ Disconnected
  \/ Neighbour
  \/ StrayStep
  \/ NeighbourDying

ClientSpec == ClientInit /\ [][ClientNext]_clientVars

\* A command ends and prints its output (Command tells when), a thread serves
\* the session, and the client reads on.
LiveClientSpec ==
  /\ ClientSpec
  /\ WF_clientVars(Session)
  /\ WF_clientVars(Dying)
  /\ WF_clientVars(Returns /\ UNCHANGED workspaceVars)
  /\ WF_clientVars(Throws /\ UNCHANGED workspaceVars)

-----------------------------------------------------------------------------
(***************************************************************************)
(* Properties.                                                             *)
(***************************************************************************)
\* The console asks only from the prompt, and prints one of its texts or the
\* first word of a response.
ClientTypeOK ==
  /\ WireTypeOK /\ WorkspaceTypeOK
  /\ console \in {"prompt", "exited"} /\ (asking => console = "prompt")
  /\ stdin \in {"open", "cut", "ended"}
  /\ input \in Typed \cup {EmptyLine}
  /\ saved \in Seq(Text)

\* What the console says of the zone is true: after "ENTERED_ZONE" the session
\* is in the zone that was typed, after "LEFT_ZONE" in none, until the next
\* command, as long as no text has contained the delimiter.
ToldWhereItIs ==
  clean /\ connected /\ AtPrompt =>
    /\ input.cmd = "enter_zone" /\ told = "ENTERED_ZONE" =>
         path[me] = input.name /\ input.name \in occupied
    /\ input.cmd = "leave_zone" /\ told = "LEFT_ZONE" => ~InZone(me)

\* An uploaded file keeps its first line that is not blank, and no more, however
\* long the local file is.  As long as no command has touched it since, a download
\* makes a local file with that line and a newline, the one do_read puts behind
\* every response.
DownloadsAreExact ==
  clean /\ AtPrompt =>
    \A f \in DOMAIN kept[me] : f = Normal(path[me] \o input.name) =>
      /\ input.cmd = "upload" /\ told = "File uploaded successfully" /\ got[1].op = "UPLOAD_OK" =>
           \E i \in DOMAIN input.content :
             /\ input.content[i] # "" /\ \A j \in 1 .. i - 1 : input.content[j] = ""
             /\ kept[me][f] = <<input.content[i]>>
      /\ input.cmd = "download" /\ told = "File downloaded successfully" =>
           saved = Append(kept[me][f], "")

\* send_command comes back, with a response or an exception, unless a response
\* was sent from memory that is gone: whatever the texts contain, there is
\* always a delimiter still to come.
CommandsReturn == asking ~> (~asking \/ \E i \in DOMAIN toClient : toClient[i] = Garbage)
=============================================================================
