-------------------------------- MODULE Wire --------------------------------
(***************************************************************************)
(* One connection: Client::send_command (client/Client.cpp) at one end,    *)
(* do_read and do_write (server/Session.cpp) at the other.  Both ends send *)
(* text followed by "\nEND_CMD\n" and look for that delimiter in what they *)
(* receive.                                                                *)
(*                                                                         *)
(* A text is a non-empty sequence of lines; it ends with a newline when    *)
(* its last line is Blank.  Bytes in transit are cut at the ends of lines  *)
(* only.  The delimiter is a Marker line that has a line before it.        *)
(***************************************************************************)
EXTENDS Naturals, Sequences

CONSTANTS
  Line,       \* lines of text
  Marker,     \* the line "END_CMD"
  Blank,      \* the empty line
  Long,       \* lines that stand for more text than one send takes
  Garbage     \* what is sent from memory that is no longer the message

ASSUME WireAssumption ==
  /\ {Marker, Blank, Garbage} \cup Long \subseteq Line
  /\ Marker \notin {Blank, Garbage} \cup Long

VARIABLES
  toServer,   \* sent by the client, not yet taken: in transit or in buffer_
  toClient,   \* sent by the server, not yet read by the client
  asking,     \* the client is in send_command
  got,        \* what send_command returned last, <<>> when it did not
  answer,     \* history: the response the server gave last since it was called
  connected,  \* the server process is there
  clean       \* history: no text sent so far contained a delimiter

wireVars == <<toServer, toClient, asking, got, answer, connected, clean>>

Texts == Seq(Line) \ {<<>>}

Delimiters(stream) == {i \in 2 .. Len(stream) : stream[i] = Marker}

IsFirst(i, stream) == i \in Delimiters(stream) /\ \A j \in Delimiters(stream) : i <= j

IsLast(i, stream) == i \in Delimiters(stream) /\ \A j \in Delimiters(stream) : i >= j

Clean(text) == Delimiters(text) = {}

After(i, stream) == SubSeq(stream, i + 1, Len(stream))

Framed(text) == Append(text, Marker)

WireInit ==
  /\ toServer = <<>> /\ toClient = <<>>
  /\ asking = FALSE
  /\ got = <<>> /\ answer = <<>>
  /\ connected = TRUE /\ clean = TRUE

-----------------------------------------------------------------------------
\* send_command writes the request (the other end may be gone) ...
Ask(text) ==
  /\ ~asking
  /\ asking' = TRUE
  /\ toServer' = IF connected THEN toServer \o Framed(text) ELSE <<>>
  /\ got' = <<>> /\ answer' = <<>>
  /\ clean' = (clean /\ Clean(text))
  /\ UNCHANGED <<toClient, connected>>

\* Broken: the text is not consumed.
TakenNot(i) == i \in Nat /\ UNCHANGED toServer

\* do_read takes the text before the first delimiter; buffer_ keeps the rest.
Taken(i) == toServer' = After(i, toServer)

\* Broken: only the newline is appended.
SentUnframed(text) == {text}

(***************************************************************************)
(* do_write appends a newline and the delimiter to the response.  What     *)
(* async_write does not send at once it sends later from the local string  *)
(* `framed', which is destroyed when do_write returns.                     *)
(***************************************************************************)
Sent(text) ==
  {Framed(text)} \cup
  {Append(SubSeq(text, 1, i), Garbage) : i \in {j \in 1 .. Len(text) : text[j] \in Long}}

\* The server handles the request that ends at the i-th line and answers it.
Respond(i, response) ==
  /\ connected /\ IsFirst(i, toServer)
  /\ Taken(i)
  /\ answer' = Append(response, Blank)
  /\ toClient' \in {toClient \o out : out \in Sent(answer')}
  /\ clean' = (clean /\ Clean(answer'))
  /\ UNCHANGED <<asking, got, connected>>

(***************************************************************************)
(* ... and then reads into a buffer of its own: all that has come, at      *)
(* least up to a delimiter.  It returns what stands before the last        *)
(* delimiter it has read; what is behind that in the buffer is lost.       *)
(***************************************************************************)
Receive ==
  /\ asking
  /\ \E k \in 1 .. Len(toClient) :
       \E i \in 2 .. k :
         /\ IsLast(i, SubSeq(toClient, 1, k))
         /\ got' = SubSeq(toClient, 1, i - 1)
         /\ toClient' = After(k, toClient)
  /\ asking' = FALSE
  /\ UNCHANGED <<toServer, answer, connected, clean>>

\* The server process ends.
Break ==
  /\ connected
  /\ connected' = FALSE
  /\ toServer' = <<>>
  /\ UNCHANGED <<toClient, asking, got, answer, clean>>

\* send_command throws: the connection has ended before a delimiter came, or
\* was reset with what the server had sent still unread.
Fail ==
  /\ asking /\ ~connected
  /\ asking' = FALSE
  /\ got' = <<>> /\ toClient' = <<>>
  /\ UNCHANGED <<toServer, answer, connected, clean>>

WireNext ==
  \/ \E text \in Texts : Ask(text)
  \/ \E i \in 1 .. Len(toServer), response \in Texts : Respond(i, response)
  \/ Receive
  \/ Break
  \/ Fail

WireSpec == WireInit /\ [][WireNext]_wireVars

-----------------------------------------------------------------------------
(***************************************************************************)
(* Properties.                                                             *)
(***************************************************************************)
WireTypeOK ==
  /\ {toServer, toClient, got, answer} \subseteq Seq(Line)
  /\ {asking, connected, clean} \subseteq BOOLEAN

\* Requests and responses stay in step: as long as no text has contained the
\* delimiter, send_command returns the response to its own request, complete
\* or not at all, and leaves nothing of it on the connection.
InStep ==
  clean /\ connected /\ ~asking =>
    got = answer /\ toServer = <<>> /\ toClient = <<>>
=============================================================================
