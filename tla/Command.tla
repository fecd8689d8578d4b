------------------------------ MODULE Command ------------------------------
(***************************************************************************)
(* Workspace::execute_command (server/Workspace.cpp) for a command that is *)
(* not "cd": a child bash with a pipe for its standard output and one for  *)
(* its standard error, both read by the thread that serves the session.    *)
(* The processes the shell starts inherit both pipes.  A pipe holds a      *)
(* bounded number of lines: a write into a full one waits, and a read from *)
(* an empty one waits until nobody can write into it any more.             *)
(***************************************************************************)
EXTENDS Naturals, Sequences

CONSTANTS
  Shell,      \* the bash process
  Children,   \* the processes that it starts
  Lines,      \* lines of output
  Programs,   \* what the processes write: for each, lines with their stream
  Capacity    \* the lines a pipe holds

Processes == {Shell} \cup Children

Writes == [to : {"stdout", "stderr"}, line : Lines]

ASSUME CommandAssumption ==
  /\ Shell \notin Children
  /\ Programs \subseteq [Processes -> Seq(Writes)]
  /\ Capacity \in Nat \ {0}

VARIABLES
  reader,     \* where execute_command is
  output,     \* the stream it returns
  pipe,       \* the lines in the two pipes
  todo,       \* what each process has still to write
  alive,      \* the processes that have not ended
  open,       \* those that have the pipes open for writing
  written     \* what has been written into each pipe so far

vars == <<reader, output, pipe, todo, alive, open, written>>

Streams == {"stdout", "stderr"}

Init ==
  /\ reader = "starting"
  /\ output = <<>>
  /\ pipe = [stream \in Streams |-> <<>>]
  /\ todo \in Programs
  /\ alive = {} /\ open = {}
  /\ written = [stream \in Streams |-> <<>>]

\* Broken: the child runs, but is not noted as running.
SpawnUnnoted ==
  /\ reader = "starting"
  /\ reader' = "stdout" /\ open' = Processes
  /\ UNCHANGED <<output, pipe, todo, alive, written>>

\* The constructor of bp::child; it throws when the directory is gone, and the
\* error is returned as the command's output.
Spawn ==
  /\ reader = "starting"
  /\ \/ reader' = "stdout" /\ alive' = Processes /\ open' = Processes
     \/ reader' = "failed" /\ UNCHANGED <<alive, open>>
  /\ UNCHANGED <<output, pipe, todo, written>>

\* A process writes its next line.
Write(p) ==
  /\ p \in open /\ todo[p] # <<>>
  /\ LET to == Head(todo[p]).to
         line == Head(todo[p]).line
     IN  /\ Len(pipe[to]) < Capacity
         /\ pipe' = [pipe EXCEPT ![to] = Append(@, line)]
         /\ written' = [written EXCEPT ![to] = Append(@, line)]
  /\ todo' = [todo EXCEPT ![p] = Tail(@)]
  /\ UNCHANGED <<reader, output, alive, open>>

End(p) ==
  /\ p \in alive /\ todo[p] = <<>>
  /\ alive' = alive \ {p}
  /\ open' = open \ {p}
  /\ UNCHANGED <<reader, output, pipe, todo, written>>

\* A process redirects its output elsewhere and goes on.
Redirect(p) ==
  /\ p \in open /\ todo[p] = <<>>
  /\ open' = open \ {p}
  /\ UNCHANGED <<reader, output, pipe, todo, alive, written>>

\* getline on the stream being read: the next line.
ReadLine(stream) ==
  /\ reader = stream /\ pipe[stream] # <<>>
  /\ output' = Append(output, [to |-> stream, line |-> Head(pipe[stream])])
  /\ pipe' = [pipe EXCEPT ![stream] = Tail(@)]
  /\ UNCHANGED <<reader, todo, alive, open, written>>

\* Broken: reading ends when the shell has ended, with what is there by then.
EndOfFileEarly(stream, next) ==
  /\ reader = stream /\ pipe[stream] = <<>> /\ Shell \notin alive
  /\ reader' = next
  /\ UNCHANGED <<output, pipe, todo, alive, open, written>>

\* getline fails: the pipe is empty and no process has it open for writing.
EndOfFile(stream, next) ==
  /\ reader = stream /\ pipe[stream] = <<>> /\ open = {}
  /\ reader' = next
  /\ UNCHANGED <<output, pipe, todo, alive, open, written>>

\* Broken: the child is waited for before its output is read.
ReadStdoutAfterWait ==
  /\ Shell \notin alive
  /\ ReadLine("stdout") \/ EndOfFile("stdout", "stderr")

ReadStdout == ReadLine("stdout") \/ EndOfFile("stdout", "stderr")

ReadStderr == ReadLine("stderr") \/ EndOfFile("stderr", "waiting")

\* c.wait(), and the exit code is appended.
Wait ==
  /\ reader = "waiting" /\ Shell \notin alive
  /\ reader' = "done"
  /\ UNCHANGED <<output, pipe, todo, alive, open, written>>

Next ==
  \/ Spawn \/ ReadStdout \/ ReadStderr \/ Wait
  \/ \E p \in Processes : Write(p) \/ End(p) \/ Redirect(p)

Spec == Init /\ [][Next]_vars

\* The thread reads when it can, each process writes when it can and ends when
\* it has nothing left to write.
FairSpec ==
  /\ Spec
  /\ WF_vars(Spawn \/ ReadStdout \/ ReadStderr \/ Wait)
  /\ \A p \in Processes : WF_vars(Write(p) \/ End(p))

-----------------------------------------------------------------------------
(***************************************************************************)
(* Properties.                                                             *)
(***************************************************************************)
Readers == {"starting", "stdout", "stderr", "waiting", "done", "failed"}

CommandTypeOK ==
  /\ reader \in Readers
  /\ output \in Seq(Writes)
  /\ pipe \in [Streams -> Seq(Lines)]
  /\ todo \in [Processes -> Seq(Writes)]
  /\ open \subseteq alive /\ alive \subseteq Processes
  /\ written \in [Streams -> Seq(Lines)]

Tagged(stream, lines) == [i \in DOMAIN lines |-> [to |-> stream, line |-> lines[i]]]

\* The response holds all that the command and the processes it started wrote:
\* its standard output in order, then its standard error in order.
NothingIsLost ==
  reader = "done" =>
    output = Tagged("stdout", written["stdout"]) \o Tagged("stderr", written["stderr"])

\* The call returns.
CommandReturns == <>(reader \in {"done", "failed"})
=============================================================================
