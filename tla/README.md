# Verification of the zone server

TLA+ models of the program under `src/`: a TCP server that keeps *zones*
(directories under `workspaces/`), lets each connected client enter one of them,
run shell commands there and move files in and out, and its command-line client.
The repository has no tests and no documents; what the program promises is in its
help texts, its responses and its comments.

## Inventory

| component | state | operations | interacts with |
|---|---|---|---|
| zone table, `server/ZoneManager` | `zones_`: name -> occupied, under `mutex_`; the directories under `base_path_` | constructor and scan, create, enter, leave, list | called by the request handlers and by `Session::close` |
| session, `server/Session` | socket, `socket_active_`, `socket_mutex_`, `current_zone_`, workspace, read buffer | start, read, process, write, close, destructor; each a completion handler | `io_context` runs its handlers; registers itself in `Server::sessions_` |
| request handlers, `SessionCommandHandler` | none of its own: references into the session | CREATE_ZONE, ENTER_ZONE, LEAVE_ZONE, LIST_ZONES, COMMAND, UPLOAD, DOWNLOAD | zone table, workspace |
| server, `server/Server`, `main.cpp` | acceptor, `sessions_` under `sessions_mutex_`, console buffer; four threads in one `io_context` | accept, console line (help, status, stop), end of the process | creates sessions, closes them in `stop()` |
| workspace, `server/Workspace` | root and current directory | `execute_command` (child process or `cd`), upload, download, path check | called by the request handlers, on their thread |
| client, `client/Client` | socket | send a request and wait for its response; upload, download | the server, over text framed by an `END_CMD` line |
| client console, `UserCommandHandler`, `client/main.cpp` | the user's line | parse, dispatch, print | client |
| `core/CommandHandler.h` | none | an abstract class | |

What is hard here:

- **Concurrency.** Four threads run the handlers of all sessions. A session's own
  chain is sequential, but `Server::stop` closes sessions from another thread, the
  zone table is shared, and a handler keeps its thread while a child process runs.
- **Two records of one fact.** `occupied` in the table and `current_zone_` in the
  session change in two steps, with other sessions' steps between them.
- **Failure.** A client goes away at any point; a write fails in a handler that
  holds the lock `close()` needs; exceptions leave handlers and end the process.
- **Shutdown.** `stop()` races with accepts, reads, writes and commands, and reads
  `sessions_` without its mutex.
- **Restart.** The table is rebuilt from the directories.
- **Blocking.** A child process and the server wait for each other's pipe.
- **Framing.** Both ends look for `END_CMD` in texts that may contain it, and a response
  is sent from a local string that may be gone before it is sent.
- **Paths.** Names with `..`, a directory that `cd` moves, processes that commands leave
  running: three ways out of a zone that must not become ways into another.
- **Input that ends.** Both consoles read lines from an input that may end anywhere.

What makes each component correct: a zone has one occupant, who is the one its
table entry stands for, and gets free only through that occupant; a session that
is gone has released everything; every request is answered as long as a thread is
left; `stop` closes every session once and the process ends; the table agrees with
the directories; a command's response is complete; a response is that of its own
request; what is stored of an upload is what comes back; the files of a zone are changed from inside it only; what the client's console
says and saves is what the server did.

## Modules

| module | models |
|---|---|
| `ZoneManager` | The table and the directories; one operator per member function, each atomic because it holds `mutex_` throughout. A zone name is a sequence of path components. `ZoneSpec` is the table on its own, with restarts and shell commands. |
| `ZoneLease` | Abstract specification: what the server promises of its zones. Two variables, three actions. |
| `Session` (extends `ZoneManager`) | All connections of a serving process: one action per step of a handler between which another thread can act. |
| `Server` (extends `Session`) | The acceptor, the operator's console, `Server::stop` on a thread of the pool, the end of `main`, composed with the sessions' steps. |
| `Command` | `execute_command`: the child process, the processes it starts, two bounded pipes, the reading thread. |
| `Workspace` (extends `ZoneManager`) | The files of the zones, `cd`, upload, download, the path check, where commands run and what they leave running. A request is one step. It implements `ZoneLease` too. |
| `Wire` | One connection: `send_command` at one end, `do_read` and `do_write` at the other, and the delimiter between texts. It is also the abstract protocol that `Client` implements. |
| `Client` (extends `Wire`, `Workspace`) | The client's console and `Client`'s member functions, over the connection, to the session that handles the requests; beside it the other sessions and the processes left by commands. It implements `Wire` and `Workspace`. |
| `PathProofs` | What normalising a path computes. |
| `ZoneProofs`, `SessionProofs`, `ServerProofs`, `CommandProofs`, `WorkspaceProofs`, `WireProofs`, `ClientProofs` | Theorems about the module of that name. |
| `MCZoneManager`, `MCSession`, `MCServer`, `MCCommand`, `MCWorkspace`, `MCClient` | Instances for TLC. |

Definitions whose comment starts with *Broken* are deliberately wrong variants of
the definition after them; substituted for it, they make a property fail. They are
not part of any specification.

### Correspondence with the code

`pc[s]` in `Session` is where the chain of completion handlers of session `s` is.

| `pc` | code |
|---|---|
| `new`, `starting` | before `Session::start`; between the registration and `do_read` |
| `reading`, `badRead` | `async_read_until` pending on an open socket; begun on a closed one |
| `handling` | in `process_request` |
| `entering`, `leaving` | after `enter_zone` returned true, before `current_zone_` is set; after `leave_zone`, before it is cleared |
| `executing` | in `execute_command` |
| `replying`, `writing` | before `do_write` has the lock; `async_write` pending |
| `closing`, `shutting`, `clearing`, `erasing` | steps of `close()` and the erase in the read handler |
| `deadlocked` | the write handler waiting in `close()` for the lock it holds |
| `ended` | no operation pending; the session lives while `sessions_` (or the copy in `stop`) refers to it |

A handler needs a free thread to be dispatched (`Dispatch`) and keeps it while `pc`
is in `OnThread`. `Throw` is an exception that leaves a handler: the process terminates.
`Busy` counts the threads in use. When a session is destroyed its identity is used again
for a later connection.

`console` in `Server` is the same for the console's handler: `waiting` for a line,
`printing` the answer to `help`, `status` or something unknown, a step of `stop`
(`copying`, `closing`, `shutting`, `clearing`), or `closed` when the input has ended.
While it is `copying`, each `StopCopy` takes one reference; a session has none before its
turn. `raced` says that `sessions_` changed meanwhile, `stale` which sessions were erased.
From the first change on, the loop is undefined behaviour, and the model takes all that the
build can do: skip sessions, take a reference from the freed node of an erased session,
destroyed or not, or crash (`StopCopied`, `StopCopy`, `StopCrash`). `close()` on a session
that is destroyed finds it closed, crashes, or waits for a lock that it never gets
(`StopCloseFreed`, which has no fairness).

In `Wire`, `toServer` is what the client has sent and the server not taken (in transit
or in `buffer_`) and `toClient` the other direction, both as sequences of lines;
`asking` says that the client is in `send_command`. `answer`, `got` and `clean` record
the response given, the text returned, and whether any text so far contained a
delimiter. `Receive` reads any prefix that holds a delimiter, as `read_until` may, cuts
it at the *last* delimiter (`rfind`) and drops what is behind it; `Taken` cuts at the
first. `Sent` gives a response whole, or, for a text with a `Long` line, its beginning
and then `Garbage`, because `framed` is gone.

In `Workspace` a path is a sequence of components relative to `base_path_`; `path` and
`directory` are `path_` and `current_directory_`, `strays` the directories in which a
process left by a command runs. `Normal` is the path without `.` and with `..` applied;
`Inside` is `validate_path`, `Reachable` the system's
walk along a path. `kept` records what the server has stored of each session's uploads,
as far as no command has touched it since.

In `Client` a line typed is a command, its argument and the content of the local file
it names. The console is in `getline` at `prompt`; `told` and `saved` are what it
printed and the local file it wrote. `stdin = "cut"` is an input that ended behind a
line without a newline, after which `std::getline` leaves that line where it is. `First` is
the line of a content that the server stores: the first that is not blank.

Abstractions: in `Session` the response is reduced to its first word. Bytes in transit
are cut at line ends only. The text of a line is one value, so the wording of responses
and the splitting of a line are left to the record `Words`. A NUL in a response, which
would cut it short (`std::getline` up to `'\0'` in `send_command`), does not occur.
There are no symbolic links and no absolute names in uploads and downloads. In
`Workspace` and `Client` zone names are top-level (nested ones are in `zone_nested`) and
neither `.` nor `..`: `create_zone` refuses both, because those directories are always
there (`CreateRefused`, also in `zone_nested`). A name that mixes these with others, as
`a/../b`, does not occur as the name of a zone. A process of a command changes files and
directories below the directory it runs in: nothing in the code keeps it there, and without
that nothing could be said of other zones (`ZoneManager` lets it change any directory).
The unlocked accesses of `stop()` to `current_zone_` are taken to be single steps. A
session that `stop()` still refers to is not a new connection: an address in its copy is
not given out again.

## Runs

| run | instance | shows |
|---|---|---|
| `zone_nested` | names `a`, `b`, `a/b` and `..`, shell commands that make and remove directories, restarts | types; a top-level zone is lost only with its directory |
| `session_safe` | 2 sessions, 2 threads, 2 names, all requests, both faults | `ExclusiveZones`, `OccupiedMeansHeld`, `GoneMeansReleased`, `NoneForgotten`, `ToldEnteredIsInZone`, `OnlyHolderReleases`, types, refinement of `ZoneLease` |
| `session_live` | 2 sessions on 1 thread, endless commands, failing writes | a session waits for the thread the other one has, and gets it: requests are answered and disconnects release, unless the session's own handler is stuck or no thread is left |
| `server_stop` | 2 sessions on 2 threads, a console that prints, stops or ends, writes that succeed, commands that end | `OneCloser`; `stop` ends the process, unless it waits for a lock in freed memory; if `sessions_` did not change while it was copied, `AtMostOneSurvives` and `CopyIsKept` |
| `command_quiet` | a shell (up to 3 lines) and a process of its own (up to 2), pipes of 2 lines | the call returns with every line |
| `workspace_safe` | 2 sessions, zones `a` and `b`, uploads to `f`, `../b/f` and `f/./../f`, `cd ./f` and `cd ..`, commands that write files, make and remove directories and leave processes | `CommandsStayHome`, `UploadsAreKept`, `FreeZonesAreStill`, types, refinement of `ZoneLease` (`LeasesItsZones`) |
| `client_work` | one client with 15 lines it may type, another client, one zone, uploads that are empty, of three lines of which the first is blank, or contain the delimiter, responses too long for one send, an end of input with and without a newline, a server that dies | `InStep`, `ToldWhereItIs`, `DownloadsAreExact`, types; `send_command` returns (`CommandsReturn`) |

Runs that end in a counterexample, each a place where the program does something
else than it says (details in `PROJECT.json`, *findings*):

| run | what happens |
|---|---|
| `session_upload` | an upload without content throws out of the handler and ends the server |
| `server_hang` | a write fails (its client is gone, or `stop` has closed the socket), its handler locks itself out in `close()`, and `stop` waits for that lock or `main` for that thread, for ever |
| `server_copy` | a session goes while `stop` copies `sessions_`: it is destroyed, and `stop` will close it |
| `server_exit` | a connection accepted while `stop` begins is destroyed after the zone table it leaves |
| `command_stderr` | the command waits for room in the stderr pipe, the server for the end of stdout |

### Bounds, and why they are enough

Sessions interact only through the table (per name), the threads (a count) and
`sessions_` (per session), so two sessions and one name give every conflict between
two chains; more sessions, names and threads are covered by the theorems. Two names
in `session_safe` let a session leave one zone for another, and `InitialDirs` makes
one of them older than the server. Two threads let one be lost and the other go on,
and let `stop` run beside a handler; `server_stop` so has every race of two sessions with
the copying loop.

`session_live` is about threads that are missing, so it has fewer of them than sessions: on
the one thread the other session waits whenever one runs, and the thread is lost for good
to a command that does not end or a write that fails. Both properties fail without their
disjunct `NoThreadLeft`, so the exhausted pool is what decides them. With one thread the
pool is exhausted as soon as one is lost; three sessions on two threads, where one may be
lost and two compete for the other, are more than TLC's liveness check does in the time of
a run. In `Command` each process can fill a pipe of 2
lines, and the two of them, or the shell alone, have some left to write.

In `workspace_safe` one zone is there from the start and one is created; the names lead
into the own zone, through a directory that may be missing, and into the other zone; the
directory `a/f` is made and removed under files and processes. In `client_work` one zone
is enough, as the zones' separation is the matter of `workspace_safe`. `MaxUnread = 3`:
no request is sent while more than 3 lines are under way. Only texts with the delimiter
or a garbled response leave lines behind, so the bound still lets the responses fall
behind by more than one request; without it the stream would grow for ever. It is
the only bound on the length of a behaviour; elsewhere sessions are used again and nothing
counts up.

`CHECK_DEADLOCK FALSE` is set where the system does stop: after an exception or an
exit, when every thread is lost, when a command has been answered, and when the client
waits for a response that was sent from memory that is gone.

### Fairness

- A step of a running handler is weakly fair: threads are scheduled.
- Taking up a ready handler is strongly fair in `Session`: `io_context` keeps ready
  handlers in a FIFO queue, so one is passed over only finitely often while others come and
  go. `Server` needs less, since after `stop` nothing need be dispatched: weak fairness of
  the steps of `stop`, of `Exit` and of the running handlers. What `stop` does on freed
  memory (`StopAstray`) is not fair.
- That a command ends is an assumption on the users' commands, made in `FairServerSpec`
  (weak fairness of `FinishCommand`) and `LiveClientSpec` (of `Session`); in
  `session_live` commands may run for ever.
- In `Command` the processes of the shell run and end.
- In `LiveClientSpec` the session takes up and answers a request (`session_live` tells
  when), and a client that can read a delimiter, or whose connection is gone, does so.
- Users, clients and the operator owe nothing: none of them need type another line.

## Theorems

All theorems hold for every value of the constants that the named assumptions of the
modules allow: every finite set of sessions, set of names and of texts, number of threads,
capacity, program and workload.

| module | theorem | statement |
|---|---|---|
| `ZoneProofs` | `ZoneTypeCorrect` | `ZoneSpec => []ZoneTypeOK` |
| | `TopLevelPersist` | `ZoneSpec => TopLevelZonesPersist` |
| | `FlatRefusalsAreListed` | `Flat` implies `ZoneSpec => []RefusedZonesAreListed` |
| `SessionProofs` | `SessionTypeCorrect` | `SessionSpec => []SessionTypeOK` |
| | `Exclusion` | `SessionSpec => []ExclusiveZones` |
| | `OccupiedAgrees` | `SessionSpec => []OccupiedMeansHeld` |
| | `GoneReleased` | `SessionSpec => []GoneMeansReleased` |
| | `NobodyForgotten` | `SessionSpec => []NoneForgotten` |
| | `ToldEntered` | `SessionSpec => []ToldEnteredIsInZone` |
| | `ReleaseByHolder` | `SessionSpec => OnlyHolderReleases` |
| | `Refinement` | `SessionSpec => ImplementsLease` (`ZoneLease!LeaseSpec`) |
| `ServerProofs` | `ServerTypeCorrect` | `ServerSpec => []ServerTypeOK` |
| | `ClosesAlone` | `ServerSpec => []OneCloser` |
| | `CopyKeepsSessions` | `ServerSpec => []CopyIsKept` |
| | `StopClosesAllButOne` | `ServerSpec => []AtMostOneSurvives` |
| | `SoundUntilStopped` | `ServerSpec`: while `acceptor = "open"`, the five invariants of the sessions and their zones |
| `CommandProofs` | `CommandTypeCorrect` | `Spec => []CommandTypeOK` |
| | `LosesNothing` | `Spec => []NothingIsLost` |
| `PathProofs` | `NothingLeadsUp` | what `Inside` accepts normalises to a path with no `.` and no `..` (`Dotless`) |
| `WorkspaceProofs` | `WorkspaceTypeCorrect` | `WorkspaceSpec => []WorkspaceTypeOK` |
| | `StayHome` | `WorkspaceSpec => []CommandsStayHome` |
| | `KeepsUploads` | `WorkspaceSpec => []UploadsAreKept` |
| | `StillZones` | `WorkspaceSpec => FreeZonesAreStill` |
| | `WorkspaceRefinement` | `WorkspaceSpec => LeasesItsZones` (`ZoneLease!LeaseSpec`) |
| `WireProofs` | `RequestsInStep` | `WireSpec => []InStep` |
| `ClientProofs` | `ClientImplementsWire` | `ClientSpec => WireSpec` |
| | `ClientInStep` | `ClientSpec => []InStep` |
| | `ClientImplementsWorkspace` | `ClientSpec => WorkspaceSpec` |
| | `ClientKeepsZones` | `ClientSpec`: `CommandsStayHome`, `UploadsAreKept`, `FreeZonesAreStill`, `LeasesItsZones` |
| | `ClientTypeCorrect` | `ClientSpec => []ClientTypeOK` |
| | `ConsoleIsRight` | `ClientSpec => []ToldWhereItIs` |
| | `DownloadsComeBack` | `ClientSpec => []DownloadsAreExact` |

**Zone table.** "Zone exists" can be said of a zone that no client can see: a zone `a/b`
is not in the table any more after a restart, though its directory is there; the directory
`a` that creating it has made, or one that a command made, has no entry; `.` and `..` never
have one. `FlatRefusalsAreListed` says
that this is all: with names of one component other than these two, and commands that make
no directory of a zone's name (`Flat`), every directory with a zone's name is in the table
(`ListedInv`), over any number of restarts.

**Sessions.** The inductive invariant is
`IInv == SessionTypeOK /\ PhaseInv /\ OccupiedMeansHeld /\ ExclusiveZones`. The last
two are not inductive alone: a release clears the flag of whatever zone the session
is in, so one must know that a session past `leave_zone` releases nothing more, that
its socket is open exactly while its chain runs, and that the one who enters is in no
zone. `PhaseInv` says this for each phase. `StepFrame` shows that a step of one
session leaves the others' state alone; `StepHolds` that every step keeps the holding
session-zone pairs (`HoldsSame`), adds one that is free (`HoldsMore`) or removes
one's own (`HoldsLess`). The invariants and the refinement follow from these three
cases: they are the stuttering, `Acquire` and `Release` steps of `ZoneLease`.
`ToldEntered` adds `ToldInv`, which follows the last response from the handler to the
next request.

`SessionSpec` has no operator. `ServingInv` carries these invariants over to the whole server:
until `stop()` closes the acceptor nothing but the connections touches the sessions
(`SoundUntilStopped`). During `stop()` they do not hold: `close()` then changes
`current_zone_` under a running handler.

**Stop.** `ServerInv == ServerTypeOK /\ ServedInv /\ StopInv /\ OneCloser`. `stop` breaks
`PhaseInv`, and `ServedInv` is what remains of it. `StopInv` counts, for a copy during
which `sessions_` has not changed: `Ahead` is what `stop` has still to copy or to close,
and of the sessions with an open socket at most one is not in it, none while the accept
handler that was queued has yet to run. `CopyKeepsSessions` and `StopClosesAllButOne` are
therefore about such a copy (`~raced`), and nothing is claimed of another: `server_copy`
shows what becomes of it. `OneCloser` and the types hold in every case.

**Commands.** `CommandInv` says that what was written to a stream is what has been
read of it followed by what is in its pipe (`Accounted`), and that nobody can write any
more when the reader turns to the next stream (`ReaderInv`).

**Workspaces.** `HomeInv` says that a session in a zone occupies it alone, that its
directory begins with the zone's name, and that what it has uploaded lies there too.
`FilesInv` adds that a file lies below a zone's directory, never in its place, and is no
directory: an upload and a command cannot make one that is in the way of a zone.

What is compared is a normalised path, and `PathProofs` says what that is: `Normal` is the
end of a walk (`Walks`) that takes one component at a time, and every point of the walk
is `Canonical`, with no `.` and with `..` at its beginning only. So a path that begins with
a zone's directory has neither left (`NothingLeadsUp`). These are inductions over the length of a path, made with the
least-number principle (`WFMin`), as the library's induction theorems cannot be
instantiated here.

The leases of `ZoneLease` are implemented twice: by the steps of the handlers in `Session`,
and by whole requests, with the files and commands in them, in `Workspace`, where the
lease is the directory a session works on (`Leased`).

**Wire and client.** `WireInv`: while no text has contained the delimiter and the server
is there, the connection is `Idle`, has one request on it (`Asked`), its whole response
(`Answered`), or a piece of it without a delimiter (`Stuck`). `ClientImplementsWire`
is by the identity mapping: every step of console, session and neighbours is a step of
`Wire` or leaves the connection alone, given that all texts sent are non-empty sequences
of lines (`ClientInv`). `InStep` for the whole program follows from it.

`SentTyped` says that every line on its way to the server was typed, or is a line of a file
that was uploaded. With `ClientAssumption`, which says that the constants hold every name,
directory and text that may be typed (`Covered`), each request the session takes is one of
`Workspace` (`ClientImplementsWorkspace`): what is proved there holds for the whole program,
whatever is typed and however the streams are cut.

`TrackInv` follows a response from the handler that gives it, over the connection, to the
console that prints it. While no text has contained the delimiter, the request of the
line typed is under way (`Asks`), or its response, which is `Right` about the session's
zone and the file stored or read (`AnsweredRight`), or the console has said what is `Right`
(`Settled`), or the client waits for what will not come (`Stuck`, `Gone`). In between
others act: `LeftAlone` says that they change neither the session's zone nor what is
recorded of its uploads, whose files are kept by `HomeInv`. `DownloadsComeBack` so links the
local file of an upload, of which one line is stored, with the local file of a download.

Assumptions: `NamesAssumption`, `SessionAssumption`, `ServerAssumption`,
`CommandAssumption`, `WorkspaceAssumption`, `WireAssumption`, `ClientAssumption` (TLC
evaluates them), the atomicity of the steps above, and nothing else.

Only model-checked: liveness (`RequestsAreAnswered`, `DisconnectReleases`,
`StopTerminates`, `CommandReturns`, `CommandsReturn`), which the prover does not handle
under fairness. Every invariant and every action property of a passing run is a theorem.

## Not modelled

- What a NUL byte, a symbolic link or an absolute name does; a cut inside a line.
- `CMD_ERROR`: `execute_command` catches what the child process throws, and the client
  prints either text.
- Code that is never called: `extractContent`, `get_io_context`, `session_counter`; the
  erase in `~Session`, never reached.
- Zones inside zones in `Workspace`: their separation is not promised anywhere, as the
  shell commands of the outer one may reach the inner one.
- A restart with processes of the last run still in a zone.
- `core/CommandHandler.h` (no behaviour), build files, and `cmake-build-debug`, which CMake
  generated (its two compiler probes are most of the repository's lines).
- The accept handler's endless retry on a closed acceptor: it takes a thread only for
  the moment of re-arming.

Seen in the model and stated by no property that fails: an upload of several lines
stores one of them, though the help calls it `Upload file to server`
(`src/client/UserCommandHandler.cpp:40`); `DownloadsAreExact` says which. A zone's name can be
refused and in no list (see *Zone table*). And, because no text of the program promises
otherwise: an upload that fails is reported as done (`Shown` does not look at the
response); a last line typed without a newline is executed over and over; a server
whose console input has ended cannot be stopped.

## Plan

1. *(done)* `ZoneManager`, `ZoneLease`, `Session`, `Server`, `Command`; theorems about
   `Session`.
2. *(done)* `Wire`, `Workspace`, `Client`; the console of `Server`.
3. *(done)* Theorems about the zone table, `Server`, `Command`, `Workspace`, `Wire` and the
   refinement of `Wire` by `Client`.
4. *(open)* Restart: `Server` started again over what the last process left, with commands
   of the last process still running in a zone.
5. *(done)* What the console says and saves, the types of `Workspace` and `Client`, and what
   normalising a path computes, as theorems; `Workspace` refined by `Client`, `ZoneLease` by
   `Workspace`; the sessions' invariants for the server until `stop`.
6. *(open)* What of the leases is left while `stop` runs, as an abstract specification of its own.
