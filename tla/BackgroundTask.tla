---------------------------- MODULE BackgroundTask ----------------------------
(***************************************************************************)
(* One background command, from ExecService.BackgroundExec (exec.go) and   *)
(* the task that runs it (background_task.go) to the plugin that started   *)
(* it (plugin/background_task.go).                                         *)
(*                                                                         *)
(* In the daemon: the handler's goroutine, a goroutine per output pipe and *)
(* one that reads the client's messages, around a process.  In the plugin: *)
(* the goroutine that reads the daemon's messages, and the user of the     *)
(* BackgroundTask.  Between them one FIFO stream in each direction.        *)
(*                                                                         *)
(* Output is counted in chunks; pipes do not reorder, so the number of     *)
(* chunks written, taken and received says which ones they are.            *)
(*                                                                         *)
(* A stream is not made for two Sends at once, and nothing keeps the two   *)
(* output goroutines apart, nor Cancel and the goroutine of Stdin(): what  *)
(* becomes of messages whose Sends overlap is any of what the race allows. *)
(***************************************************************************)
EXTENDS Naturals, Sequences

CONSTANTS Setups,      \* how the command gets its privileges
          MaxChunks,   \* bound on the chunks a command writes
          Window,      \* messages to the client that Send does not wait for
          StartFails,  \* whether starting the process may fail
          Disconnects  \* whether the connection may break

ASSUME TaskAssumption ==
    /\ Setups \subseteq {"plain", "nopass", "password"}
    /\ MaxChunks \in Nat
    /\ Window \in Nat \ {0}
    /\ {StartFails, Disconnects} \subseteq BOOLEAN

Pipes == {"stdout", "stderr"}

VARIABLES
    setup,    \* the privileges of this command
    srv,      \* control state of the handler: BackgroundExec, start and run
    listed,   \* the task is in backgroundTaskManager.tasks
    exited,   \* task.exited
    runs,     \* how often the command has been executed
    proc,     \* "none", "running", "exited" or "killed"
    open,     \* the daemon's ends of the pipes are open
    written,  \* written[k]: chunks the command has written to pipe k
    taken,    \* taken[k]: chunks that pipeOutput has read from pipe k
    rdr,      \* rdr[k]: control state of pipeOutput(k), "send" inside stream.Send
    crd,      \* control state of readClientStream, "write" inside stdin.Write
    down, up, \* messages to and from the client
    broken,   \* the connection is gone
    cli,      \* control state of the client: startBackgroundTask, readLoop
    got,      \* got[k]: chunks the user has received
    code,     \* the client has the exit code
    asked,    \* what the user has done: a subset of {"cancel", "stdin"}
    sends,    \* those of them whose Send is under way
    mixed     \* the directions, "down" and "up", in which Sends have overlapped

server == <<srv, listed, exited, runs, rdr, crd>>
process == <<proc, open, written, taken>>
stream == <<down, up, broken>>
client == <<cli, got, code, asked, sends>>
vars == <<setup, server, process, stream, client, mixed>>

Init ==
    /\ setup \in Setups
    /\ srv = "setup"
    /\ listed = FALSE
    /\ exited = FALSE
    /\ runs = 0
    /\ proc = "none"
    /\ open = FALSE
    /\ written = [k \in Pipes |-> 0]
    /\ taken = [k \in Pipes |-> 0]
    /\ rdr = [k \in Pipes |-> "off"]
    /\ crd = "off"
    /\ down = <<>>
    /\ up = <<>>
    /\ broken = FALSE
    /\ cli = "starting"
    /\ got = [k \in Pipes |-> 0]
    /\ code = FALSE
    /\ asked = {}
    /\ sends = {}
    /\ mixed = {}

Kill == proc' = IF proc = "running" THEN "killed" ELSE proc

\* A Send fails when the connection is gone and waits while the window is full.
Send(m) == ~broken /\ Len(down) < Window /\ down' = Append(down, m)

-------------------------------------------------------------------------------
(* The handler's goroutine.                                                *)

\* BackgroundExec: with cached credentials, tryCachedSudo runs the command to
\* its end; otherwise the password prompt may fail.
BackgroundExec ==
    /\ srv = "setup"
    /\ \/ setup = "plain" /\ srv' = "start" /\ UNCHANGED runs
       \/ setup = "nopass" /\ srv' = "probe" /\ runs' = runs + 1
       \/ setup = "password" /\ srv' \in {"start", "returned"} /\ UNCHANGED runs
    /\ UNCHANGED <<setup, listed, exited, rdr, crd, process, stream, client, mixed>>

\* Mutant of tryCachedSudo: a command that failed is tried again.
TriesAgain ==
    /\ srv = "probe"
    /\ \/ srv' = "start" /\ UNCHANGED runs
       \/ runs' = runs + 1 /\ UNCHANGED srv
    /\ UNCHANGED <<setup, listed, exited, rdr, crd, process, stream, client, mixed>>

tryCachedSudo ==
    /\ srv = "probe"
    /\ srv' = "start"
    /\ UNCHANGED <<setup, listed, exited, runs, rdr, crd, process, stream, client, mixed>>

\* The swap of sendExit: only its first caller sends, and only if nothing else
\* has set the flag.
sendExit ==
    /\ exited' = TRUE
    /\ IF exited \/ broken THEN UNCHANGED down ELSE Send("exit")

\* start, and run up to cmd.Start.  A command made for a password has its Stdin
\* set, for which StdinPipe fails.
start ==
    /\ srv = "start"
    /\ listed' = TRUE
    /\ \/ /\ StartFails \/ setup = "password"
          /\ sendExit
          /\ srv' = "unlist"
          /\ UNCHANGED <<runs, proc, open>>
       \/ /\ setup # "password"
          /\ proc' = "running"
          /\ open' = TRUE
          /\ runs' = runs + 1
          /\ srv' = "started"
          /\ UNCHANGED <<exited, down>>
    /\ UNCHANGED <<setup, rdr, crd, written, taken, up, broken, client, mixed>>

\* Mutant of SendStarted: the process is not killed when the client is gone.
SendStartedNoKill ==
    /\ srv = "started"
    /\ \/ broken /\ srv' = "unlist" /\ UNCHANGED <<down, rdr, crd>>
       \/ /\ Send("started")
          /\ rdr' = [k \in Pipes |-> "read"]
          /\ crd' = "recv"
          /\ srv' = "wait"
    /\ UNCHANGED <<setup, listed, exited, runs, process, up, broken, client, mixed>>

SendStarted ==
    /\ srv = "started"
    /\ \/ /\ broken
          /\ Kill
          /\ srv' = "unlist"
          /\ UNCHANGED <<down, rdr, crd>>
       \/ /\ Send("started")
          /\ rdr' = [k \in Pipes |-> "read"]
          /\ crd' = "recv"
          /\ srv' = "wait"
          /\ UNCHANGED proc
    /\ UNCHANGED <<setup, listed, exited, runs, open, written, taken, up, broken, client, mixed>>

\* cmd.Wait closes the pipes as soon as the process has ended.
Wait ==
    /\ srv = "wait"
    /\ proc \in {"exited", "killed"}
    /\ open' = FALSE
    /\ exited' = TRUE
    /\ srv' = "flush"
    /\ UNCHANGED <<setup, listed, runs, rdr, crd, proc, written, taken, stream, client, mixed>>

\* Mutant of Flush: wg.Wait is left out.
FlushAtOnce ==
    /\ srv = "flush"
    /\ sendExit
    /\ srv' = "unlist"
    /\ UNCHANGED <<setup, listed, runs, rdr, crd, process, up, broken, client, mixed>>

\* wg.Wait and sendExit.
Flush ==
    /\ srv = "flush"
    /\ \A k \in Pipes : rdr[k] = "done"
    /\ sendExit
    /\ srv' = "unlist"
    /\ UNCHANGED <<setup, listed, runs, rdr, crd, process, up, broken, client, mixed>>

\* start returns, and the handler with it: the stream ends.
Unlist ==
    /\ srv = "unlist"
    /\ listed' = FALSE
    /\ srv' = "returned"
    /\ UNCHANGED <<setup, exited, runs, rdr, crd, process, stream, client, mixed>>

-------------------------------------------------------------------------------
(* The other goroutines of the task.                                       *)

\* pipeOutput, from a Read that gave something into Send, or to its end.  The
\* other pipe's Send may be under way.
ReadPipe(k) ==
    /\ rdr[k] = "read"
    /\ \/ /\ open /\ taken[k] < written[k]
          /\ taken' = [taken EXCEPT ![k] = @ + 1]
          /\ rdr' = [rdr EXCEPT ![k] = "send"]
          /\ mixed' = IF \E j \in Pipes : rdr[j] = "send" THEN mixed \cup {"down"} ELSE mixed
       \/ \* the end of the output, or the pipe was closed
          /\ ~open \/ (proc # "running" /\ taken[k] = written[k])
          /\ rdr' = [rdr EXCEPT ![k] = "done"]
          /\ UNCHANGED <<taken, mixed>>
    /\ UNCHANGED <<setup, srv, listed, exited, runs, crd, proc, open, written, stream, client>>

\* The end of a Send.  When Sends have overlapped, the chunk may also be lost, spoil
\* the stream or be refused.
SendChunk(k) ==
    /\ rdr[k] = "send"
    /\ \/ /\ broken \/ "down" \in mixed
          /\ Kill
          /\ rdr' = [rdr EXCEPT ![k] = "done"]
          /\ UNCHANGED down
       \/ /\ \/ Send(k)
             \/ "down" \in mixed /\ (UNCHANGED down \/ Send("garbled"))
          /\ rdr' = [rdr EXCEPT ![k] = "read"]
          /\ UNCHANGED proc
    /\ UNCHANGED <<setup, srv, listed, exited, runs, crd, open, written, taken, up,
                   broken, client, mixed>>

\* The worst of two Sends at once: one finds the other's buffer in a state that
\* makes it panic, and the daemon ends; its commands do not.
Panic ==
    /\ "down" \in mixed
    /\ \E k \in Pipes : rdr[k] = "send"
    /\ srv' = "crashed"
    /\ rdr' = [k \in Pipes |-> "done"]
    /\ crd' = "done"
    /\ open' = FALSE
    /\ broken' = TRUE
    /\ UNCHANGED <<setup, listed, exited, runs, proc, written, taken, down, up, client, mixed>>

KillUnlessExited == IF exited THEN UNCHANGED proc ELSE Kill

\* Receive fails: the connection is gone, or the handler has returned.
StreamEnded == broken \/ (up = <<>> /\ srv = "returned")

\* Input for the command goes through at once, or waits for it to read.
WritesStdin ==
    /\ ~broken /\ up # <<>> /\ Head(up) = "stdin"
    /\ up' = Tail(up)
    /\ crd' \in {"recv", "write"}
    /\ UNCHANGED proc

\* What Sends that overlapped have made of a message: one without an action, if it
\* can be read at all.
SkipsGarbled ==
    /\ ~broken /\ up # <<>> /\ Head(up) = "garbled"
    /\ up' = Tail(up)
    /\ UNCHANGED <<crd, proc>>

\* Mutants of readClientStream: the end of the stream, or a cancel, does not
\* kill the process.
IgnoresDisconnect ==
    /\ \/ crd = "recv" /\ StreamEnded /\ crd' = "done" /\ UNCHANGED <<proc, up>>
       \/ /\ crd = "recv" /\ ~broken /\ up # <<>>
          /\ Head(up) \in {"cancel", "garbled"}
          /\ up' = Tail(up)
          /\ KillUnlessExited
          /\ crd' = "done"
       \/ crd = "recv" /\ (WritesStdin \/ SkipsGarbled)
       \/ crd = "write" /\ ~open /\ crd' = "recv" /\ UNCHANGED <<proc, up>>
    /\ UNCHANGED <<setup, srv, listed, exited, runs, rdr, open, written, taken, down,
                   broken, client, mixed>>

IgnoresCancel ==
    /\ \/ crd = "recv" /\ StreamEnded /\ KillUnlessExited /\ crd' = "done" /\ UNCHANGED up
       \/ /\ crd = "recv" /\ ~broken /\ up # <<>>
          /\ Head(up) \in {"cancel", "garbled"}
          /\ up' = Tail(up)
          /\ UNCHANGED <<crd, proc>>
       \/ crd = "recv" /\ (WritesStdin \/ SkipsGarbled)
       \/ crd = "write" /\ ~open /\ crd' = "recv" /\ UNCHANGED <<proc, up>>
    /\ UNCHANGED <<setup, srv, listed, exited, runs, rdr, open, written, taken, down,
                   broken, client, mixed>>

\* As long as stdin.Write waits nothing is received; that the pipe is closed ends it.
readClientStream ==
    /\ \/ crd = "recv" /\ StreamEnded /\ KillUnlessExited /\ crd' = "done" /\ UNCHANGED up
       \/ /\ crd = "recv" /\ ~broken /\ up # <<>>
          /\ Head(up) \in {"cancel", "garbled"}
          /\ up' = Tail(up)
          /\ KillUnlessExited
          /\ crd' = "done"
       \/ crd = "recv" /\ (WritesStdin \/ SkipsGarbled)
       \/ crd = "write" /\ ~open /\ crd' = "recv" /\ UNCHANGED <<proc, up>>
    /\ UNCHANGED <<setup, srv, listed, exited, runs, rdr, open, written, taken, down,
                   broken, client, mixed>>

-------------------------------------------------------------------------------
(* The process and the connection.                                         *)

Write(k) ==
    /\ proc = "running"
    /\ written["stdout"] + written["stderr"] < MaxChunks
    /\ written' = [written EXCEPT ![k] = @ + 1]
    /\ UNCHANGED <<setup, server, proc, open, taken, stream, client, mixed>>

\* The command reads what stdin.Write waits to be rid of.
ReadStdin ==
    /\ proc = "running"
    /\ crd = "write"
    /\ crd' = "recv"
    /\ UNCHANGED <<setup, srv, listed, exited, runs, rdr, process, stream, client, mixed>>

Exit ==
    /\ proc = "running"
    /\ proc' = "exited"
    /\ UNCHANGED <<setup, server, open, written, taken, stream, client, mixed>>

Disconnect ==
    /\ Disconnects
    /\ ~broken
    /\ broken' = TRUE
    /\ UNCHANGED <<setup, server, process, down, up, client, mixed>>

-------------------------------------------------------------------------------
(* The plugin.                                                             *)

EndOfStream == down = <<>> /\ (broken \/ srv = "returned")

\* startBackgroundTask, from its Receive on.
startBackgroundTask ==
    /\ cli = "starting"
    /\ \/ /\ down # <<>>
          /\ cli' = IF Head(down) = "started" THEN "loop" ELSE "failed"
          /\ down' = Tail(down)
       \/ EndOfStream /\ cli' = "failed" /\ UNCHANGED down
    /\ UNCHANGED <<setup, server, process, up, broken, got, code, asked, sends, mixed>>

\* readLoop.  A chunk goes to the merged pipe first, where it waits for the user.
readLoop ==
    /\ cli = "loop"
    /\ \/ /\ down # <<>> /\ Head(down) \in Pipes
          /\ cli' = Head(down)
          /\ down' = Tail(down)
          /\ UNCHANGED code
       \/ /\ down # <<>> /\ Head(down) = "exit"
          /\ cli' = "done"
          /\ down' = Tail(down)
          /\ code' = TRUE
       \/ \* a message that overlapping Sends have spoilt: an error, or one without an event
          /\ down # <<>> /\ Head(down) = "garbled"
          /\ cli' \in {"loop", "done"}
          /\ down' = Tail(down)
          /\ UNCHANGED code
       \/ EndOfStream /\ cli' = "done" /\ UNCHANGED <<down, code>>
    /\ UNCHANGED <<setup, server, process, up, broken, got, asked, sends, mixed>>

\* The user takes the chunk from Stdout().
fanOut ==
    /\ cli \in Pipes
    /\ got' = [got EXCEPT ![cli] = @ + 1]
    /\ cli' = "loop"
    /\ UNCHANGED <<setup, server, process, stream, code, asked, sends, mixed>>

Started == cli \in {"loop"} \cup Pipes

Begins(m) ==
    /\ Started
    /\ m \notin asked
    /\ asked' = asked \cup {m}
    /\ sends' = sends \cup {m}
    /\ mixed' = IF sends # {} THEN mixed \cup {"up"} ELSE mixed
    /\ UNCHANGED <<setup, server, process, stream, cli, got, code>>

Cancel == Begins("cancel")

\* The user writes to Stdin() and closes it: the chunk is sent, and the goroutine
\* of Stdin() ends without a word to the daemon.
CloseStdin == Begins("stdin")

\* The end of either's Send.  One that overlapped the other's may be lost or
\* spoil the stream.
EndSend(m) ==
    /\ m \in sends
    /\ sends' = sends \ {m}
    /\ \/ up' = Append(up, m)
       \/ "up" \in mixed /\ (UNCHANGED up \/ up' = Append(up, "garbled"))
    /\ UNCHANGED <<setup, server, process, down, broken, cli, got, code, asked, mixed>>

-------------------------------------------------------------------------------

Handler ==
    BackgroundExec \/ start \/ SendStarted \/ Wait \/ Flush \/ Unlist

Client == startBackgroundTask \/ readLoop \/ fanOut

Next ==
    \/ Handler \/ tryCachedSudo \/ readClientStream
    \/ \E k \in Pipes : ReadPipe(k) \/ SendChunk(k) \/ Write(k)
    \/ Panic \/ ReadStdin \/ Exit \/ Disconnect
    \/ Client \/ Cancel \/ CloseStdin \/ \E m \in asked : EndSend(m)

\* Goroutines that can run do.  Nothing obliges a command to write, to read, to exit or,
\* under tryCachedSudo, to end, a connection to break, or a user to act, except
\* to read Stdout(), for which every chunk waits.
Fairness ==
    /\ WF_vars(Handler)
    /\ WF_vars(readClientStream)
    /\ \A k \in Pipes : WF_vars(ReadPipe(k) \/ SendChunk(k))
    /\ WF_vars(Client)
    /\ \A m \in {"cancel", "stdin"} : WF_vars(EndSend(m))

Spec == Init /\ [][Next]_vars /\ Fairness

-------------------------------------------------------------------------------
(* Properties.                                                             *)

\* Every variable has its type.
TypeOK ==
    /\ setup \in Setups
    /\ srv \in {"setup", "probe", "start", "started", "wait", "flush", "unlist", "returned",
                "crashed"}
    /\ {listed, exited, open, broken, code} \subseteq BOOLEAN
    /\ runs \in 0 .. 2
    /\ proc \in {"none", "running", "exited", "killed"}
    /\ written \in [Pipes -> 0 .. MaxChunks]
    /\ taken \in [Pipes -> 0 .. MaxChunks]
    /\ rdr \in [Pipes -> {"off", "read", "send", "done"}]
    /\ crd \in {"off", "recv", "write", "done"}
    /\ down \in Seq({"started", "exit", "garbled"} \cup Pipes)
    /\ up \in Seq({"cancel", "stdin", "garbled"})
    /\ cli \in {"starting", "failed", "loop", "done"} \cup Pipes
    /\ got \in [Pipes -> 0 .. MaxChunks]
    /\ asked \subseteq {"cancel", "stdin"}
    /\ sends \subseteq asked
    /\ mixed \subseteq {"down", "up"}

\* When the handler has returned, the command it started is no longer running,
\* on whichever path it returned: a client that went away before the first
\* message, a cancel, a failing Send or an ordinary end.
NoProcessLeft == TypeOK /\ (srv = "returned" => proc # "running")

\* Output that has been read from a pipe is not lost on its way, although the
\* handler may return as soon as the command has ended: when the client has seen
\* the end of a stream that did not break, the user has received it.  Not so when
\* the goroutines of the two pipes were once in Send at the same time, which
\* nothing prevents; nor then is more received than was read.
TakenIsReceived ==
    \A k \in Pipes : /\ got[k] <= taken[k]
                     /\ cli = "done" /\ ~broken /\ "down" \notin mixed => got[k] = taken[k]

\* "The command runs until it exits or the client cancels" (exec.proto:27): a
\* cancel ends the command and the task, whatever is in the pipes; unless its Send
\* overlapped that of some input, or two of the daemon's overlapped.
CancelEnds == "cancel" \in asked ~> (srv = "returned" /\ proc # "running") \/ mixed # {}

\* A task whose client has gone away is ended and taken off the list; only the
\* run of the whole command by tryCachedSudo does not notice.
DisconnectEnds ==
    broken /\ srv # "probe" ~> srv \in {"probe", "crashed"} \/ (srv = "returned" /\ ~listed)

\* Either way, whoever no longer wants the command is rid of it, if no write to the
\* command's stdin waits for ever: the goroutine that receives the cancel, and the
\* end of the stream, is the one that writes.
UnwantedTasksEnd == []<>(crd # "write") => CancelEnds /\ DisconnectEnds

===============================================================================
