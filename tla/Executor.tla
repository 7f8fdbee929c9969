------------------------------- MODULE Executor -------------------------------
(***************************************************************************)
(* Calls of a plugin's methods through the daemon                          *)
(* (dotfilesd/internal/pkg/daemon/executor_svc.go), from the command line  *)
(* that makes them (cli/protoflags.go) to the plugin's Context, whose      *)
(* Stdin, Stdout and Stderr are calls of the daemon's IOService (io.go).   *)
(*                                                                         *)
(* Every call has a handler, a goroutine that receives the client's input  *)
(* and one that waits for the method's HTTP response.  Output reaches the  *)
(* call by way of two tables, one by client and one by plugin.  All calls  *)
(* here are of one plugin: calls of two plugins share no entry.            *)
(***************************************************************************)
EXTENDS Naturals, Sequences

CONSTANTS Calls,      \* calls, each with a client id of its own
          Pipes,      \* the output pipes that methods use
          QueueSize,  \* capacity of stdoutChan and stderrChan: 256 in the code
          MaxLines,   \* bound on the lines a method writes
          MaxInput,   \* bound on the messages a client sends
          Breaks      \* whether clients may go away

None == "none"

ASSUME ExecutorAssumption ==
    /\ None \notin Calls
    /\ "stdout" \in Pipes
    /\ Pipes \subseteq {"stdout", "stderr"}
    /\ QueueSize \in Nat \ {0}
    /\ {MaxLines, MaxInput} \subseteq Nat
    /\ Breaks \in BOOLEAN

\* A line of output: the call whose method wrote it, by which way, and as its
\* how manyth, counted from nought.
Lines == [from : Calls, via : {"log", "tty"}, n : 0 .. MaxLines]

VARIABLES
    hnd,       \* hnd[c]: control state of CallPlugin
    byClient,  \* activeCallsByClient: the calls with an entry
    byPlugin,  \* activeCallsByPlugin: the entry of the plugin, or None
    queue,     \* queue[c][k]: stdoutChan and stderrChan
    buf, eof,  \* buf[c], eof[c]: stdinBuf (in keys) and stdinEOF
    resize,    \* calls with a pending resize
    inp,       \* inp[c]: the goroutine that receives from the client
    http,      \* http[c]: the goroutine that makes the HTTP call
    result,    \* result[c]: what is in resultCh
    rd,        \* rd[c]: a ReadStdin handler that serves c's method
    push,      \* push[c]: a Log handler that serves c's method
    meth,      \* meth[c]: control state of the plugin's method
    wrote,     \* wrote[c]: lines the method has written
    up, sent,  \* up[c]: messages from the client; sent[c]: how many it has sent
    gone,      \* clients that have gone away
    answer,    \* answer[c]: what the client has been told
    panicked   \* a goroutine of the daemon has panicked, and ended it

registry == <<byClient, byPlugin>>
input == <<buf, eof, resize>>
handlers == <<hnd, inp, http, result, rd, push>>
plugin == <<meth, wrote>>
clients == <<up, sent, gone, answer>>
execVars == <<registry, queue, input, handlers, plugin, clients, panicked>>

NoPush == [at |-> "off"]

ExecInit ==
    /\ hnd = [c \in Calls |-> "idle"]
    /\ byClient = {}
    /\ byPlugin = None
    /\ queue = [c \in Calls |-> [k \in Pipes |-> <<>>]]
    /\ buf = [c \in Calls |-> 0]
    /\ eof = [c \in Calls |-> FALSE]
    /\ resize = {}
    /\ inp = [c \in Calls |-> "off"]
    /\ http = [c \in Calls |-> "off"]
    /\ result = [c \in Calls |-> None]
    /\ rd = [c \in Calls |-> "off"]
    /\ push = [c \in Calls |-> NoPush]
    /\ meth = [c \in Calls |-> "off"]
    /\ wrote = [c \in Calls |-> 0]
    /\ up = [c \in Calls |-> <<>>]
    /\ sent = [c \in Calls |-> 0]
    /\ gone = {}
    /\ answer = [c \in Calls |-> None]
    /\ panicked = FALSE

\* activeCallsMu: PushPluginOutput holds it for reading until its line is in a
\* queue or lost, and the tables change only while nobody holds it.
Unlocked == \A c \in Calls : push[c] = NoPush

\* CloseStdin finds the call by its client id.
CloseStdin(c) == eof' = IF c \in byClient THEN [eof EXCEPT ![c] = TRUE] ELSE eof

Tell(c, what) == answer' = IF c \in gone THEN answer ELSE [answer EXCEPT ![c] = what]

-------------------------------------------------------------------------------
(* CallPlugin.                                                             *)

\* A request without a name, or for a plugin that is not there.
Refuse(c) ==
    /\ hnd[c] = "idle"
    /\ Tell(c, "error")
    /\ hnd' = [hnd EXCEPT ![c] = "returned"]
    /\ UNCHANGED <<registry, queue, input, inp, http, result, rd, push, plugin, up, sent,
                   gone, panicked>>

\* registerCall, and the start of the two goroutines and of the method.
Register(c) ==
    /\ hnd[c] = "idle"
    /\ Unlocked
    /\ byClient' = byClient \cup {c}
    /\ byPlugin' = c
    /\ hnd' = [hnd EXCEPT ![c] = "loop"]
    /\ inp' = [inp EXCEPT ![c] = "recv"]
    /\ http' = [http EXCEPT ![c] = "calling"]
    /\ meth' = [meth EXCEPT ![c] = "run"]
    /\ UNCHANGED <<queue, input, result, rd, push, wrote, clients, panicked>>

\* The select loop and the drain loop: a chunk for the client.
Forward(c, k) ==
    /\ hnd[c] \in {"loop", "drain"}
    /\ queue[c][k] # <<>>
    /\ queue' = [queue EXCEPT ![c][k] = Tail(@)]
    /\ hnd' = IF c \in gone THEN [hnd EXCEPT ![c] = "close"] ELSE hnd
    /\ UNCHANGED <<registry, input, inp, http, result, rd, push, plugin, clients, panicked>>

\* Mutants of TakeResult: the response is sent without draining the queues; the
\* loop goes on after close(call.done) and takes that for the end.
RespondsAtOnce(c) ==
    /\ hnd[c] = "loop"
    /\ result[c] # None
    /\ Tell(c, IF result[c] = "ok" THEN "response" ELSE "error")
    /\ hnd' = [hnd EXCEPT ![c] = "close"]
    /\ UNCHANGED <<registry, queue, input, inp, http, result, rd, push, plugin, up, sent,
                   gone, panicked>>

TakesDone(c) ==
    /\ hnd[c] = "loop"
    /\ result[c] # None
    /\ hnd' = [hnd EXCEPT ![c] = "close"]
    /\ UNCHANGED <<registry, queue, input, inp, http, result, rd, push, plugin, clients,
                   panicked>>

TakeResult(c) ==
    /\ hnd[c] = "loop"
    /\ \/ /\ result[c] = "ok"
          /\ hnd' = [hnd EXCEPT ![c] = "drain"]
          /\ UNCHANGED answer
       \/ /\ result[c] = "error"
          /\ Tell(c, "error")
          /\ hnd' = [hnd EXCEPT ![c] = "close"]
    /\ UNCHANGED <<registry, queue, input, inp, http, result, rd, push, plugin, up, sent,
                   gone, panicked>>

Respond(c) ==
    /\ hnd[c] = "drain"
    /\ \A k \in Pipes : queue[c][k] = <<>>
    /\ Tell(c, "response")
    /\ hnd' = [hnd EXCEPT ![c] = "close"]
    /\ UNCHANGED <<registry, queue, input, inp, http, result, rd, push, plugin, up, sent,
                   gone, panicked>>

\* Mutant of Close: the call is unregistered first, and CloseStdin finds nothing.
CloseUnregistered(c) ==
    /\ hnd[c] = "close"
    /\ hnd' = [hnd EXCEPT ![c] = "unregister"]
    /\ UNCHANGED <<registry, queue, input, inp, http, result, rd, push, plugin, clients,
                   panicked>>

\* The deferred function: CloseStdin, then unregisterCall.
Close(c) ==
    /\ hnd[c] = "close"
    /\ CloseStdin(c)
    /\ hnd' = [hnd EXCEPT ![c] = "unregister"]
    /\ UNCHANGED <<registry, queue, buf, resize, inp, http, result, rd, push, plugin,
                   clients, panicked>>

\* Mutant of Unregister: the plugin's entry is left as long as another call of it
\* is active.
KeepsEntry(c) ==
    /\ hnd[c] = "unregister"
    /\ Unlocked
    /\ byClient' = byClient \ {c}
    /\ byPlugin' = IF byClient = {c} THEN None ELSE byPlugin
    /\ hnd' = [hnd EXCEPT ![c] = "returned"]
    /\ UNCHANGED <<queue, input, inp, http, result, rd, push, plugin, clients, panicked>>

\* The plugin's entry goes, whichever call it is for.
Unregister(c) ==
    /\ hnd[c] = "unregister"
    /\ Unlocked
    /\ byClient' = byClient \ {c}
    /\ byPlugin' = None
    /\ hnd' = [hnd EXCEPT ![c] = "returned"]
    /\ UNCHANGED <<queue, input, inp, http, result, rd, push, plugin, clients, panicked>>

-------------------------------------------------------------------------------
(* Its two goroutines.                                                     *)

\* Receive ends when the client is gone, has closed its side (it does so once it
\* has its answer), or the handler has returned.
ReceiveInput(c) ==
    /\ inp[c] = "recv"
    /\ \/ /\ up[c] # <<>> /\ c \notin gone /\ hnd[c] # "returned"
          /\ up' = [up EXCEPT ![c] = Tail(@)]
          /\ IF c \notin byClient THEN UNCHANGED input
             ELSE IF Head(up[c]) = "key"
             THEN buf' = [buf EXCEPT ![c] = @ + 1] /\ UNCHANGED <<eof, resize>>
             ELSE resize' = resize \cup {c} /\ UNCHANGED <<buf, eof>>
          /\ UNCHANGED inp
       \/ /\ c \in gone \/ hnd[c] = "returned" \/ (answer[c] # None /\ up[c] = <<>>)
          /\ CloseStdin(c)
          /\ inp' = [inp EXCEPT ![c] = "done"]
          /\ UNCHANGED <<buf, resize, up>>
    /\ UNCHANGED <<registry, queue, hnd, http, result, rd, push, plugin, sent, gone, answer,
                   panicked>>

\* Mutant of HttpResult: the request does not carry the context.
WithoutContext(c) ==
    /\ http[c] = "calling"
    /\ \/ meth[c] = "returned" /\ result' = [result EXCEPT ![c] = "ok"]
       \/ meth[c] = "failed" /\ result' = [result EXCEPT ![c] = "error"]
    /\ http' = [http EXCEPT ![c] = "done"]
    /\ UNCHANGED <<registry, queue, input, hnd, inp, rd, push, plugin, clients, panicked>>

\* http.Do ends with the method, or with the context of the request.
\* resultCh has room for one result, so nobody need be there to take it.
HttpResult(c) ==
    /\ http[c] = "calling"
    /\ \/ meth[c] = "returned" /\ result' = [result EXCEPT ![c] = "ok"]
       \/ /\ meth[c] = "failed" \/ c \in gone \/ hnd[c] = "returned"
          /\ result' = [result EXCEPT ![c] = "error"]
    /\ http' = [http EXCEPT ![c] = "done"]
    /\ UNCHANGED <<registry, queue, input, hnd, inp, rd, push, plugin, clients, panicked>>

-------------------------------------------------------------------------------
(* The method and the IOService.                                           *)

\* PushPluginOutput looks for the plugin's entry before the client's.
Target(c) == IF byPlugin # None THEN byPlugin ELSE IF c \in byClient THEN c ELSE None

\* A queue that is full loses its oldest element; another sender may fill it
\* before this one tries again.
HasRoom(d, k) == Len(queue[d][k]) < QueueSize
Put(d, k, line) == queue' = [queue EXCEPT ![d][k] = Append(@, line)]

\* Mutant of Displace: no default case, and a queue that was emptied meanwhile
\* is waited for, with the lock.
WaitsForOldest(d, k) == queue[d][k] # <<>> /\ queue' = [queue EXCEPT ![d][k] = Tail(@)]

Displace(d, k) ==
    queue' = IF queue[d][k] = <<>> THEN queue ELSE [queue EXCEPT ![d][k] = Tail(@)]
Retry(d, k, line) == IF HasRoom(d, k) THEN Put(d, k, line) ELSE UNCHANGED queue

\* Mutant of Log: flushLine does not wait for the answer.
LogsAndGoesOn(c, k) ==
    /\ meth[c] = "run"
    /\ wrote[c] < MaxLines
    /\ wrote' = [wrote EXCEPT ![c] = @ + 1]
    /\ LET line == [from |-> c, via |-> "log", n |-> wrote[c]]
           d == Target(c)
       IN \/ d = None /\ UNCHANGED <<queue, push>>
          \/ d # None /\ HasRoom(d, k) /\ Put(d, k, line) /\ UNCHANGED push
          \/ /\ d # None
             /\ ~HasRoom(d, k)
             /\ push[c] = NoPush
             /\ push' = [push EXCEPT ![c] =
                            [at |-> "full", to |-> d, pipe |-> k, line |-> line]]
             /\ UNCHANGED queue
    /\ UNCHANGED <<registry, input, hnd, inp, http, result, rd, meth, clients, panicked>>

\* A line of the method's Stdout() or Stderr(): daemonLogWriter.flushLine waits
\* for IOService.Log, and that for PushPluginOutput.
Log(c, k) ==
    /\ meth[c] = "run"
    /\ wrote[c] < MaxLines
    /\ wrote' = [wrote EXCEPT ![c] = @ + 1]
    /\ LET line == [from |-> c, via |-> "log", n |-> wrote[c]]
           d == Target(c)
       IN \/ d = None /\ UNCHANGED <<queue, meth, push>>
          \/ /\ d # None
             /\ HasRoom(d, k)
             /\ Put(d, k, line)
             /\ UNCHANGED <<meth, push>>
          \/ /\ d # None
             /\ ~HasRoom(d, k)
             /\ meth' = [meth EXCEPT ![c] = "log"]
             /\ push' = [push EXCEPT ![c] =
                            [at |-> "full", to |-> d, pipe |-> k, line |-> line]]
             /\ UNCHANGED queue
    /\ UNCHANGED <<registry, input, hnd, inp, http, result, rd, clients, panicked>>

PushPluginOutput(c) ==
    /\ \/ /\ push[c].at = "full"
          /\ Displace(push[c].to, push[c].pipe)
          /\ push' = [push EXCEPT ![c].at = "retry"]
          /\ UNCHANGED meth
       \/ /\ push[c].at = "retry"
          /\ Retry(push[c].to, push[c].pipe, push[c].line)
          /\ push' = [push EXCEPT ![c] = NoPush]
          /\ meth' = IF meth[c] = "log" THEN [meth EXCEPT ![c] = "run"] ELSE meth
    /\ UNCHANGED <<registry, input, hnd, inp, http, result, rd, wrote, clients, panicked>>

\* The method's Stdin(): ReadStdin answers at once if the call is not registered.
Read(c) ==
    /\ meth[c] = "run"
    /\ rd[c] = "off"
    /\ c \in byClient
    /\ meth' = [meth EXCEPT ![c] = "read"]
    /\ rd' = [rd EXCEPT ![c] = "wait"]
    /\ UNCHANGED <<registry, queue, input, hnd, inp, http, result, push, wrote, clients,
                   panicked>>

\* Mutant of ReadStdinFromCall: maxBytes is not cut to what is there.
ReadsMaxBytes(c) ==
    /\ rd[c] = "wait"
    /\ \/ \E n \in 1 .. MaxInput + 1 : buf' = [buf EXCEPT ![c] = @ - n]
       \/ buf[c] = 0 /\ eof[c] /\ UNCHANGED buf
    /\ rd' = [rd EXCEPT ![c] = "off"]
    /\ meth' = IF meth[c] = "read" THEN [meth EXCEPT ![c] = "run"] ELSE meth
    /\ UNCHANGED <<registry, queue, eof, resize, hnd, inp, http, result, push, wrote,
                   clients, panicked>>

\* ReadStdinFromCall: at most maxBytes of what is there, or the end.
ReadStdinFromCall(c) ==
    /\ rd[c] = "wait"
    /\ \/ \E n \in 1 .. buf[c] : buf' = [buf EXCEPT ![c] = @ - n]
       \/ buf[c] = 0 /\ eof[c] /\ UNCHANGED buf
    /\ rd' = [rd EXCEPT ![c] = "off"]
    /\ meth' = IF meth[c] = "read" THEN [meth EXCEPT ![c] = "run"] ELSE meth
    /\ UNCHANGED <<registry, queue, eof, resize, hnd, inp, http, result, push, wrote,
                   clients, panicked>>

Return(c) ==
    /\ meth[c] = "run"
    /\ meth' = [meth EXCEPT ![c] = "returned"]
    /\ UNCHANGED <<registry, queue, input, handlers, wrote, clients, panicked>>

\* The method returns an error, or its plugin dies, whatever it was doing.  Its
\* terminal, if it has one, ends with it.
Fail(c) ==
    /\ meth[c] \notin {"off", "returned", "failed"}
    /\ meth' = [meth EXCEPT ![c] = "failed"]
    /\ UNCHANGED <<registry, queue, input, handlers, wrote, clients, panicked>>

-------------------------------------------------------------------------------
(* The client.                                                             *)

Send(c, m) ==
    /\ hnd[c] # "idle"
    /\ answer[c] = None
    /\ c \notin gone
    /\ sent[c] < MaxInput
    /\ sent' = [sent EXCEPT ![c] = @ + 1]
    /\ up' = [up EXCEPT ![c] = Append(@, m)]
    /\ UNCHANGED <<registry, queue, input, handlers, plugin, gone, answer, panicked>>

GoAway(c) ==
    /\ Breaks
    /\ hnd[c] # "idle"
    /\ answer[c] = None
    /\ c \notin gone
    /\ gone' = gone \cup {c}
    /\ UNCHANGED <<registry, queue, input, handlers, plugin, up, sent, answer, panicked>>

-------------------------------------------------------------------------------

Handler(c) ==
    \/ \E k \in Pipes : Forward(c, k)
    \/ TakeResult(c) \/ Respond(c) \/ Close(c) \/ Unregister(c)

Daemon(c) ==
    \/ Refuse(c) \/ Register(c) \/ Handler(c) \/ ReceiveInput(c) \/ HttpResult(c)
    \/ PushPluginOutput(c) \/ ReadStdinFromCall(c)

\* What a method does when it has no terminal open.
Plain(c) == Read(c) \/ Return(c)

Outside(c) ==
    \/ \E k \in Pipes : Log(c, k)
    \/ Fail(c)
    \/ \E m \in {"key", "resize"} : Send(c, m)
    \/ GoAway(c)

-------------------------------------------------------------------------------
(* Properties.                                                             *)

\* Every variable has its type.
ExecTypeOK ==
    /\ hnd \in [Calls -> {"idle", "loop", "drain", "close", "unregister", "returned"}]
    /\ byClient \subseteq Calls
    /\ byPlugin \in Calls \cup {None}
    /\ \A c \in Calls : \A k \in Pipes :
          queue[c][k] \in Seq(Lines) /\ Len(queue[c][k]) <= QueueSize
    /\ buf \in [Calls -> 0 .. MaxInput]
    /\ eof \in [Calls -> BOOLEAN]
    /\ resize \subseteq Calls
    /\ inp \in [Calls -> {"off", "recv", "done"}]
    /\ http \in [Calls -> {"off", "calling", "done"}]
    /\ result \in [Calls -> {None, "ok", "error"}]
    /\ rd \in [Calls -> {"off", "wait"}]
    /\ push \in [Calls -> {NoPush} \cup [at : {"full", "retry"}, to : Calls, pipe : Pipes,
                                         line : Lines]]
    /\ meth \in [Calls -> {"off", "run", "log", "read", "returned", "failed"}]
    /\ wrote \in [Calls -> 0 .. MaxLines]
    /\ \A c \in Calls : up[c] \in Seq({"key", "resize"})
    /\ sent \in [Calls -> 0 .. MaxInput]
    /\ gone \subseteq Calls
    /\ answer \in [Calls -> {None, "response", "error"}]
    /\ panicked \in BOOLEAN

\* A client that has the response of its method has had all its output: no line
\* that the method wrote to Stdout() or Stderr() is still in the call's queues.
OutputBeforeResponse ==
    \A c \in Calls, k \in Pipes :
        answer[c] = "response" =>
            \A i \in DOMAIN queue[c][k] :
                ~(queue[c][k][i].from = c /\ queue[c][k][i].via = "log")

\* What waits for a client, with the line that is being pushed to it, is in the
\* order in which the method wrote it, although every line is a call of its own
\* that may find the queue full and be overtaken while it makes room.
OutputKeepsItsOrder ==
    \A c, d \in Calls, k \in Pipes :
        LET mine == SelectSeq(queue[d][k], LAMBDA x : x.from = c /\ x.via = "log")
            late == IF push[c] # NoPush /\ push[c].to = d /\ push[c].pipe = k
                    THEN <<push[c].line>> ELSE <<>>
            all == mine \o late
        IN \A i, j \in DOMAIN all : i < j => all[i].n < all[j].n

\* Output is never pushed to a call that has ended, although a method may run on
\* and other calls of the plugin come and go: the plugin's entry is for a call
\* that is registered, and so is the call that a line is being pushed to.
OutputGoesToActiveCalls ==
    /\ byPlugin # None => byPlugin \in byClient
    /\ \A c \in Calls : push[c] # NoPush => push[c].to \in byClient

\* A method that has ended is answered for, unless its client is gone.
EveryMethodIsAnswered ==
    \A c \in Calls :
        meth[c] \in {"returned", "failed"}
            ~> answer[c] # None \/ c \in gone \/ panicked

\* When its client goes away a call ends, even if the method never does.
LostClientEndsCall ==
    \A c \in Calls : c \in gone ~> hnd[c] = "returned" \/ panicked

\* A call leaves none of these behind: the goroutines it started end, and so do a
\* ReadStdin that waits for its input, even if the client sends none, and a Log
\* that finds its queue full.
NothingIsLeft ==
    \A c \in Calls :
        hnd[c] = "returned"
            ~> \/ inp[c] # "recv" /\ http[c] # "calling" /\ rd[c] = "off" /\ push[c] = NoPush
               \/ panicked

===============================================================================
