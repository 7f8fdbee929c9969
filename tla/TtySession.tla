------------------------------ MODULE TtySession ------------------------------
(***************************************************************************)
(* The terminal of a call: IOService.TtySession (io.go), and the TTYConn   *)
(* at the plugin's end with the goroutine that reads from it for a pty     *)
(* (plugin/context.go, plugin/pty.go), on top of the calls of Executor,    *)
(* whose input buffer and output queue it uses.                            *)
(*                                                                         *)
(* The daemon forwards input to the plugin in a goroutine of its own, and  *)
(* the plugin's output to the call's queue in the handler.  A method opens *)
(* one terminal, as those of htop, games and tuidiag do, and closes it     *)
(* before it returns.                                                      *)
(***************************************************************************)
EXTENDS Executor

CONSTANT Terminals   \* calls whose method opens a terminal

ASSUME TtyAssumption == Terminals \subseteq Calls

Eof == [via |-> "eof"]

VARIABLES
    tty,     \* tty[c]: control state of the TtySession handler
    fwd,     \* fwd[c]: its goroutine that forwards input
    tpush,   \* tpush[c]: a line that the handler is pushing
    tin,     \* tin[c]: packets from the plugin
    tout,    \* tout[c]: packets to the plugin
    bridge,  \* bridge[c]: the goroutine that reads from the TTYConn; in "recv"
             \* it holds readMu
    conn     \* conn[c]: "open", "closing" (in Close) or "closed"

ttyVars == <<tty, fwd, tpush, tin, tout, bridge, conn>>
vars == <<execVars, ttyVars>>

Init ==
    /\ ExecInit
    /\ tty = [c \in Terminals |-> "off"]
    /\ fwd = [c \in Terminals |-> "off"]
    /\ tpush = [c \in Terminals |-> NoPush]
    /\ tin = [c \in Terminals |-> <<>>]
    /\ tout = [c \in Terminals |-> <<>>]
    /\ bridge = [c \in Terminals |-> "off"]
    /\ conn = [c \in Terminals |-> "off"]

-------------------------------------------------------------------------------
(* The plugin.                                                             *)

\* PtyTtyConn and TtyConn: the stream, its first packet, and the goroutine that
\* reads from it.
TtyConn(c) ==
    /\ meth[c] = "run"
    /\ tty[c] = "off"
    /\ tty' = [tty EXCEPT ![c] = "open"]
    /\ fwd' = [fwd EXCEPT ![c] = "check"]
    /\ bridge' = [bridge EXCEPT ![c] = "recv"]
    /\ conn' = [conn EXCEPT ![c] = "open"]
    /\ UNCHANGED <<execVars, tpush, tin, tout>>

Write(c) ==
    /\ meth[c] = "run"
    /\ conn[c] = "open"
    /\ wrote[c] < MaxLines
    /\ wrote' = [wrote EXCEPT ![c] = @ + 1]
    /\ tin' = [tin EXCEPT ![c] = Append(@, [from |-> c, via |-> "tty", n |-> wrote[c]])]
    /\ UNCHANGED <<registry, queue, input, handlers, meth, clients, panicked, tty, fwd,
                   tpush, tout, bridge, conn>>

\* The method calls Close, which needs readMu.
Closing(c) ==
    /\ meth[c] = "run"
    /\ conn[c] = "open"
    /\ conn' = [conn EXCEPT ![c] = "closing"]
    /\ UNCHANGED <<execVars, tty, fwd, tpush, tin, tout, bridge>>

CloseTty(c) ==
    /\ conn[c] = "closing"
    /\ bridge[c] # "recv"
    /\ meth[c] # "failed"
    /\ conn' = [conn EXCEPT ![c] = "closed"]
    /\ tin' = [tin EXCEPT ![c] = Append(@, Eof)]
    /\ UNCHANGED <<execVars, tty, fwd, tpush, tout, bridge>>

\* ttyConn.Read, called in a loop: it keeps readMu while it waits, and over a
\* packet that only carries a size.
BridgeRead(c) ==
    /\ meth[c] # "failed"
    /\ \/ /\ bridge[c] = "recv"
          /\ \/ /\ tout[c] # <<>>
                /\ tout' = [tout EXCEPT ![c] = Tail(@)]
                /\ bridge' = IF Head(tout[c]) = "key" THEN [bridge EXCEPT ![c] = "out"]
                             ELSE bridge
             \/ /\ tout[c] = <<>>
                /\ tty[c] = "returned"
                /\ bridge' = [bridge EXCEPT ![c] = "done"]
                /\ UNCHANGED tout
       \/ /\ bridge[c] = "out"
          /\ bridge' = [bridge EXCEPT ![c] = IF conn[c] = "closed" THEN "done" ELSE "recv"]
          /\ UNCHANGED tout
    /\ UNCHANGED <<execVars, tty, fwd, tpush, tin, conn>>

-------------------------------------------------------------------------------
(* TtySession.                                                             *)

\* Mutant of Receive: the packet with Eof, which carries no data, is skipped.
SkipsEof(c) ==
    /\ tty[c] = "open"
    /\ tpush[c] = NoPush
    /\ \/ /\ tin[c] # <<>>
          /\ tin' = [tin EXCEPT ![c] = Tail(@)]
          /\ IF Head(tin[c]) # Eof /\ c \in byClient /\ HasRoom(c, "stdout")
             THEN Put(c, "stdout", Head(tin[c])) /\ UNCHANGED tpush
             ELSE /\ tpush' = IF Head(tin[c]) # Eof /\ c \in byClient
                              THEN [tpush EXCEPT ![c] = [at |-> "full", line |-> Head(tin[c])]]
                              ELSE tpush
                  /\ UNCHANGED queue
          /\ UNCHANGED tty
       \/ /\ meth[c] = "failed"
          /\ tty' = [tty EXCEPT ![c] = "returned"]
          /\ UNCHANGED <<queue, tpush, tin>>
    /\ UNCHANGED <<registry, input, handlers, plugin, clients, panicked, fwd, tout, bridge,
                   conn>>

\* The handler.  The stream also ends when the plugin's process does.
Receive(c) ==
    /\ tty[c] = "open"
    /\ tpush[c] = NoPush
    /\ \/ /\ tin[c] # <<>>
          /\ tin' = [tin EXCEPT ![c] = Tail(@)]
          /\ LET pkt == Head(tin[c]) IN
             \/ /\ pkt = Eof
                /\ tty' = [tty EXCEPT ![c] = "returned"]
                /\ UNCHANGED <<queue, tpush>>
             \/ /\ pkt # Eof
                /\ c \in byClient
                /\ IF HasRoom(c, "stdout") THEN Put(c, "stdout", pkt) /\ UNCHANGED tpush
                   ELSE /\ tpush' = [tpush EXCEPT ![c] = [at |-> "full", line |-> pkt]]
                        /\ UNCHANGED queue
                /\ UNCHANGED tty
             \/ pkt # Eof /\ c \notin byClient /\ UNCHANGED <<queue, tpush, tty>>
       \/ /\ meth[c] = "failed"
          /\ tty' = [tty EXCEPT ![c] = "returned"]
          /\ UNCHANGED <<queue, tpush, tin>>
    /\ UNCHANGED <<registry, input, handlers, plugin, clients, panicked, fwd, tout, bridge,
                   conn>>

TtyPush(c) ==
    /\ \/ /\ tpush[c].at = "full"
          /\ Displace(c, "stdout")
          /\ tpush' = [tpush EXCEPT ![c].at = "retry"]
       \/ /\ tpush[c].at = "retry"
          /\ Retry(c, "stdout", tpush[c].line)
          /\ tpush' = [tpush EXCEPT ![c] = NoPush]
    /\ UNCHANGED <<registry, input, handlers, plugin, clients, panicked, tty, fwd, tin, tout,
                   bridge, conn>>

\* The goroutine: it looks at done and at the pending resize, then waits for
\* input in ReadStdinFromCall, where it looks at neither.
FwdCheck(c) ==
    /\ fwd[c] = "check"
    /\ IF tty[c] = "returned" THEN fwd' = [fwd EXCEPT ![c] = "done"] /\ UNCHANGED resize
       ELSE IF c \in byClient /\ c \in resize
       THEN fwd' = [fwd EXCEPT ![c] = "size"] /\ resize' = resize \ {c}
       ELSE fwd' = [fwd EXCEPT ![c] = IF c \in byClient THEN "wait" ELSE "done"]
            /\ UNCHANGED resize
    /\ UNCHANGED <<registry, queue, buf, eof, handlers, plugin, clients, panicked, tty, tpush,
                   tin, tout, bridge, conn>>

\* Mutant of FwdRead: stdinEOF is only looked at when there was input.
WaitsForInput(c) ==
    /\ fwd[c] = "wait"
    /\ buf[c] > 0
    /\ buf' = [buf EXCEPT ![c] = 0]
    /\ fwd' = [fwd EXCEPT ![c] = IF eof[c] THEN "last" ELSE "key"]
    /\ UNCHANGED <<registry, queue, eof, resize, handlers, plugin, clients, panicked, tty,
                   tpush, tin, tout, bridge, conn>>

FwdRead(c) ==
    /\ fwd[c] = "wait"
    /\ \/ /\ buf[c] > 0
          /\ buf' = [buf EXCEPT ![c] = 0]
          /\ fwd' = [fwd EXCEPT ![c] = IF eof[c] THEN "last" ELSE "key"]
       \/ /\ buf[c] = 0 /\ eof[c]
          /\ fwd' = [fwd EXCEPT ![c] = "done"]
          /\ UNCHANGED buf
    /\ UNCHANGED <<registry, queue, eof, resize, handlers, plugin, clients, panicked, tty,
                   tpush, tin, tout, bridge, conn>>

\* Send on the stream of a handler that has returned panics; on that of a plugin
\* that has died it fails.
FwdSend(c) ==
    /\ fwd[c] \in {"size", "key", "last"}
    /\ \/ /\ tty[c] = "returned"
          /\ panicked' = TRUE
          /\ UNCHANGED <<fwd, tout>>
       \/ /\ tty[c] = "open"
          /\ meth[c] = "failed"
          /\ fwd' = [fwd EXCEPT ![c] = "done"]
          /\ UNCHANGED <<tout, panicked>>
       \/ /\ tty[c] = "open"
          /\ meth[c] # "failed"
          /\ tout' = [tout EXCEPT ![c] = Append(@, IF fwd[c] = "size" THEN "size" ELSE "key")]
          /\ fwd' = [fwd EXCEPT ![c] = IF fwd[c] = "last" THEN "done" ELSE "check"]
          /\ UNCHANGED panicked
    /\ UNCHANGED <<registry, queue, input, handlers, plugin, clients, tty, tpush, tin, bridge,
                   conn>>

-------------------------------------------------------------------------------

Terminal(c) ==
    \/ TtyConn(c) \/ Write(c) \/ Closing(c) \/ CloseTty(c) \/ BridgeRead(c)
    \/ Receive(c) \/ TtyPush(c) \/ FwdCheck(c) \/ FwdRead(c) \/ FwdSend(c)

TtyClosed(c) == c \in Terminals => conn[c] \in {"off", "closed"}

Call(c) ==
    /\ Daemon(c) \/ Outside(c) \/ (Plain(c) /\ TtyClosed(c))
    /\ UNCHANGED ttyVars

Next ==
    /\ ~panicked
    /\ \/ \E c \in Calls : Call(c)
       \/ \E c \in Terminals : Terminal(c)

\* Goroutines that can run do, as long as the daemon does; a mutex is not kept
\* from Close for ever.  Nothing obliges a method to go on or a client to act.
Running(A) == ~panicked /\ A /\ UNCHANGED ttyVars
Fairness ==
    /\ \A c \in Calls :
          /\ WF_vars(Running(Handler(c)))
          /\ WF_vars(Running(ReceiveInput(c)))
          /\ WF_vars(Running(HttpResult(c)))
          /\ WF_vars(Running(PushPluginOutput(c)))
          /\ WF_vars(Running(ReadStdinFromCall(c)))
    /\ \A c \in Terminals :
          /\ WF_vars(~panicked /\ (Receive(c) \/ TtyPush(c)))
          /\ WF_vars(~panicked /\ (FwdCheck(c) \/ FwdRead(c) \/ FwdSend(c)))
          /\ WF_vars(~panicked /\ BridgeRead(c))
          /\ SF_vars(~panicked /\ CloseTty(c))

Spec == Init /\ [][Next]_vars /\ Fairness

-------------------------------------------------------------------------------
(* Properties.                                                             *)

\* Every variable has its type.
TypeOK ==
    /\ ExecTypeOK
    /\ tty \in [Terminals -> {"off", "open", "returned"}]
    /\ fwd \in [Terminals -> {"off", "check", "wait", "size", "key", "last", "done"}]
    /\ tpush \in [Terminals -> {NoPush} \cup [at : {"full", "retry"}, line : Lines]]
    /\ \A c \in Terminals :
          /\ tin[c] \in Seq(Lines \cup {Eof})
          /\ tout[c] \in Seq({"key", "size"})
    /\ bridge \in [Terminals -> {"off", "recv", "out", "done"}]
    /\ conn \in [Terminals -> {"off", "open", "closing", "closed"}]

\* The goroutine that forwards input ends with the call, although it may be
\* waiting for input that nobody will send.
ForwardingEnds ==
    \A c \in Terminals : hnd[c] = "returned" ~> fwd[c] \in {"off", "done"} \/ panicked

\* The handler waits in stream.Receive as long as the method keeps its terminal,
\* also when the call is over, for nothing tells the plugin: it ends when the
\* method has closed the terminal or is dead, whatever it was pushing.
HandlerEnds ==
    \A c \in Terminals :
        conn[c] = "closed" \/ meth[c] = "failed" ~> tty[c] # "open" \/ panicked

\* A call that has ended leaves none of the goroutines of executor_svc.go waiting,
\* nor the one that forwards input to its terminal; the handler of its terminal
\* is left only to a method that has not closed it.
TerminalsLeaveNothing == NothingIsLeft /\ ForwardingEnds /\ HandlerEnds

\* The goroutine never calls "stream.Send() after the Connect handler has
\* finished, causing a panic" (io.go:123), which ends the daemon.
DaemonSurvives == ~panicked

===============================================================================
