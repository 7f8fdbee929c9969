----------------------------- MODULE SessionStore -----------------------------
(***************************************************************************)
(* Sessions and their shells (dotfilesd/internal/pkg/daemon/session.go),   *)
(* with the handlers that run commands in them: ExecService.Exec and       *)
(* ExecStream (exec.go), ScriptService.RunScript (script.go), and          *)
(* SessionService.Connect and FinalizeSession.                             *)
(*                                                                         *)
(* Three levels of locks are involved: SessionStore.mu, Session.mu and     *)
(* shellSession.mu.  Only FinalizeSession holds the first two across a     *)
(* step that may block, and a command holds the third for as long as it    *)
(* runs.  Every other critical section of the first two is one step.       *)
(*                                                                         *)
(* The daemon writes each command to the shell's standard input, followed  *)
(* by an echo of a delimiter drawn for it, and reads the shell's output up *)
(* to that delimiter, which it looks for at the start of a line: behind    *)
(* output without a final newline it is not found.  A command is a number, *)
(* its output one line.                                                    *)
(***************************************************************************)
EXTENDS Naturals, Sequences

CONSTANTS Threads,    \* goroutines that serve RPCs
          Sessions,   \* session ids
          Shells,     \* bash processes
          MaxCmds,    \* bound on the commands issued
          Kinds,      \* what commands do: "plain", "exit", "nested", "unfinished"
          Aborts      \* whether the client of an ExecStream may go away

Free      == "free"
NoShell   == "none"
NoSession == "none"
Nobody    == "nobody"

ASSUME SessionAssumption ==
    /\ MaxCmds \in Nat
    /\ Sessions # {}
    /\ Kinds \subseteq {"plain", "exit", "nested", "unfinished"}
    /\ Aborts \in BOOLEAN
    /\ Free \notin Threads
    /\ Nobody \notin Threads
    /\ NoShell \notin Shells
    /\ NoSession \notin Sessions

VARIABLES
    known,        \* ids in SessionStore.sessions
    finalized,    \* sessions whose finalized flag is set
    shell,        \* Session.shell
    callbackURL,  \* Session.callbackURL: the client that last connected
    storeMu,      \* the holder of SessionStore.mu between two steps, or Free
    sessMu,       \* sessMu[s]: the same for Session.mu
    shMu,         \* shMu[h]: the thread that runs a command in shell h, or Free
    home,         \* the session each shell was started for, or NoSession
    alive,        \* shells whose process runs
    inq,          \* inq[h]: commands written to the shell and not yet run
    outq,         \* outq[h]: output of the shell not yet read
    cmds,         \* cmds[c]: the kind of the c-th command issued
    abandoned,    \* history: commands whose ExecStream ended before its output
    pc, call      \* each thread's control state and local variables

locks == <<storeMu, sessMu, shMu>>
shells == <<home, alive, inq, outq, cmds, abandoned>>
store == <<known, finalized, shell, callbackURL>>
vars == <<store, locks, shells, pc, call>>

Cmds == 1 .. MaxCmds

AnySession == CHOOSE s \in Sessions : TRUE

\* op: the RPC; sess: its session; sh: the shell it got from ensureShell; todo:
\* its commands, the current one first; got: the commands whose output the
\* reader has taken for the current one's.
NoCall == [op |-> "none", sess |-> AnySession, sh |-> NoShell, todo |-> <<>>,
           got |-> {}]

Init ==
    /\ known = {}
    /\ finalized = {}
    /\ shell = [s \in Sessions |-> NoShell]
    /\ callbackURL = [s \in Sessions |-> Nobody]
    /\ storeMu = Free
    /\ sessMu = [s \in Sessions |-> Free]
    /\ shMu = [h \in Shells |-> Free]
    /\ home = [h \in Shells |-> NoSession]
    /\ alive = {}
    /\ inq = [h \in Shells |-> <<>>]
    /\ outq = [h \in Shells |-> <<>>]
    /\ cmds = <<>>
    /\ abandoned = {}
    /\ pc = [t \in Threads |-> "idle"]
    /\ call = [t \in Threads |-> NoCall]

Goto(t, l) == pc' = [pc EXCEPT ![t] = l]

Return(t) ==
    /\ Goto(t, "idle")
    /\ call' = [call EXCEPT ![t] = NoCall]

line(c)  == [cmd |-> c, kind |-> "line"]
delim(c) == [cmd |-> c, kind |-> "delim"]

-------------------------------------------------------------------------------
(* Sessions.                                                               *)

\* SessionService.Connect: an existing session is taken over, finalized or not.
Connect(t, s) ==
    /\ pc[t] = "idle"
    /\ storeMu = Free
    /\ sessMu[s] = Free
    /\ known' = known \cup {s}
    /\ callbackURL' = [callbackURL EXCEPT ![s] = t]
    /\ UNCHANGED <<finalized, shell, locks, shells, pc, call>>

\* Exec and ExecStream run one command, a script as many as it has steps.
Commands(op) == IF op = "script" THEN 2 ELSE 1

\* ResolveSession.  An unknown or finalized session is replaced by an ephemeral
\* one, whose command runs in a process of its own and touches nothing here.
ResolveSession(t, s, op) ==
    LET n == Len(cmds) IN
    /\ pc[t] = "idle"
    /\ storeMu = Free
    /\ s \in known \ finalized
    /\ n + Commands(op) <= MaxCmds
    /\ \E ks \in [1 .. Commands(op) -> Kinds] : cmds' = cmds \o ks
    /\ Goto(t, "ensure")
    /\ call' = [call EXCEPT ![t] = [NoCall EXCEPT !.op = op, !.sess = s,
                                       !.todo = [i \in 1 .. Commands(op) |-> n + i]]]
    /\ UNCHANGED <<store, locks, home, alive, inq, outq, abandoned>>

NewShell(t, s) ==
    \E h \in Shells :
        /\ home[h] = NoSession
        /\ home' = [home EXCEPT ![h] = s]
        /\ alive' = alive \cup {h}
        /\ shell' = [shell EXCEPT ![s] = h]
        /\ call' = [call EXCEPT ![t].sh = h]

\* Mutant of ensureShell: the finalized flag is not looked at.
EnsuresFinalizedShell(t) ==
    LET s == call[t].sess IN
    /\ pc[t] = "ensure"
    /\ sessMu[s] = Free
    /\ \/ shell[s] # NoShell /\ call' = [call EXCEPT ![t].sh = shell[s]]
                             /\ UNCHANGED <<home, alive, shell>>
       \/ shell[s] = NoShell /\ NewShell(t, s)
    /\ Goto(t, "lock")
    /\ UNCHANGED <<known, finalized, callbackURL, locks, inq, outq, cmds, abandoned>>

\* touch() and SetVariables() of ResolveSession, which need Session.mu too, and
\* ensureShell.  A session's shell is never replaced, not even a dead one.
ensureShell(t) ==
    LET s == call[t].sess IN
    /\ pc[t] = "ensure"
    /\ sessMu[s] = Free
    /\ \/ \* refused, or bash could not be started
          /\ s \in finalized \/ shell[s] = NoShell
          /\ Return(t)
          /\ UNCHANGED <<home, alive, shell>>
       \/ /\ s \notin finalized
          /\ shell[s] # NoShell
          /\ call' = [call EXCEPT ![t].sh = shell[s]]
          /\ Goto(t, "lock")
          /\ UNCHANGED <<home, alive, shell>>
       \/ /\ s \notin finalized
          /\ shell[s] = NoShell
          /\ NewShell(t, s)
          /\ Goto(t, "lock")
    /\ UNCHANGED <<known, finalized, callbackURL, locks, inq, outq, cmds, abandoned>>

\* Mutant of Finalize: a session that the store does not know is finalized.
FinalizeUnknown(t, s) ==
    /\ pc[t] = "idle"
    /\ storeMu = Free
    /\ finalized' = finalized \cup {s}
    /\ UNCHANGED <<known, shell, callbackURL, locks, shells, pc, call>>

\* SessionStore.Finalize, up to closeShell.  An unknown id changes nothing.
Finalize(t, s) ==
    /\ pc[t] = "idle"
    /\ storeMu = Free
    /\ s \in known
    /\ sessMu[s] = Free
    /\ storeMu' = t
    /\ sessMu' = [sessMu EXCEPT ![s] = t]
    /\ finalized' = finalized \cup {s}
    /\ Goto(t, "close")
    /\ call' = [call EXCEPT ![t] = [NoCall EXCEPT !.op = "finalize", !.sess = s]]
    /\ UNCHANGED <<known, shell, callbackURL, shMu, shells>>

\* Mutant of closeShell: the shell is dropped, not killed.
ClosesWithoutKill(t) ==
    LET s == call[t].sess IN
    /\ pc[t] = "close"
    /\ shell' = [shell EXCEPT ![s] = NoShell]
    /\ storeMu' = Free
    /\ sessMu' = [sessMu EXCEPT ![s] = Free]
    /\ Return(t)
    /\ UNCHANGED <<known, finalized, callbackURL, shMu, shells>>

\* closeShell: Close waits for the command in progress and kills the shell; then
\* both locks are released.
closeShell(t) ==
    LET s == call[t].sess IN
    /\ pc[t] = "close"
    /\ shell[s] # NoShell => shMu[shell[s]] = Free
    /\ alive' = alive \ {shell[s]}
    /\ shell' = [shell EXCEPT ![s] = NoShell]
    /\ storeMu' = Free
    /\ sessMu' = [sessMu EXCEPT ![s] = Free]
    /\ Return(t)
    /\ UNCHANGED <<known, finalized, callbackURL, shMu, home, inq, outq, cmds, abandoned>>

-------------------------------------------------------------------------------
(* Commands: shellSession.Exec and ExecStream.                             *)

\* The thread leaves the shell: the next command of a script, or the end.
NextCommand(t) ==
    IF Len(call[t].todo) > 1
    THEN /\ Goto(t, "lock")
         /\ call' = [call EXCEPT ![t].todo = Tail(@), ![t].got = {}]
    ELSE Return(t)

current(t) == Head(call[t].todo)

\* Mutant of WriteCommand: the shell's lock is not taken.
WritesWithoutLock(t) ==
    LET h == call[t].sh IN
    /\ pc[t] = "lock"
    /\ h \in alive
    /\ inq' = [inq EXCEPT ![h] = Append(@, current(t))]
    /\ Goto(t, "read")
    /\ UNCHANGED <<store, locks, home, alive, outq, cmds, abandoned, call>>

\* Take the lock and write the command; writing to a dead shell fails.
WriteCommand(t) ==
    LET h == call[t].sh IN
    /\ pc[t] = "lock"
    /\ shMu[h] = Free
    /\ \/ /\ h \in alive
          /\ inq' = [inq EXCEPT ![h] = Append(@, current(t))]
          /\ shMu' = [shMu EXCEPT ![h] = t]
          /\ Goto(t, "read")
          /\ UNCHANGED call
       \/ /\ h \notin alive
          /\ NextCommand(t)
          /\ UNCHANGED <<inq, shMu>>
    /\ UNCHANGED <<store, storeMu, sessMu, home, alive, outq, cmds, abandoned>>

Release(t) == shMu' = [shMu EXCEPT ![call[t].sh] = Free]

\* A line that is not the command's own delimiter is its output.  The client of
\* a stream may be gone when the line is sent: ExecStream then returns at once.
ReadLine(t) ==
    LET h == call[t].sh IN
    /\ pc[t] = "read"
    /\ outq[h] # <<>>
    /\ Head(outq[h]) # delim(current(t))
    /\ outq' = [outq EXCEPT ![h] = Tail(@)]
    /\ \/ /\ call' = [call EXCEPT ![t].got = @ \cup {Head(outq[h]).cmd}]
          /\ UNCHANGED <<shMu, abandoned, pc>>
       \/ /\ Aborts /\ call[t].op = "stream"
          /\ Release(t)
          /\ abandoned' = abandoned \cup {current(t)}
          /\ Return(t)
    /\ UNCHANGED <<store, storeMu, sessMu, home, alive, inq, cmds>>

ReadDelimiter(t) ==
    LET h == call[t].sh IN
    /\ pc[t] = "read"
    /\ outq[h] # <<>>
    /\ Head(outq[h]) = delim(current(t))
    /\ outq' = [outq EXCEPT ![h] = Tail(@)]
    /\ Release(t)
    /\ NextCommand(t)
    /\ UNCHANGED <<store, storeMu, sessMu, home, alive, inq, cmds, abandoned>>

\* Mutant of ReadEOF: the lock is kept on the error path.
ReadEOFKeepsLock(t) ==
    LET h == call[t].sh IN
    /\ pc[t] = "read"
    /\ outq[h] = <<>>
    /\ h \notin alive
    /\ NextCommand(t)
    /\ UNCHANGED <<store, locks, shells>>

ReadEOF(t) ==
    LET h == call[t].sh IN
    /\ pc[t] = "read"
    /\ outq[h] = <<>>
    /\ h \notin alive
    /\ Release(t)
    /\ NextCommand(t)
    /\ UNCHANGED <<store, storeMu, sessMu, shells>>

-------------------------------------------------------------------------------
(* bash: it runs the commands of its input one after another.              *)

RunCommand(h) ==
    LET c == Head(inq[h]) IN
    /\ h \in alive
    /\ inq[h] # <<>>
    /\ \/ /\ cmds[c] \in {"plain", "nested"}
          \* a dotfilesctl in a nested command connects to the daemon
          /\ cmds[c] = "nested" => storeMu = Free
          /\ outq' = [outq EXCEPT ![h] = @ \o <<line(c), delim(c)>>]
          /\ inq' = [inq EXCEPT ![h] = Tail(@)]
          /\ UNCHANGED alive
       \* its last line has no end, and the echo of the delimiter goes on it
       \/ /\ cmds[c] = "unfinished"
          /\ outq' = [outq EXCEPT ![h] = Append(@, line(c))]
          /\ inq' = [inq EXCEPT ![h] = Tail(@)]
          /\ UNCHANGED alive
       \* exit, or a command that kills the shell
       \/ /\ cmds[c] = "exit"
          /\ outq' = [outq EXCEPT ![h] = Append(@, line(c))]
          /\ inq' = [inq EXCEPT ![h] = <<>>]
          /\ alive' = alive \ {h}
    /\ UNCHANGED <<store, locks, home, cmds, abandoned, pc, call>>

Request(t) ==
    \E s \in Sessions :
        \/ Connect(t, s)
        \/ Finalize(t, s)
        \/ \E op \in {"exec", "stream", "script"} : ResolveSession(t, s, op)

Steps(t) ==
    \/ ensureShell(t) \/ closeShell(t) \/ WriteCommand(t)
    \/ ReadLine(t) \/ ReadDelimiter(t) \/ ReadEOF(t)

Next ==
    \/ \E t \in Threads : Request(t) \/ Steps(t)
    \/ \E h \in Shells : RunCommand(h)

\* Goroutines and shells keep running, and Go's mutexes are starvation-free: a
\* goroutine that waits for a lock which is freed again and again gets it.
\* Nothing obliges a client to make a request.
Fairness ==
    /\ \A t \in Threads : SF_vars(Steps(t))
    /\ \A h \in Shells : WF_vars(RunCommand(h))

Spec == Init /\ [][Next]_vars /\ Fairness

-------------------------------------------------------------------------------
(* Properties.                                                             *)

CallType ==
    [op : {"none", "exec", "stream", "script", "finalize"}, sess : Sessions,
     sh : Shells \cup {NoShell}, todo : Seq(Cmds), got : SUBSET Cmds]

\* Every variable has its type.
TypeOK ==
    /\ known \subseteq Sessions
    /\ finalized \subseteq known
    /\ shell \in [Sessions -> Shells \cup {NoShell}]
    /\ callbackURL \in [Sessions -> Threads \cup {Nobody}]
    /\ storeMu \in Threads \cup {Free}
    /\ sessMu \in [Sessions -> Threads \cup {Free}]
    /\ shMu \in [Shells -> Threads \cup {Free}]
    /\ home \in [Shells -> Sessions \cup {NoSession}]
    /\ alive \subseteq Shells
    /\ inq \in [Shells -> Seq(Cmds)]
    /\ outq \in [Shells -> Seq([cmd : Cmds, kind : {"line", "delim"}])]
    /\ cmds \in Seq(Kinds)
    /\ abandoned \subseteq Cmds
    /\ pc \in [Threads -> {"idle", "ensure", "lock", "read", "close"}]
    /\ call \in [Threads -> CallType]

Closing(s) == \E t \in Threads : pc[t] = "close" /\ call[t].sess = s

\* Each live shell is the shell of one session that is not finalized, or is
\* just being finalized: concurrent first commands of a session start one
\* shell, and no command that raced with FinalizeSession brings one back.
LiveShellsAreOwned ==
    /\ TypeOK
    /\ \A h \in alive :
           /\ shell[home[h]] = h
           /\ home[h] \in finalized => Closing(home[h])

\* ExecService: "Exec runs a command and returns the complete output"
\* (exec.proto:11).  What a reader takes for the output of its command is the
\* output of no other one, whoever ran the session's commands before, except for
\* what is left over of a stream whose client went away.
OwnOutput ==
    \A t \in Threads :
        pc[t] = "read" => call[t].got \subseteq {current(t)} \cup abandoned

\* FinalizeSession kills the shell before it returns: no command runs in a
\* session afterwards, however many were waiting for the shell.
NoCommandAfterFinalize ==
    [][\A h \in Shells :
          inq[h] # <<>> /\ Len(outq'[h]) > Len(outq[h])
              => home[h] \notin finalized \/ Closing(home[h])]_vars

\* A reader waits for a delimiter that it will not recognize.
Overlooks(t) == pc[t] = "read" /\ cmds[current(t)] = "unfinished"

\* Every RPC returns, whatever the others do, unless a reader waits for ever for the
\* end of a command that left its last line unfinished, with the shell's lock; then
\* all may wait for it, if somebody finalizes the session.
EveryCallReturns ==
    []<>(\A t \in Threads : ~Overlooks(t))
        => \A t \in Threads : pc[t] # "idle" ~> pc[t] = "idle"

\* Shells get DOTFILESD_PORT "so nested dotfilesctl calls know where to connect"
\* (session.go:32): a command that calls the daemon comes to an end.
NestedCallsEnd ==
    \A h \in Shells : (h \in alive /\ inq[h] # <<>>) ~> (inq[h] = <<>>)

===============================================================================
