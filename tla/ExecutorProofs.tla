---------------------------- MODULE ExecutorProofs ----------------------------
(***************************************************************************)
(* Proofs about the calls of a plugin, with and without terminals, for     *)
(* every set of calls, every queue size and every amount of input and      *)
(* output.                                                                 *)
(*                                                                         *)
(* ExecInv is inductive.  Its parts say who can still write to a call's    *)
(* queues: a line is being pushed only while its method has not returned,  *)
(* and a response is sent only after the method has.                       *)
(***************************************************************************)
EXTENDS TtySession, TLAPS

TtyLines == [from : Calls, via : {"tty"}, n : 0 .. MaxLines]

\* The types of the variables that the proof is about.
Types ==
    /\ hnd \in [Calls -> {"idle", "loop", "drain", "close", "unregister", "returned"}]
    /\ byClient \subseteq Calls
    /\ byPlugin \in Calls \cup {None}
    /\ queue \in [Calls -> [Pipes -> Seq(Lines)]]
    /\ push \in [Calls -> {NoPush} \cup [at : {"full", "retry"}, to : Calls, pipe : Pipes,
                                         line : Lines]]
    /\ meth \in [Calls -> {"off", "run", "log", "read", "returned", "failed"}]
    /\ result \in [Calls -> {None, "ok", "error"}]
    /\ answer \in [Calls -> {None, "response", "error"}]

\* What is on its way from a terminal to a queue came from the terminal.
TtyInv ==
    /\ tpush \in [Terminals -> {NoPush} \cup [at : {"full", "retry"}, line : TtyLines]]
    /\ tin \in [Terminals -> Seq(TtyLines \cup {Eof})]

\* A line that is being pushed is its method's own, goes to a registered call, and
\* keeps the method from returning.
PushInv ==
    \A c \in Calls :
        push[c] # NoPush =>
            /\ push[c].to \in byClient
            /\ push[c].line.from = c
            /\ meth[c] \in {"log", "failed"}

PluginEntry == byPlugin # None => byPlugin \in byClient

\* A call runs its method from registerCall on, and drains its queues for a method
\* that has returned.
Stages ==
    \A c \in Calls :
        /\ hnd[c] = "idle" => meth[c] = "off"
        /\ result[c] = "ok" => meth[c] = "returned"
        /\ hnd[c] = "drain" => meth[c] = "returned"
        /\ answer[c] = "response" =>
              meth[c] = "returned" /\ hnd[c] \in {"close", "unregister", "returned"}

\* Whether q holds a line that c's method wrote to Stdout() or Stderr().
Own(c, q) == \E i \in DOMAIN q : q[i].from = c /\ q[i].via = "log"

\* The lines of a method are counted.
Counted == wrote \in [Calls -> 0 .. MaxLines]

Drained ==
    \A c \in Calls : \A k \in Pipes : answer[c] = "response" => ~Own(c, queue[c][k])

ExecInv == Types /\ TtyInv /\ PushInv /\ PluginEntry /\ Stages /\ Drained

-------------------------------------------------------------------------------
(* Queues.                                                                 *)

\* A line of another call, or of a terminal, is not c's own.
LEMMA OwnAppend ==
    ASSUME NEW c, NEW q \in Seq(Lines), NEW line \in Lines,
           ~Own(c, q), line.from # c \/ line.via # "log"
    PROVE  Append(q, line) \in Seq(Lines) /\ ~Own(c, Append(q, line))
BY DEF Own

\* Nor does the loss of the oldest line add one.
LEMMA OwnTail ==
    ASSUME NEW c, NEW q \in Seq(Lines), q # <<>>, ~Own(c, q)
    PROVE  Tail(q) \in Seq(Lines) /\ ~Own(c, Tail(q))
BY DEF Own

\* No action of anyone puts c's own lines back: the queues of call d change at
\* pipe k by the loss of the oldest line or by a new one.
QueueStep(d, k, line) ==
    \/ UNCHANGED queue
    \/ queue[d][k] # <<>> /\ queue' = [queue EXCEPT ![d][k] = Tail(@)]
    \/ queue' = [queue EXCEPT ![d][k] = Append(@, line)]

\* Such a step keeps the queues of answered calls drained, if its line is not one
\* that an answered call's method wrote.
LEMMA QueueKept ==
    ASSUME Types, Drained, NEW d \in Calls, NEW k \in Pipes, NEW line \in Lines,
           QueueStep(d, k, line), answer' = answer,
           line.via = "log" => answer[line.from] # "response"
    PROVE  queue' \in [Calls -> [Pipes -> Seq(Lines)]] /\ Drained'
<1>1. queue \in [Calls -> [Pipes -> Seq(Lines)]] /\ line.from \in Calls
  BY DEF Types, Lines
<1>2. CASE UNCHANGED queue
  BY <1>1, <1>2 DEF Drained
<1>3. CASE queue[d][k] # <<>> /\ queue' = [queue EXCEPT ![d][k] = Tail(@)]
  <2>1. queue[d][k] \in Seq(Lines)
    BY <1>1
  <2>2. Tail(queue[d][k]) \in Seq(Lines)
    BY <2>1, <1>3
  <2>3. queue' \in [Calls -> [Pipes -> Seq(Lines)]]
    BY <1>1, <1>3, <2>2
  <2>4. ASSUME NEW c \in Calls, NEW j \in Pipes, answer[c] = "response"
        PROVE  ~Own(c, queue'[c][j])
    <3>1. ~Own(c, queue[c][j])
      BY <2>4 DEF Drained
    <3>2. CASE c = d /\ j = k
      BY <3>1, <3>2, <1>1, <1>3, <2>1, OwnTail
    <3>3. CASE ~(c = d /\ j = k)
      <4>1. queue'[c][j] = queue[c][j]
        BY <3>3, <1>1, <1>3
      <4>2. QED
        BY <4>1, <3>1
    <3>4. QED
      BY <3>2, <3>3
  <2>5. QED
    BY <2>3, <2>4 DEF Drained
<1>4. CASE queue' = [queue EXCEPT ![d][k] = Append(@, line)]
  <2>1. queue[d][k] \in Seq(Lines)
    BY <1>1
  <2>2. Append(queue[d][k], line) \in Seq(Lines)
    BY <2>1
  <2>3. queue' \in [Calls -> [Pipes -> Seq(Lines)]]
    BY <1>1, <1>4, <2>2
  <2>4. ASSUME NEW c \in Calls, NEW j \in Pipes, answer[c] = "response"
        PROVE  ~Own(c, queue'[c][j])
    <3>1. ~Own(c, queue[c][j])
      BY <2>4 DEF Drained
    <3>2. CASE c = d /\ j = k
      <4>1. line.from # c \/ line.via # "log"
        BY <2>4
      <4>2. QED
        BY <4>1, <3>1, <3>2, <1>1, <1>4, <2>1, OwnAppend
    <3>3. CASE ~(c = d /\ j = k)
      <4>1. queue'[c][j] = queue[c][j]
        BY <3>3, <1>1, <1>4
      <4>2. QED
        BY <4>1, <3>1
    <3>4. QED
      BY <3>2, <3>3
  <2>5. QED
    BY <2>3, <2>4 DEF Drained
<1>5. QED
  BY <1>2, <1>3, <1>4 DEF QueueStep

-------------------------------------------------------------------------------
(* One lemma for the steps of each kind.                                   *)

relevant == <<hnd, byClient, byPlugin, queue, push, meth, result, answer, tpush, tin>>

\* Steps that touch none of the variables of ExecInv.
LEMMA Quiet ==
    ASSUME ExecInv, UNCHANGED relevant
    PROVE  ExecInv'
BY DEF relevant, ExecInv, Types, TtyInv, PushInv, PluginEntry, Stages, Drained

\* The queues and what is on its way to them stay: only the call's own control
\* state and the tables change.
LEMMA StepHandler ==
    ASSUME ExecInv, NEW c \in Calls, UNCHANGED ttyVars,
           \/ Refuse(c) \/ Register(c) \/ TakeResult(c) \/ Respond(c) \/ Close(c)
           \/ Unregister(c)
    PROVE  ExecInv'
<1> USE DEF ExecInv, registry, input, handlers, plugin, clients, ttyVars
<1>1. CASE Refuse(c)
  BY <1>1 DEF Refuse, Tell, Types, TtyInv, PushInv, PluginEntry, Stages, Drained, None
<1>2. CASE Register(c)
  BY <1>2 DEF Register, Unlocked, Types, TtyInv, PushInv, PluginEntry, Stages, Drained
<1>3. CASE TakeResult(c)
  <2>1. UNCHANGED <<byClient, byPlugin, queue, push, meth, result>>
    BY <1>3 DEF TakeResult
  <2>2. /\ hnd[c] = "loop"
        /\ \/ result[c] = "ok" /\ hnd' = [hnd EXCEPT ![c] = "drain"] /\ answer' = answer
           \/ /\ hnd' = [hnd EXCEPT ![c] = "close"]
              /\ answer' \in {answer, [answer EXCEPT ![c] = "error"]}
    BY <1>3 DEF TakeResult, Tell
  <2>3. Types' /\ Stages'
    <3>1. CASE /\ result[c] = "ok"
               /\ hnd' = [hnd EXCEPT ![c] = "drain"]
               /\ answer' = answer
      BY <2>1, <2>2, <3>1 DEF Types, Stages
    <3>2. CASE hnd' = [hnd EXCEPT ![c] = "close"] /\ answer' = answer
      BY <2>1, <2>2, <3>2 DEF Types, Stages
    <3>3. CASE /\ hnd' = [hnd EXCEPT ![c] = "close"]
               /\ answer' = [answer EXCEPT ![c] = "error"]
      <4>1. answer' \in [Calls -> {None, "response", "error"}]
        BY <3>3 DEF Types
      <4>2. \A d \in Calls : answer'[d] = "response" => answer[d] = "response" /\ d # c
        BY <3>3 DEF Types
      <4>3. QED
        BY <2>1, <3>3, <4>1, <4>2 DEF Types, Stages
    <3>4. QED
      BY <2>2, <3>1, <3>2, <3>3
  <2>4. Drained'
    BY <2>1, <2>2 DEF Types, Drained
  <2>5. QED
    BY <2>1, <2>3, <2>4 DEF TtyInv, PushInv, PluginEntry
<1>4. CASE Respond(c)
  BY <1>4 DEF Respond, Tell, Types, TtyInv, PushInv, PluginEntry, Stages, Drained, Own, None
<1>5. CASE Close(c)
  BY <1>5 DEF Close, Types, TtyInv, PushInv, PluginEntry, Stages, Drained
<1>6. CASE Unregister(c)
  BY <1>6 DEF Unregister, Unlocked, Types, TtyInv, PushInv, PluginEntry, Stages, Drained
<1>7. QED
  BY <1>1, <1>2, <1>3, <1>4, <1>5, <1>6

\* The method and those who wait for it.
LEMMA StepMethod ==
    ASSUME ExecInv, NEW c \in Calls, UNCHANGED ttyVars,
           \/ HttpResult(c) \/ ReadStdinFromCall(c) \/ Read(c) \/ Return(c) \/ Fail(c)
    PROVE  ExecInv'
<1> USE DEF ExecInv, registry, input, handlers, plugin, clients, ttyVars
<1>1. CASE HttpResult(c)
  <2>1. UNCHANGED <<hnd, byClient, byPlugin, queue, push, meth, answer>>
    BY <1>1 DEF HttpResult
  <2>2. \/ result' = [result EXCEPT ![c] = "ok"] /\ meth[c] = "returned"
        \/ result' = [result EXCEPT ![c] = "error"]
    BY <1>1 DEF HttpResult
  <2>3. Types' /\ Stages'
    BY ZenonT(60), <2>1, <2>2 DEF Types, Stages, None
  <2>4. QED
    BY <2>1, <2>3 DEF TtyInv, PushInv, PluginEntry, Drained
<1>2. CASE ReadStdinFromCall(c)
  BY <1>2 DEF ReadStdinFromCall, Types, TtyInv, PushInv, PluginEntry, Stages, Drained
<1>3. CASE Read(c)
  BY <1>3 DEF Read, Types, TtyInv, PushInv, PluginEntry, Stages, Drained
<1>4. CASE Return(c)
  BY <1>4 DEF Return, Types, TtyInv, PushInv, PluginEntry, Stages, Drained
<1>5. CASE Fail(c)
  BY <1>5 DEF Fail, Types, TtyInv, PushInv, PluginEntry, Stages, Drained
<1>6. QED
  BY <1>1, <1>2, <1>3, <1>4, <1>5

\* The handler takes a line for its client.
LEMMA StepForward ==
    ASSUME ExecInv, NEW c \in Calls, NEW k \in Pipes, UNCHANGED ttyVars, Forward(c, k)
    PROVE  ExecInv'
<1> USE DEF ExecInv
<1> DEFINE line == [from |-> c, via |-> "tty", n |-> 0]
<1>2. line \in Lines /\ line.via # "log"
  BY ExecutorAssumption DEF Lines
<1>3. QueueStep(c, k, line) /\ answer' = answer
  BY DEF Forward, QueueStep, clients
<1>4. queue' \in [Calls -> [Pipes -> Seq(Lines)]] /\ Drained'
  BY <1>2, <1>3, QueueKept
<1>5. Types' /\ Stages'
  BY <1>4 DEF Forward, Types, Stages, registry, handlers, plugin, clients
<1>6. TtyInv' /\ PushInv' /\ PluginEntry'
  BY DEF Forward, TtyInv, PushInv, PluginEntry, registry, plugin, ttyVars
<1>7. QED
  BY <1>4, <1>5, <1>6

\* IOService.Log.  A method that still writes has no response yet.
LEMMA StepLog ==
    ASSUME ExecInv, Counted, NEW c \in Calls, NEW k \in Pipes, UNCHANGED ttyVars, Log(c, k)
    PROVE  ExecInv'
<1> USE DEF ExecInv
<1> DEFINE line == [from |-> c, via |-> "log", n |-> wrote[c]]
<1>1. line \in Lines
  BY DEF Counted, Lines
<1>2. meth[c] = "run" /\ answer[c] # "response" /\ push[c] = NoPush
  BY DEF Log, Stages, PushInv
<1>3. UNCHANGED <<byClient, byPlugin, hnd, result, answer>>
  BY DEF Log, registry, clients
<1>4. \/ UNCHANGED <<queue, meth, push>>
      \/ /\ Target(c) # None
         /\ queue' = [queue EXCEPT ![Target(c)][k] = Append(@, line)]
         /\ UNCHANGED <<meth, push>>
      \/ /\ Target(c) # None
         /\ UNCHANGED queue
         /\ meth' = [meth EXCEPT ![c] = "log"]
         /\ push' = [push EXCEPT ![c] =
                        [at |-> "full", to |-> Target(c), pipe |-> k, line |-> line]]
  BY DEF Log, Put
<1>5. Target(c) # None => Target(c) \in byClient /\ Target(c) \in Calls
  BY DEF Target, PluginEntry, Types
<1>6. queue' \in [Calls -> [Pipes -> Seq(Lines)]] /\ Drained'
  <2>1. CASE UNCHANGED queue
    BY <2>1, <1>3 DEF Types, Drained
  <2>2. CASE /\ Target(c) # None
             /\ queue' = [queue EXCEPT ![Target(c)][k] = Append(@, line)]
    <3>1. QueueStep(Target(c), k, line)
      BY <2>2 DEF QueueStep
    <3>2. QED
      BY <3>1, <2>2, <1>1, <1>2, <1>3, <1>5, QueueKept
  <2>3. QED
    BY <1>4, <2>1, <2>2
<1>7. CASE UNCHANGED <<meth, push>>
  BY <1>3, <1>6, <1>7 DEF Types, TtyInv, PushInv, PluginEntry, Stages, ttyVars
<1>8. CASE /\ Target(c) # None
           /\ meth' = [meth EXCEPT ![c] = "log"]
           /\ push' = [push EXCEPT ![c] =
                          [at |-> "full", to |-> Target(c), pipe |-> k, line |-> line]]
  <2>1. Types'
    BY <1>1, <1>3, <1>5, <1>6, <1>8 DEF Types
  <2>2. PushInv'
    BY <1>2, <1>3, <1>5, <1>8 DEF PushInv, Types
  <2>3. Stages'
    BY <1>2, <1>3, <1>8 DEF Stages, Types
  <2>4. QED
    BY <2>1, <2>2, <2>3, <1>3, <1>6 DEF TtyInv, PluginEntry, ttyVars
<1>9. QED
  BY <1>4, <1>7, <1>8

\* PushPluginOutput on a full queue.
LEMMA StepPush ==
    ASSUME ExecInv, NEW c \in Calls, UNCHANGED ttyVars, PushPluginOutput(c)
    PROVE  ExecInv'
<1> USE DEF ExecInv
<1> DEFINE p == push[c]
<1>1. /\ p # NoPush
      /\ p.to \in Calls /\ p.pipe \in Pipes /\ p.line \in Lines
  BY DEF PushPluginOutput, Types, NoPush
<1>2. p.line.from = c /\ meth[c] \in {"log", "failed"} /\ answer[c] # "response"
  BY <1>1 DEF PushInv, Stages
<1>3. UNCHANGED <<byClient, byPlugin, hnd, result, answer>>
  BY SMTT(30) DEF PushPluginOutput, registry, clients
<1>4. QueueStep(p.to, p.pipe, p.line)
  BY DEF PushPluginOutput, Displace, Retry, Put, QueueStep
<1>5. queue' \in [Calls -> [Pipes -> Seq(Lines)]] /\ Drained'
  BY <1>1, <1>2, <1>3, <1>4, QueueKept
<1>6. CASE push' = [push EXCEPT ![c].at = "retry"] /\ UNCHANGED meth /\ p.at = "full"
  <2>1. /\ push'[c] # NoPush /\ push'[c].to = p.to /\ push'[c].line = p.line
        /\ push' \in [Calls -> {NoPush} \cup [at : {"full", "retry"}, to : Calls,
                                              pipe : Pipes, line : Lines]]
        /\ \A d \in Calls \ {c} : push'[d] = push[d]
    BY ZenonT(60), <1>1, <1>6 DEF Types, NoPush
  <2>2. Types'
    BY <2>1, <1>3, <1>5, <1>6 DEF Types
  <2>3. PushInv'
    BY <2>1, <1>1, <1>3, <1>6 DEF PushInv
  <2>4. QED
    BY <2>2, <2>3, <1>3, <1>5, <1>6 DEF TtyInv, PluginEntry, Stages, ttyVars
<1>7. CASE /\ push' = [push EXCEPT ![c] = NoPush]
           /\ meth' = IF meth[c] = "log" THEN [meth EXCEPT ![c] = "run"] ELSE meth
  <2>1. Types' /\ PushInv'
    <3>1. /\ push' \in [Calls -> {NoPush} \cup [at : {"full", "retry"}, to : Calls,
                                                pipe : Pipes, line : Lines]]
          /\ push'[c] = NoPush
          /\ \A d \in Calls \ {c} : push'[d] = push[d]
      BY <1>7 DEF Types
    <3>2. /\ meth' \in [Calls -> {"off", "run", "log", "read", "returned", "failed"}]
          /\ \A d \in Calls \ {c} : meth'[d] = meth[d]
      BY <1>7 DEF Types
    <3>3. Types'
      BY <3>1, <3>2, <1>3, <1>5 DEF Types
    <3>4. PushInv'
      BY <3>1, <3>2, <1>3 DEF PushInv
    <3>5. QED
      BY <3>3, <3>4
  <2>2. Stages'
    BY <1>2, <1>3, <1>7 DEF Types, Stages
  <2>3. QED
    BY <2>1, <2>2, <1>3, <1>5 DEF TtyInv, PluginEntry, ttyVars
<1>8. QED
  BY <1>6, <1>7 DEF PushPluginOutput

\* The handler of a terminal.  What it pushes is not of a method's Stdout().
LEMMA StepReceive ==
    ASSUME ExecInv, NEW c \in Terminals, Receive(c)
    PROVE  ExecInv'
<1> USE DEF ExecInv
<1>0. c \in Calls /\ "stdout" \in Pipes
  BY TtyAssumption, ExecutorAssumption
<1>1. UNCHANGED <<hnd, byClient, byPlugin, push, meth, result, answer>>
  BY DEF Receive, registry, handlers, plugin, clients
<1>2. CASE tin[c] # <<>> /\ tin' = [tin EXCEPT ![c] = Tail(@)]
  <2> DEFINE pkt == Head(tin[c])
  <2>1. tin[c] \in Seq(TtyLines \cup {Eof})
    BY DEF TtyInv
  <2>2. /\ pkt \in TtyLines \cup {Eof}
        /\ Tail(tin[c]) \in Seq(TtyLines \cup {Eof})
    BY <2>1, <1>2
  <2>3. tin' \in [Terminals -> Seq(TtyLines \cup {Eof})]
    BY <2>2, <1>2 DEF TtyInv
  <2>4. CASE UNCHANGED <<queue, tpush>>
    BY <1>1, <2>3, <2>4 DEF Types, TtyInv, PushInv, PluginEntry, Stages, Drained
  <2>5. CASE pkt # Eof /\ Put(c, "stdout", pkt) /\ UNCHANGED tpush
    <3>1. pkt \in Lines /\ pkt.via # "log"
      BY <2>2, <2>5 DEF TtyLines, Lines
    <3>2. QueueStep(c, "stdout", pkt)
      BY <2>5 DEF Put, QueueStep
    <3>3. queue' \in [Calls -> [Pipes -> Seq(Lines)]] /\ Drained'
      BY <3>1, <3>2, <1>0, <1>1, QueueKept
    <3>4. QED
      BY <3>3, <1>1, <2>3, <2>5 DEF Types, TtyInv, PushInv, PluginEntry, Stages
  <2>6. CASE /\ pkt # Eof
             /\ tpush' = [tpush EXCEPT ![c] = [at |-> "full", line |-> pkt]]
             /\ UNCHANGED queue
    <3>1. tpush' \in [Terminals -> {NoPush} \cup [at : {"full", "retry"}, line : TtyLines]]
      BY <2>2, <2>6 DEF TtyInv
    <3>2. QED
      BY <3>1, <1>1, <2>3, <2>6 DEF Types, TtyInv, PushInv, PluginEntry, Stages, Drained
  <2>7. QED
    BY <2>4, <2>5, <2>6, <1>2 DEF Receive
<1>3. CASE UNCHANGED <<queue, tpush, tin>>
  BY <1>1, <1>3, Quiet DEF relevant
<1>4. QED
  BY <1>2, <1>3 DEF Receive

\* The same for a line from a terminal.
LEMMA StepTtyPush ==
    ASSUME ExecInv, NEW c \in Terminals, TtyPush(c)
    PROVE  ExecInv'
<1> USE DEF ExecInv
<1> DEFINE p == tpush[c]
<1>0. c \in Calls /\ "stdout" \in Pipes
  BY TtyAssumption, ExecutorAssumption
<1>1. p.line \in TtyLines /\ p.at \in {"full", "retry"}
  BY DEF TtyPush, TtyInv, NoPush
<1>2. p.line \in Lines /\ p.line.via # "log"
  BY <1>1 DEF TtyLines, Lines
<1>3. UNCHANGED <<hnd, byClient, byPlugin, push, meth, result, answer, tin>>
  BY DEF TtyPush, registry, handlers, plugin, clients
<1>4. QueueStep(c, "stdout", p.line)
  BY DEF TtyPush, Displace, Retry, Put, QueueStep
<1>5. queue' \in [Calls -> [Pipes -> Seq(Lines)]] /\ Drained'
  BY <1>0, <1>2, <1>3, <1>4, QueueKept
<1>6. tpush' \in [Terminals -> {NoPush} \cup [at : {"full", "retry"}, line : TtyLines]]
  <2>1. tpush[c] \in [at : {"full", "retry"}, line : TtyLines]
    BY DEF TtyPush, TtyInv, NoPush
  <2>2. CASE tpush' = [tpush EXCEPT ![c].at = "retry"]
    BY <2>1, <2>2 DEF TtyInv
  <2>3. CASE tpush' = [tpush EXCEPT ![c] = NoPush]
    BY <2>3 DEF TtyInv
  <2>4. QED
    BY <2>2, <2>3 DEF TtyPush
<1>7. QED
  BY <1>3, <1>5, <1>6 DEF Types, TtyInv, PushInv, PluginEntry, Stages

\* The plugin's packets.
LEMMA StepWrite ==
    ASSUME ExecInv, Counted, NEW c \in Terminals, Write(c) \/ CloseTty(c)
    PROVE  ExecInv'
<1>1. UNCHANGED <<hnd, byClient, byPlugin, queue, push, meth, result, answer, tpush>>
  BY DEF Write, CloseTty, registry, handlers, clients, plugin, execVars
<1>2. c \in Calls
  BY TtyAssumption
<1>3. PICK pkt \in TtyLines \cup {Eof} : tin' = [tin EXCEPT ![c] = Append(@, pkt)]
  BY <1>2 DEF Counted, Write, CloseTty, TtyLines
<1>4. tin[c] \in Seq(TtyLines \cup {Eof})
  BY DEF ExecInv, TtyInv
<1>5. Append(tin[c], pkt) \in Seq(TtyLines \cup {Eof})
  BY <1>4
<1>6. tin' \in [Terminals -> Seq(TtyLines \cup {Eof})]
  BY <1>3, <1>5 DEF ExecInv, TtyInv
<1>7. QED
  BY <1>1, <1>6 DEF ExecInv, Types, TtyInv, PushInv, PluginEntry, Stages, Drained

-------------------------------------------------------------------------------
(* The theorems.                                                           *)

\* No call is registered, and nothing written, at the start.
LEMMA ExecInitInv ==
    ASSUME Init
    PROVE  ExecInv
<1>1. Types
  BY DEF Init, ExecInit, Types
<1>2. TtyInv
  BY DEF Init, TtyInv
<1>3. PushInv /\ PluginEntry /\ Stages /\ Drained
  BY DEF Init, ExecInit, PushInv, PluginEntry, Stages, Drained, None
<1>4. QED
  BY <1>1, <1>2, <1>3 DEF ExecInv

\* Only Log and Write count, and only as far as MaxLines.
LEMMA CountedStep ==
    ASSUME Counted, [Next]_vars
    PROVE  Counted'
<1>1. \/ UNCHANGED wrote
      \/ \E c \in Calls : wrote[c] < MaxLines /\ wrote' = [wrote EXCEPT ![c] = @ + 1]
  <2>1. CASE UNCHANGED vars
    BY <2>1 DEF vars, execVars, plugin
  <2>2. ASSUME NEW c \in Calls, Call(c)
        PROVE  \/ UNCHANGED wrote
               \/ wrote[c] < MaxLines /\ wrote' = [wrote EXCEPT ![c] = @ + 1]
    <3>1. CASE Daemon(c)
      BY <3>1 DEF Daemon, Refuse, Register, Handler, Forward, TakeResult, Respond, Close,
                  Unregister, ReceiveInput, HttpResult, PushPluginOutput,
                  ReadStdinFromCall, plugin
    <3>2. CASE Outside(c) \/ Plain(c)
      BY <3>2 DEF Outside, Plain, Log, Fail, Send, GoAway, Read, Return, plugin
    <3>3. QED
      BY <2>2, <3>1, <3>2 DEF Call
  <2>3. ASSUME NEW c \in Terminals, Terminal(c)
        PROVE  \/ UNCHANGED wrote
               \/ wrote[c] < MaxLines /\ wrote' = [wrote EXCEPT ![c] = @ + 1]
    BY <2>3 DEF Terminal, TtyConn, Write, Closing, CloseTty, BridgeRead, Receive, TtyPush,
                FwdCheck, FwdRead, FwdSend, execVars, plugin
  <2>4. QED
    BY <2>1, <2>2, <2>3, TtyAssumption DEF Next
<1>2. MaxLines \in Nat
  BY ExecutorAssumption
<1>3. QED
  BY <1>1, <1>2 DEF Counted

\* Every step is of one of the kinds above, or leaves ExecInv's variables alone.
LEMMA ExecStep ==
    ASSUME ExecInv, Counted, [Next]_vars
    PROVE  ExecInv'
<1>1. CASE UNCHANGED vars
  BY <1>1, Quiet DEF vars, execVars, ttyVars, registry, handlers, plugin, clients, relevant
<1>2. ASSUME NEW c \in Calls, Call(c)
      PROVE  ExecInv'
  <2>1. UNCHANGED ttyVars
    BY <1>2 DEF Call
  <2>2. CASE \E k \in Pipes : Forward(c, k)
    BY <2>1, <2>2, StepForward
  <2>3. CASE \/ Refuse(c) \/ Register(c) \/ TakeResult(c) \/ Respond(c) \/ Close(c)
             \/ Unregister(c)
    BY <2>1, <2>3, StepHandler
  <2>4. CASE \/ HttpResult(c) \/ ReadStdinFromCall(c) \/ Read(c) \/ Return(c) \/ Fail(c)
    BY <2>1, <2>4, StepMethod
  <2>5. CASE PushPluginOutput(c)
    BY <2>1, <2>5, StepPush
  <2>6. CASE \E k \in Pipes : Log(c, k)
    BY <2>1, <2>6, StepLog
  <2>7. CASE ReceiveInput(c)
    BY <2>1, <2>7, Quiet DEF ReceiveInput, registry, plugin, ttyVars, relevant
  <2>8. CASE GoAway(c) \/ \E m \in {"key", "resize"} : Send(c, m)
    BY <2>1, <2>8, Quiet DEF GoAway, Send, registry, handlers, plugin, ttyVars, relevant
  <2>9. QED
    BY <1>2, <2>2, <2>3, <2>4, <2>5, <2>6, <2>7, <2>8
       DEF Call, Daemon, Handler, Outside, Plain
<1>3. ASSUME NEW c \in Terminals, Terminal(c)
      PROVE  ExecInv'
  <2>1. CASE Receive(c)
    BY <2>1, StepReceive
  <2>2. CASE TtyPush(c)
    BY <2>2, StepTtyPush
  <2>3. CASE Write(c) \/ CloseTty(c)
    BY <2>3, StepWrite
  <2>4. CASE TtyConn(c) \/ Closing(c) \/ BridgeRead(c)
    BY <2>4, Quiet DEF TtyConn, Closing, BridgeRead, execVars, registry, handlers, plugin,
                       clients, relevant
  <2>5. CASE FwdCheck(c) \/ FwdRead(c) \/ FwdSend(c)
    BY <2>5, Quiet DEF FwdCheck, FwdRead, FwdSend, registry, handlers, plugin, clients,
                       relevant
  <2>6. QED
    BY <1>3, <2>1, <2>2, <2>3, <2>4, <2>5 DEF Terminal
<1>4. QED
  BY <1>1, <1>2, <1>3 DEF Next

\* What the steps of CallPlugin, the IOService and the terminals keep.
THEOREM ExecInvHolds == Spec => []ExecInv
<1>1. Init => ExecInv
  BY ExecInitInv
<1>2. ExecInv /\ Counted /\ [Next]_vars => ExecInv'
  BY ExecStep
<1>3. Init => Counted
  BY ExecutorAssumption DEF Init, ExecInit, Counted
<1>4. Counted /\ [Next]_vars => Counted'
  BY CountedStep
<1>5. QED
  BY <1>1, <1>2, <1>3, <1>4, PTL DEF Spec

\* Output is pushed to calls that are registered only, however many calls of the
\* plugin begin and end while methods write.
THEOREM OutputGoesToActiveCallsHolds == Spec => []OutputGoesToActiveCalls
<1>1. ExecInv => OutputGoesToActiveCalls
  BY DEF ExecInv, PluginEntry, PushInv, OutputGoesToActiveCalls
<1>2. QED
  BY <1>1, ExecInvHolds, PTL

\* A client that has the response of its method has had all of the output.
THEOREM OutputBeforeResponseHolds == Spec => []OutputBeforeResponse
<1>1. ExecInv => OutputBeforeResponse
  BY DEF ExecInv, Drained, Own, OutputBeforeResponse
<1>2. QED
  BY <1>1, ExecInvHolds, PTL

-------------------------------------------------------------------------------
(* The types of all variables.                                             *)

\* What ExecInv does not say of the control state.
Control ==
    /\ inp \in [Calls -> {"off", "recv", "done"}]
    /\ http \in [Calls -> {"off", "calling", "done"}]
    /\ rd \in [Calls -> {"off", "wait"}]
    /\ eof \in [Calls -> BOOLEAN]
    /\ resize \subseteq Calls
    /\ gone \subseteq Calls
    /\ wrote \in [Calls -> 0 .. MaxLines]
    /\ panicked \in BOOLEAN
    /\ tty \in [Terminals -> {"off", "open", "returned"}]
    /\ fwd \in [Terminals -> {"off", "check", "wait", "size", "key", "last", "done"}]
    /\ tout \in [Terminals -> Seq({"key", "size"})]
    /\ bridge \in [Terminals -> {"off", "recv", "out", "done"}]
    /\ conn \in [Terminals -> {"off", "open", "closing", "closed"}]

\* What is in a call's stdin buffer, and on its way there, the client has sent.
Input ==
    /\ up \in [Calls -> Seq({"key", "resize"})]
    /\ buf \in [Calls -> Nat]
    /\ sent \in [Calls -> 0 .. MaxInput]
    /\ \A c \in Calls : buf[c] + Len(up[c]) <= sent[c]

\* No queue holds more than its channel.
Room == \A c \in Calls : \A k \in Pipes : Len(queue[c][k]) <= QueueSize

TypeInv == Control /\ Input /\ Room

\* A step of a queue that adds a line only where there is room.
LEMMA RoomKept ==
    ASSUME Types, Room, NEW d \in Calls, NEW k \in Pipes, NEW line \in Lines,
           \/ UNCHANGED queue
           \/ queue[d][k] # <<>> /\ queue' = [queue EXCEPT ![d][k] = Tail(@)]
           \/ HasRoom(d, k) /\ Put(d, k, line)
    PROVE  Room'
<1>1. /\ queue \in [Calls -> [Pipes -> Seq(Lines)]]
      /\ queue[d][k] \in Seq(Lines)
      /\ QueueSize \in Nat
  BY ExecutorAssumption DEF Types
<1>2. CASE UNCHANGED queue
  BY <1>2 DEF Room
<1>3. CASE queue[d][k] # <<>> /\ queue' = [queue EXCEPT ![d][k] = Tail(@)]
  <2>1. Len(Tail(queue[d][k])) <= QueueSize
    BY <1>1, <1>3 DEF Room
  <2>2. QED
    BY <2>1, <1>1, <1>3 DEF Room
<1>4. CASE HasRoom(d, k) /\ Put(d, k, line)
  <2>1. Len(Append(queue[d][k], line)) <= QueueSize
    BY <1>1, <1>4 DEF HasRoom
  <2>2. queue' = [queue EXCEPT ![d][k] = Append(@, line)]
    BY <1>4 DEF Put
  <2>3. QED
    BY <2>1, <2>2, <1>1 DEF Room
<1>5. QED
  BY <1>2, <1>3, <1>4

\* An update with an element of the range.
LEMMA Updated ==
    ASSUME NEW S, NEW D, NEW f \in [D -> S], NEW g, NEW c, NEW v \in S,
           g = f \/ g = [f EXCEPT ![c] = v]
    PROVE  g \in [D -> S]
OBVIOUS

\* The daemon's steps and the method's: the control state.
LEMMA ControlOfCalls ==
    ASSUME Types, Control, NEW c \in Calls, Call(c)
    PROVE  Control'
<1>0. UNCHANGED ttyVars
  BY DEF Call
<1> USE DEF registry, input, handlers, plugin, clients, Control
<1>1. CASE Register(c)
  BY <1>0, <1>1 DEF ttyVars, Register
<1>2. CASE \/ Refuse(c) \/ TakeResult(c) \/ Respond(c) \/ Unregister(c)
           \/ \E k \in Pipes : Forward(c, k)
  <2>1. UNCHANGED <<inp, http, rd, eof, resize, gone, wrote, panicked>>
    BY <1>2 DEF Refuse, TakeResult, Respond, Unregister, Forward
  <2>2. QED
    BY <2>1, <1>0 DEF ttyVars
<1>7. CASE Close(c) \/ ReceiveInput(c)
  <2>1. /\ UNCHANGED <<http, rd, gone, wrote, panicked>>
        /\ inp' \in {inp, [inp EXCEPT ![c] = "done"]}
        /\ eof' \in {eof, [eof EXCEPT ![c] = TRUE]}
        /\ resize' \in {resize, resize \cup {c}}
    BY <1>7 DEF Close, ReceiveInput, CloseStdin
  <2>2. /\ inp' \in [Calls -> {"off", "recv", "done"}]
        /\ eof' \in [Calls -> BOOLEAN]
        /\ resize' \subseteq Calls
    BY ZenonT(60), <2>1
  <2>3. QED
    BY <2>1, <2>2, <1>0 DEF ttyVars
<1>3. CASE HttpResult(c) \/ PushPluginOutput(c) \/ ReadStdinFromCall(c)
  BY ZenonT(60), <1>0, <1>3 DEF ttyVars, HttpResult, PushPluginOutput, ReadStdinFromCall
<1>4. CASE Plain(c) \/ Fail(c) \/ GoAway(c) \/ \E m \in {"key", "resize"} : Send(c, m)
  BY SMTT(30), <1>0, <1>4 DEF ttyVars, Plain, Read, Return, Fail, GoAway, Send
<1>5. CASE \E k \in Pipes : Log(c, k)
  BY <1>0, <1>5, ExecutorAssumption DEF ttyVars, Log
<1>6. QED
  BY <1>1, <1>2, <1>3, <1>4, <1>5, <1>7 DEF Call, Daemon, Handler, Outside

\* The same for a terminal's.
LEMMA ControlOfTerminals ==
    ASSUME Types, Control, NEW c \in Terminals, Terminal(c)
    PROVE  Control'
<1> USE TtyAssumption DEF Control
<1>1. CASE TtyConn(c) \/ Closing(c) \/ CloseTty(c)
  <2>1. UNCHANGED <<inp, http, rd, eof, resize, gone, wrote, panicked, tout>>
    BY <1>1 DEF TtyConn, Closing, CloseTty, execVars, registry, input, handlers, plugin,
                clients
  <2>2. /\ tty' \in {tty, [tty EXCEPT ![c] = "open"]}
        /\ fwd' \in {fwd, [fwd EXCEPT ![c] = "check"]}
        /\ bridge' \in {bridge, [bridge EXCEPT ![c] = "recv"]}
        /\ conn' \in {conn, [conn EXCEPT ![c] = "open"], [conn EXCEPT ![c] = "closing"],
                      [conn EXCEPT ![c] = "closed"]}
    BY <1>1 DEF TtyConn, Closing, CloseTty
  <2>3. tty' \in [Terminals -> {"off", "open", "returned"}]
    BY ZenonT(60), <2>2, Updated
  <2>6. bridge' \in [Terminals -> {"off", "recv", "out", "done"}]
    BY ZenonT(60), <2>2, Updated
  <2>4. fwd' \in [Terminals -> {"off", "check", "wait", "size", "key", "last", "done"}]
    BY ZenonT(60), <2>2, Updated
  <2>5. conn' \in [Terminals -> {"off", "open", "closing", "closed"}]
    BY ZenonT(60), <2>2, Updated
  <2>7. QED
    BY <2>1, <2>3, <2>4, <2>5, <2>6
<1>2. CASE Write(c)
  BY <1>2, ExecutorAssumption DEF Write, registry, input, handlers, clients
<1>3. CASE BridgeRead(c)
  <2>1. tout' \in [Terminals -> Seq({"key", "size"})]
    <3>1. tout' = tout \/ (tout[c] # <<>> /\ tout' = [tout EXCEPT ![c] = Tail(@)])
      BY <1>3 DEF BridgeRead
    <3>2. tout[c] # <<>> => Tail(tout[c]) \in Seq({"key", "size"})
      OBVIOUS
    <3>3. QED
      BY ZenonT(60), <3>1, <3>2
  <2>2. bridge' \in [Terminals -> {"off", "recv", "out", "done"}]
    <3>1. bridge' \in {bridge, [bridge EXCEPT ![c] = "out"], [bridge EXCEPT ![c] = "done"],
                       [bridge EXCEPT ![c] = "recv"]}
      BY <1>3 DEF BridgeRead
    <3>2. QED
      BY ZenonT(60), <3>1
  <2>3. QED
    BY <2>1, <2>2, <1>3 DEF BridgeRead, execVars, registry, input, handlers, plugin, clients
<1>4. CASE Receive(c) \/ TtyPush(c)
  BY ZenonT(60), <1>4 DEF Receive, TtyPush, registry, input, handlers, plugin, clients
<1>5. CASE FwdCheck(c) \/ FwdRead(c)
  <2>1. /\ UNCHANGED <<inp, http, rd, eof, gone, wrote, panicked, tty, tout, bridge, conn>>
        /\ resize' \in {resize, resize \ {c}}
        /\ \/ UNCHANGED fwd
           \/ \E v \in {"done", "size", "wait", "last", "key"} : fwd' = [fwd EXCEPT ![c] = v]
    BY <1>5 DEF FwdCheck, FwdRead, registry, handlers, plugin, clients
  <2>2. fwd' \in [Terminals -> {"off", "check", "wait", "size", "key", "last", "done"}]
    <3>1. CASE UNCHANGED fwd
      BY <3>1
    <3>2. ASSUME NEW v \in {"done", "size", "wait", "last", "key"},
                 fwd' = [fwd EXCEPT ![c] = v]
          PROVE  fwd' \in [Terminals -> {"off", "check", "wait", "size", "key", "last", "done"}]
      BY <3>2
    <3>3. QED
      BY <2>1, <3>1, <3>2
  <2>3. resize' \subseteq Calls
    BY <2>1
  <2>4. QED
    BY <2>1, <2>2, <2>3
<1>6. CASE FwdSend(c)
  <2>1. tout' \in [Terminals -> Seq({"key", "size"})]
    <3>1. \/ tout' = tout
          \/ tout' = [tout EXCEPT ![c] = Append(@, IF fwd[c] = "size" THEN "size" ELSE "key")]
      BY <1>6 DEF FwdSend
    <3>2. Append(tout[c], IF fwd[c] = "size" THEN "size" ELSE "key") \in Seq({"key", "size"})
      OBVIOUS
    <3>3. QED
      BY ZenonT(60), <3>1, <3>2
  <2>2. /\ fwd' \in [Terminals -> {"off", "check", "wait", "size", "key", "last", "done"}]
        /\ panicked' \in BOOLEAN
    BY ZenonT(60), <1>6 DEF FwdSend
  <2>3. QED
    BY <2>1, <2>2, <1>6 DEF FwdSend, registry, input, handlers, plugin, clients
<1>7. QED
  BY <1>1, <1>2, <1>3, <1>4, <1>5, <1>6 DEF Terminal

\* The client sends a message, the daemon takes the oldest one and puts a key in
\* the buffer, the method reads some of them; a terminal reads them all.
LEMMA InputKept ==
    ASSUME Input, NEW c \in Calls,
           \/ UNCHANGED <<buf, up, sent>>
           \/ \E m \in {"key", "resize"} : Send(c, m)
           \/ ReceiveInput(c)
           \/ ReadStdinFromCall(c)
           \/ buf' = [buf EXCEPT ![c] = 0] /\ UNCHANGED <<up, sent>>
    PROVE  Input'
<1> USE DEF Input
<1>0. MaxInput \in Nat /\ up[c] \in Seq({"key", "resize"})
  BY ExecutorAssumption
<1>1. CASE UNCHANGED <<buf, up, sent>>
  BY <1>1
<1>2. ASSUME NEW m \in {"key", "resize"}, Send(c, m)
      PROVE  Input'
  <2>1. /\ Append(up[c], m) \in Seq({"key", "resize"})
        /\ Len(Append(up[c], m)) = Len(up[c]) + 1
    BY <1>0
  <2>2. /\ sent[c] < MaxInput
        /\ sent' = [sent EXCEPT ![c] = @ + 1]
        /\ up' = [up EXCEPT ![c] = Append(@, m)]
        /\ UNCHANGED buf
    BY <1>2 DEF Send, input
  <2>3. QED
    BY SMTT(30), <2>1, <2>2, <1>0
<1>3. CASE ReceiveInput(c)
  <2>0. UNCHANGED sent
    BY <1>3 DEF ReceiveInput
  <2>1. CASE UNCHANGED <<buf, up>>
    BY <2>0, <2>1
  <2>2. CASE /\ up[c] # <<>>
             /\ up' = [up EXCEPT ![c] = Tail(@)]
             /\ buf' \in {buf, [buf EXCEPT ![c] = @ + 1]}
    <3>1. /\ Tail(up[c]) \in Seq({"key", "resize"})
          /\ Len(Tail(up[c])) = Len(up[c]) - 1
          /\ Len(up[c]) \in Nat /\ buf[c] \in Nat /\ sent[c] \in Nat
          /\ buf[c] + Len(up[c]) <= sent[c]
          /\ up'[c] = Tail(up[c]) /\ sent'[c] = sent[c]
      BY <1>0, <2>0, <2>2
    <3>2. up' \in [Calls -> Seq({"key", "resize"})]
      BY Zenon, <2>2, <3>1, Updated
    <3>3. CASE UNCHANGED buf
      <4>1. buf'[c] + Len(up'[c]) <= sent'[c]
        BY <3>1, <3>3
      <4>2. \A d \in Calls \ {c} : buf'[d] = buf[d] /\ up'[d] = up[d]
        BY <3>3, <2>2
      <4>3. QED
        BY <4>1, <4>2, <2>0, <3>2, <3>3
    <3>4. CASE buf' = [buf EXCEPT ![c] = @ + 1]
      <4>1. buf' \in [Calls -> Nat] /\ buf'[c] = buf[c] + 1
        BY <3>4
      <4>2. buf'[c] + Len(up'[c]) <= sent'[c]
        BY <4>1, <3>1
      <4>3. \A d \in Calls \ {c} : buf'[d] = buf[d] /\ up'[d] = up[d]
        BY <3>4, <2>2
      <4>4. QED
        BY <4>1, <4>2, <4>3, <2>0, <3>2
    <3>5. QED
      BY SMTT(30), <2>2, <3>3, <3>4
  <2>3. QED
    BY <1>3, <2>1, <2>2 DEF ReceiveInput, input
<1>4. CASE ReadStdinFromCall(c)
  <2>1. /\ UNCHANGED <<up, sent>>
        /\ UNCHANGED buf \/ \E n \in 1 .. buf[c] : buf' = [buf EXCEPT ![c] = @ - n]
    BY <1>4 DEF ReadStdinFromCall, clients
  <2>2. CASE UNCHANGED buf
    BY <2>1, <2>2
  <2>3. ASSUME NEW n \in 1 .. buf[c], buf' = [buf EXCEPT ![c] = @ - n]
        PROVE  Input'
    <3>1. /\ buf[c] - n \in Nat
          /\ buf[c] - n + Len(up[c]) <= sent[c]
      BY <1>0
    <3>2. buf' \in [Calls -> Nat]
      BY <2>3, <3>1
    <3>3. QED
      BY <2>1, <2>3, <3>1, <3>2
  <2>4. QED
    BY <2>1, <2>2, <2>3
<1>5. CASE buf' = [buf EXCEPT ![c] = 0] /\ UNCHANGED <<up, sent>>
  BY <1>5, <1>0
<1>6. QED
  BY <1>1, <1>2, <1>3, <1>4, <1>5

\* Nobody has sent anything yet.
LEMMA TypeInit ==
    ASSUME Init
    PROVE  TypeInv
<1>1. Control
  <2>1. 0 \in 0 .. MaxLines
    BY ExecutorAssumption
  <2>2. tout \in [Terminals -> Seq({"key", "size"})]
    BY DEF Init
  <2>3. /\ {inp, http, rd} \subseteq {[c \in Calls |-> "off"]}
        /\ eof = [c \in Calls |-> FALSE] /\ wrote = [c \in Calls |-> 0]
        /\ resize = {} /\ gone = {} /\ panicked = FALSE
    BY DEF Init, ExecInit
  <2>4. {tty, fwd, bridge, conn} \subseteq {[c \in Terminals |-> "off"]}
    BY DEF Init
  <2>5. QED
    BY <2>1, <2>2, <2>3, <2>4 DEF Control
<1>2. Input
  BY ExecutorAssumption DEF Init, ExecInit, Input
<1>3. Room
  BY ExecutorAssumption DEF Init, ExecInit, Room
<1>4. QED
  BY <1>1, <1>2, <1>3 DEF TypeInv

\* One case for calls and one for terminals, and under it one per conjunct.
LEMMA TypeStep ==
    ASSUME ExecInv, TypeInv, [Next]_vars
    PROVE  TypeInv'
<1> USE DEF TypeInv, ExecInv
<1>1. CASE UNCHANGED vars
  BY <1>1 DEF vars, execVars, ttyVars, registry, input, handlers, plugin, clients, Control,
              Input, Room
<1>2. ASSUME NEW c \in Calls, Call(c)
      PROVE  TypeInv'
  <2>1. Control'
    BY <1>2, ControlOfCalls
  <2>2. Input'
    <3>1. CASE \/ \E m \in {"key", "resize"} : Send(c, m)
               \/ ReceiveInput(c) \/ ReadStdinFromCall(c)
      BY <3>1, InputKept
    <3>2. CASE UNCHANGED <<buf, up, sent>>
      BY <3>2, InputKept
    <3>3. CASE Refuse(c) \/ Register(c) \/ Handler(c)
      <4>1. UNCHANGED <<buf, up, sent>>
        BY <3>3 DEF Refuse, Register, Handler, Forward, TakeResult, Respond, Close,
                    Unregister, input, clients
      <4>2. QED
        BY <4>1, <3>2
    <3>4. CASE \/ HttpResult(c) \/ PushPluginOutput(c) \/ Plain(c) \/ Fail(c) \/ GoAway(c)
               \/ \E k \in Pipes : Log(c, k)
      <4>1. UNCHANGED <<buf, up, sent>>
        BY <3>4 DEF HttpResult, PushPluginOutput, Plain, Read, Return, Fail, GoAway, Log,
                    input, clients
      <4>2. QED
        BY <4>1, <3>2
    <3>5. QED
      BY <1>2, <3>1, <3>3, <3>4 DEF Call, Daemon, Outside
  <2>3. Room'
    <3>1. ASSUME NEW k \in Pipes, Forward(c, k)
          PROVE  Room'
      <4>1. [from |-> c, via |-> "log", n |-> 0] \in Lines
        BY ExecutorAssumption DEF Lines
      <4>2. QED
        BY <3>1, <4>1, RoomKept DEF Forward
    <3>2. ASSUME NEW k \in Pipes, Log(c, k)
          PROVE  Room'
      <4> DEFINE line == [from |-> c, via |-> "log", n |-> wrote[c]]
      <4>1. line \in Lines
        BY DEF Control, Lines
      <4>2. Target(c) # None => Target(c) \in Calls
        BY DEF Target, Types
      <4>3. \/ UNCHANGED queue
            \/ Target(c) # None /\ HasRoom(Target(c), k) /\ Put(Target(c), k, line)
        BY <3>2 DEF Log
      <4>4. CASE UNCHANGED queue
        BY <4>4 DEF Room
      <4>5. QED
        BY <4>1, <4>2, <4>3, <4>4, RoomKept
    <3>3. CASE PushPluginOutput(c)
      <4>1. push[c].to \in Calls /\ push[c].pipe \in Pipes /\ push[c].line \in Lines
        BY <3>3 DEF PushPluginOutput, Types, NoPush
      <4>2. QED
        BY <3>3, <4>1, RoomKept DEF PushPluginOutput, Displace, Retry
    <3>4. CASE UNCHANGED queue
      BY <3>4 DEF Room
    <3>5. CASE \/ Refuse(c) \/ Register(c) \/ TakeResult(c) \/ Respond(c) \/ Close(c)
               \/ Unregister(c) \/ ReceiveInput(c) \/ HttpResult(c) \/ ReadStdinFromCall(c)
      BY <3>4, <3>5 DEF Refuse, Register, TakeResult, Respond, Close, Unregister, ReceiveInput,
                        HttpResult, ReadStdinFromCall
    <3>6. CASE Plain(c) \/ Fail(c) \/ GoAway(c) \/ \E m \in {"key", "resize"} : Send(c, m)
      BY <3>4, <3>6 DEF Plain, Read, Return, Fail, GoAway, Send
    <3>7. QED
      BY <1>2, <3>1, <3>2, <3>3, <3>5, <3>6 DEF Call, Daemon, Handler, Outside
  <2>4. QED
    BY <2>1, <2>2, <2>3
<1>3. ASSUME NEW c \in Terminals, Terminal(c)
      PROVE  TypeInv'
  <2>0. c \in Calls /\ "stdout" \in Pipes
    BY TtyAssumption, ExecutorAssumption
  <2>1. Control'
    BY <1>3, ControlOfTerminals
  <2>2. Input'
    <3>1. \/ UNCHANGED <<buf, up, sent>>
          \/ buf' = [buf EXCEPT ![c] = 0] /\ UNCHANGED <<up, sent>>
      BY <1>3 DEF Terminal, TtyConn, Write, Closing, CloseTty, BridgeRead, Receive, TtyPush,
                  FwdCheck, FwdRead, FwdSend, execVars, input, clients
    <3>2. QED
      BY <3>1, <2>0, InputKept
  <2>3. Room'
    <3>1. CASE Receive(c)
      <4>1. CASE /\ tin[c] # <<>>
                 /\ Head(tin[c]) # Eof
                 /\ HasRoom(c, "stdout")
                 /\ Put(c, "stdout", Head(tin[c]))
        <5>1. tin[c] \in Seq(TtyLines \cup {Eof})
          BY DEF TtyInv
        <5>2. Head(tin[c]) \in TtyLines
          BY <4>1, <5>1
        <5>3. Head(tin[c]) \in Lines
          BY <5>2 DEF TtyLines, Lines
        <5>4. QED
          BY <4>1, <5>3, <2>0, RoomKept
      <4>2. CASE UNCHANGED queue
        BY <4>2 DEF Room
      <4>3. QED
        BY <3>1, <4>1, <4>2 DEF Receive
    <3>2. CASE TtyPush(c)
      <4>1. tpush[c].line \in Lines
        BY <3>2 DEF TtyPush, TtyInv, NoPush, TtyLines, Lines
      <4>2. QED
        BY <3>2, <4>1, <2>0, RoomKept DEF TtyPush, Displace, Retry
    <3>3. CASE ~Receive(c) /\ ~TtyPush(c)
      <4>1. UNCHANGED queue
        BY <1>3, <3>3 DEF Terminal, TtyConn, Write, Closing, CloseTty, BridgeRead, FwdCheck,
                          FwdRead, FwdSend, execVars
      <4>2. QED
        BY <4>1 DEF Room
    <3>4. QED
      BY <3>1, <3>2, <3>3
  <2>4. QED
    BY <2>1, <2>2, <2>3
<1>4. QED
  BY <1>1, <1>2, <1>3 DEF Next

\* Whatever the sizes: queues keep their capacity, and the stdin buffer never
\* holds more than the client has sent.
THEOREM ExecTypeOKHolds == Spec => []ExecTypeOK
<1>1. Init => TypeInv
  BY TypeInit
<1>2. ExecInv /\ TypeInv /\ [Next]_vars => TypeInv'
  BY TypeStep
<1>3. ExecInv /\ TypeInv => ExecTypeOK
  <2> SUFFICES ASSUME ExecInv, TypeInv
               PROVE  ExecTypeOK
    OBVIOUS
  <2>1. buf \in [Calls -> 0 .. MaxInput]
    <3>1. ASSUME NEW c \in Calls
          PROVE  buf[c] \in 0 .. MaxInput
      <4>1. Len(up[c]) \in Nat /\ MaxInput \in Nat
        BY ExecutorAssumption DEF TypeInv, Input
      <4>2. QED
        BY <4>1 DEF TypeInv, Input
    <3>2. QED
      BY <3>1 DEF TypeInv, Input
  <2>2. QED
    BY <2>1 DEF ExecInv, TypeInv, Types, Control, Input, Room, ExecTypeOK
<1>4. QED
  BY <1>1, <1>2, <1>3, ExecInvHolds, PTL DEF Spec

\* The same with the state of the terminals.
THEOREM TypeOKHolds == Spec => []TypeOK
<1>1. Init => TypeInv
  BY TypeInit
<1>2. ExecInv /\ TypeInv /\ [Next]_vars => TypeInv'
  BY TypeStep
<1>3. ExecInv /\ TypeInv /\ ExecTypeOK => TypeOK
  <2> SUFFICES ASSUME ExecInv, TypeInv, ExecTypeOK
               PROVE  TypeOK
    OBVIOUS
  <2>1. TtyLines \subseteq Lines
    BY DEF TtyLines, Lines
  <2>2. \A c \in Terminals : tin[c] \in Seq(Lines \cup {Eof})
    BY <2>1 DEF ExecInv, TtyInv
  <2>3. tpush \in [Terminals -> {NoPush} \cup [at : {"full", "retry"}, line : Lines]]
    BY <2>1 DEF ExecInv, TtyInv
  <2>4. QED
    BY <2>2, <2>3 DEF TypeInv, Control, TypeOK
<1>4. QED
  BY <1>1, <1>2, <1>3, ExecInvHolds, ExecTypeOKHolds, PTL DEF Spec

===============================================================================
