---------------------------- MODULE ProgramsProofs -----------------------------
(***************************************************************************)
(* Theorems about a background command, and about four machines of         *)
(* MCPrograms: clients that share sessions, the MCP server, daemons that   *)
(* follow one another, and scripts; of each by itself; and about the names *)
(* of plugins' commands.                                                   *)
(***************************************************************************)
EXTENDS BackgroundTask, Client, Mcp, Lifecycle, Scripts, Commands,
        FunctionTheorems, Functions, SequenceTheorems, Induction

-------------------------------------------------------------------------------
(* A background command: its process ends with its handler, and no output  *)
(* is lost between them and the plugin.                                    *)

USE TaskAssumption

Messages == {"started", "exit", "garbled"} \cup Pipes

-------------------------------------------------------------------------------
(* How many messages of a queue are m.                                     *)

Count(s, m) == Cardinality({i \in 1 .. Len(s) : s[i] = m})

LEMMA CountFinite ==
    ASSUME NEW s \in Seq(Messages), NEW m
    PROVE  IsFiniteSet({i \in 1 .. Len(s) : s[i] = m}) /\ Count(s, m) \in Nat
  <1>1. IsFiniteSet(1 .. Len(s)) BY FS_Interval
  <1>2. {i \in 1 .. Len(s) : s[i] = m} \in SUBSET (1 .. Len(s)) OBVIOUS
  <1>3. IsFiniteSet({i \in 1 .. Len(s) : s[i] = m}) BY <1>1, <1>2, FS_Subset
  <1> QED BY <1>3, FS_CardinalityType DEF Count

LEMMA CountEmpty == \A m : Count(<<>>, m) = 0
  BY FS_EmptySet DEF Count

LEMMA CountAppend ==
    ASSUME NEW s \in Seq(Messages), NEW n \in Messages, NEW m
    PROVE  Count(Append(s, n), m) = IF n = m THEN Count(s, m) + 1 ELSE Count(s, m)
  <1> DEFINE S == {i \in 1 .. Len(s) : s[i] = m}
             T == {i \in 1 .. Len(Append(s, n)) : Append(s, n)[i] = m}
  <1>1. IsFiniteSet(S) BY CountFinite
  <1>2. CASE n = m
    <2>1. T = S \cup {Len(s) + 1} BY <1>2
    <2>2. Len(s) + 1 \notin S OBVIOUS
    <2> HIDE DEF S, T
    <2>3. Cardinality(T) = Cardinality(S) + 1 BY <1>1, <2>1, <2>2, FS_AddElement
    <2> QED BY <1>2, <2>3 DEF Count, S, T
  <1>3. CASE n # m
    <2>1. T = S BY <1>3
    <2> QED BY <1>3, <2>1 DEF Count
  <1> QED BY <1>2, <1>3

LEMMA CountTail ==
    ASSUME NEW s \in Seq(Messages), s # <<>>, NEW m
    PROVE  Count(s, m) = IF Head(s) = m THEN Count(Tail(s), m) + 1 ELSE Count(Tail(s), m)
  <1> DEFINE S == {i \in 1 .. Len(s) : s[i] = m}
             T == {i \in 1 .. Len(Tail(s)) : Tail(s)[i] = m}
             R == S \ {1}
             f == [i \in T |-> i + 1]
  <1>1. IsFiniteSet(S) /\ IsFiniteSet(T)
    <2>1. Tail(s) \in Seq(Messages) OBVIOUS
    <2>2. IsFiniteSet(S) BY CountFinite
    <2>3. IsFiniteSet(T) BY <2>1, CountFinite
    <2> QED BY <2>2, <2>3
  <1>2. f \in Bijection(T, R)
    <2>1. ASSUME NEW i \in T PROVE f[i] \in R
      OBVIOUS
    <2>2. ASSUME NEW j \in R PROVE j - 1 \in T /\ f[j - 1] = j
      OBVIOUS
    <2>3. ASSUME NEW i \in T, NEW j \in T, f[i] = f[j] PROVE i = j
      BY <2>3
    <2> QED BY <2>1, <2>2, <2>3 DEF Bijection, Injection, IsInjective, Surjection
  <1>3. 1 \in S <=> Head(s) = m OBVIOUS
  <1> HIDE DEF S, T, R, f
  <1>4. Cardinality(R) = Cardinality(T) BY <1>1, <1>2, FS_Bijection DEF ExistsBijection
  <1>5. Cardinality(R) = IF 1 \in S THEN Cardinality(S) - 1 ELSE Cardinality(S)
    BY <1>1, FS_RemoveElement DEF R
  <1>6. Cardinality(S) \in Nat BY <1>1, FS_CardinalityType
  <1>7. Cardinality(S) = IF Head(s) = m THEN Cardinality(T) + 1 ELSE Cardinality(T)
    BY <1>3, <1>4, <1>5, <1>6
  <1> QED BY <1>7 DEF Count, S, T
-------------------------------------------------------------------------------
(* The invariant.                                                          *)

\* The chunks read from pipe k that are accounted for: received, on their way in the stream
\* and in the hands of readLoop and of pipeOutput.
One(b) == IF b THEN 1 ELSE 0
Flow(k) == got[k] + Count(down, k) + One(cli = k) + One(rdr[k] = "send")

Early == {"setup", "probe", "start", "started"}
Late == {"unlist", "returned"}
\* The command runs only while the handler waits for it; it has been executed at most once
\* before its task is made.
RunInv ==
    /\ srv \notin {"started", "wait", "crashed"} => proc # "running"
    /\ srv = "setup" => runs = 0
    /\ srv \in {"probe", "start"} => runs <= 1
\* No chunk is received that was not read, nor read that was not written, and none is lost
\* while the connection lasts and no two Sends have overlapped.
FlowInv ==
    /\ \A k \in Pipes : Flow(k) <= taken[k] /\ taken[k] <= written[k]
    /\ ~broken /\ "down" \notin mixed => \A k \in Pipes : Flow(k) = taken[k]
\* The pipes are read between the first message and the last.  The exit code is the last of
\* the stream, and the client that has it has had the whole stream; a chunk is not the first.
OrderInv ==
    /\ srv \in Early => down = <<>> /\ \A k \in Pipes : rdr[k] = "off"
    /\ cli = "starting" => \/ srv \in Early \cup Late /\ \A i \in 1 .. Len(down) : down[i] = "exit"
                           \/ down # <<>> /\ down[1] = "started"
    /\ srv \in Late => \A k \in Pipes : rdr[k] \in {"off", "done"}
    /\ \A i \in 1 .. Len(down) : down[i] = "exit" => i = Len(down) /\ srv \in Late
    /\ cli = "done" /\ ~broken /\ "down" \notin mixed => srv \in Late /\ down = <<>>
    /\ srv \in Early => "down" \notin mixed
    /\ \A i \in 1 .. Len(down) : down[i] = "garbled" => "down" \in mixed
TaskInv == TypeOK /\ RunInv /\ FlowInv /\ OrderInv

LEMMA Typed ==
    ASSUME TypeOK, NEW k \in Pipes
    PROVE  /\ k \in Messages /\ k \notin {"started", "exit", "garbled"} /\ down \in Seq(Messages)
           /\ Count(down, k) \in Nat
           /\ got[k] \in 0 .. MaxChunks /\ taken[k] \in 0 .. MaxChunks /\ written[k] \in 0 .. MaxChunks
           /\ One(cli = k) \in {0, 1} /\ One(rdr[k] = "send") \in {0, 1}
  <1>1. down \in Seq(Messages) BY DEF TypeOK, Messages
  <1>2. k \in Messages /\ k \notin {"started", "exit", "garbled"} BY DEF Messages, Pipes
  <1>3. Count(down, k) \in Nat BY <1>1, CountFinite
  <1>4. got[k] \in 0 .. MaxChunks /\ taken[k] \in 0 .. MaxChunks /\ written[k] \in 0 .. MaxChunks
    BY DEF TypeOK
  <1> QED BY <1>1, <1>2, <1>3, <1>4 DEF One

LEMMA FlowType == TypeOK => \A k \in Pipes : Flow(k) \in Nat
  BY SMTT(30), Typed DEF Flow

LEMMA InitTask == Init => TaskInv
  <1> SUFFICES ASSUME Init PROVE TaskInv
    OBVIOUS
  <1>1. TypeOK
    <2>1. 0 \in 0 .. MaxChunks /\ 0 \in 0 .. 2 BY DEF TaskAssumption
    <2>2. down \in Seq({"started", "exit", "garbled"} \cup Pipes) /\ up \in Seq({"cancel", "stdin", "garbled"})
      BY DEF Init
    <2>3. {listed, exited, open, broken, code} \subseteq BOOLEAN /\ asked \subseteq {"cancel", "stdin"}
          /\ sends \subseteq asked /\ mixed \subseteq {"down", "up"}
      BY DEF Init
    <2> QED BY Zenon, <2>1, <2>2, <2>3 DEF Init, TypeOK
  <1>2. \A k \in Pipes : Flow(k) = 0
    BY CountEmpty DEF Init, Flow, One, Pipes
  <1>3. FlowInv
    <2>1. 0 <= 0 OBVIOUS
    <2> QED BY <1>2, <2>1 DEF Init, FlowInv
  <1>4. RunInv BY DEF Init, RunInv
  <1>5. OrderInv BY DEF Init, OrderInv, Early, Late
  <1> QED BY <1>1, <1>3, <1>4, <1>5 DEF TaskInv

\* A message is sent to the client.
LEMMA Sends ==
    ASSUME TypeOK, NEW m \in Messages, Send(m)
    PROVE  /\ ~broken /\ down' \in Seq(Messages)
           /\ \A k \in Pipes : Count(down', k) = Count(down, k) + One(m = k)
           /\ \A i \in 1 .. Len(down') : \/ i \in 1 .. Len(down) /\ i # Len(down') /\ down'[i] = down[i]
                                         \/ i = Len(down') /\ down'[i] = m
  <1>1. down \in Seq(Messages) BY DEF TypeOK, Messages
  <1>2. ~broken /\ down' = Append(down, m) BY DEF Send
  <1>3. down' \in Seq(Messages) BY <1>1, <1>2
  <1>4. ASSUME NEW k \in Pipes PROVE Count(down', k) = Count(down, k) + One(m = k)
    <2>1. Count(Append(down, m), k) = IF m = k THEN Count(down, k) + 1 ELSE Count(down, k)
      BY <1>1, CountAppend
    <2>2. Count(down, k) \in Nat BY <1>1, CountFinite
    <2> QED BY <1>2, <2>1, <2>2 DEF One
  <1>5. \A i \in 1 .. Len(down') : \/ i \in 1 .. Len(down) /\ i # Len(down') /\ down'[i] = down[i]
                                   \/ i = Len(down') /\ down'[i] = m
    BY <1>1, <1>2
  <1> QED BY <1>2, <1>3, <1>4, <1>5

\* The client takes a message.
LEMMA Receives ==
    ASSUME TypeOK, down # <<>>, down' = Tail(down)
    PROVE  /\ Head(down) \in Messages /\ down' \in Seq(Messages)
           /\ \A k \in Pipes : /\ Count(down, k) = Count(down', k) + One(Head(down) = k)
                              /\ Count(down', k) \in Nat
           /\ Head(down) = down[1] /\ 1 \in 1 .. Len(down)
           /\ \A i \in 1 .. Len(down') : i + 1 \in 1 .. Len(down) /\ down'[i] = down[i + 1]
           /\ Len(down) = Len(down') + 1
  <1>1. down \in Seq(Messages) BY DEF TypeOK, Messages
  <1>2. Head(down) \in Messages /\ down' \in Seq(Messages) BY <1>1
  <1>3. ASSUME NEW k \in Pipes
        PROVE  Count(down, k) = Count(down', k) + One(Head(down) = k) /\ Count(down', k) \in Nat
    <2>1. Count(down, k) = IF Head(down) = k THEN Count(Tail(down), k) + 1 ELSE Count(Tail(down), k)
      BY <1>1, CountTail
    <2>2. Count(down', k) \in Nat BY <1>2, CountFinite
    <2> QED BY <2>1, <2>2 DEF One
  <1>4. /\ Head(down) = down[1] /\ 1 \in 1 .. Len(down)
        /\ \A i \in 1 .. Len(down') : i + 1 \in 1 .. Len(down) /\ down'[i] = down[i + 1]
        /\ Len(down) = Len(down') + 1
    BY <1>1
  <1> QED BY <1>2, <1>3, <1>4

LEMMA TaskStep == TaskInv /\ [Next]_vars => TaskInv'
  <1> SUFFICES ASSUME TaskInv, [Next]_vars PROVE TaskInv'
    OBVIOUS
  <1> TypeOK /\ RunInv /\ FlowInv /\ OrderInv BY DEF TaskInv
  \* The steps of the handler that send nothing.
  <1>1. ASSUME BackgroundExec \/ tryCachedSudo \/ Wait \/ Unlist PROVE TaskInv'
    <2>0. /\ UNCHANGED <<setup, rdr, crd, written, taken, stream, client, mixed>>
          /\ proc' = proc
      BY <1>1 DEF BackgroundExec, tryCachedSudo, Wait, Unlist, process
    <2>1. TypeOK'
      <3>1. /\ srv' \in {"setup", "probe", "start", "started", "wait", "flush", "unlist", "returned"}
            /\ runs' \in 0 .. 2
        BY <1>1 DEF BackgroundExec, tryCachedSudo, Wait, Unlist, TypeOK, RunInv
      <3>2. {listed', exited', open'} \subseteq BOOLEAN
        BY <1>1 DEF BackgroundExec, tryCachedSudo, Wait, Unlist, TypeOK, process
      <3> QED BY <2>0, <3>1, <3>2 DEF TypeOK, stream, client
    <2>2. RunInv'
      BY <1>1, <2>0 DEF BackgroundExec, tryCachedSudo, Wait, Unlist, TypeOK, RunInv
    <2>3. FlowInv' BY <2>0 DEF FlowInv, Flow, stream, client
    <2>4. OrderInv'
      BY <1>1, <2>0 DEF BackgroundExec, tryCachedSudo, Wait, Unlist, OrderInv, Early, Late, stream, client
    <2> QED BY <2>1, <2>2, <2>3, <2>4 DEF TaskInv
  \* The exit code.
  <1>exit. ASSUME sendExit, srv' = "unlist", \A k \in Pipes : rdr[k] \in {"off", "done"}, srv \notin Late,
                  UNCHANGED <<rdr, written, taken, broken, cli, got, mixed>>
           PROVE  FlowInv' /\ OrderInv' /\ exited' \in BOOLEAN /\ down' \in Seq(Messages)
    <2>0. down \in Seq(Messages) /\ "exit" \in Messages BY DEF TypeOK, Messages
    <2>1. CASE down' = down
      BY <1>exit, <2>0, <2>1 DEF sendExit, FlowInv, OrderInv, Flow, Early, Late
    <2>2. CASE Send("exit")
      <3>1. \A k \in Pipes : Count(down', k) = Count(down, k)
        BY <2>0, <2>2, Sends, Typed DEF One
      <3>2. FlowInv' BY <1>exit, <3>1 DEF FlowInv, Flow
      <3>3. OrderInv' BY <1>exit, <2>0, <2>2, Sends DEF OrderInv, Early, Late
      <3> QED BY <1>exit, <2>0, <2>2, <3>2, <3>3, Sends DEF sendExit
    <2> QED BY <1>exit, <2>1, <2>2 DEF sendExit
  <1>2. CASE start
    <2>0. srv = "start" /\ UNCHANGED <<setup, rdr, crd, written, taken, up, broken, client, mixed>>
          /\ listed' = TRUE
      BY <1>2 DEF start
    <2>1. CASE sendExit /\ srv' = "unlist" /\ UNCHANGED <<runs, proc, open>>
      <3>1. FlowInv' /\ OrderInv' /\ exited' \in BOOLEAN /\ down' \in Seq(Messages)
        BY <1>exit, <2>0, <2>1 DEF OrderInv, Early, Late, client
      <3>2. TypeOK' BY <2>0, <2>1, <3>1 DEF TypeOK, client, Messages
      <3>3. RunInv' BY <2>0, <2>1 DEF RunInv
      <3> QED BY <3>1, <3>2, <3>3 DEF TaskInv
    <2>2. CASE proc' = "running" /\ open' = TRUE /\ runs' = runs + 1 /\ srv' = "started"
               /\ UNCHANGED <<exited, down>>
      <3>1. runs' \in 0 .. 2 BY <2>0, <2>2 DEF RunInv, TypeOK
      <3>2. TypeOK' BY <2>0, <2>2, <3>1 DEF TypeOK, client
      <3>3. RunInv' BY <2>0, <2>2 DEF RunInv
      <3>4. FlowInv' BY <2>0, <2>2 DEF FlowInv, Flow, client
      <3>5. OrderInv' BY <2>0, <2>2 DEF OrderInv, Early, Late, client
      <3> QED BY <3>2, <3>3, <3>4, <3>5 DEF TaskInv
    <2> QED BY <1>2, <2>1, <2>2 DEF start
  <1>3. CASE SendStarted
    <2>0. srv = "started"
          /\ UNCHANGED <<setup, listed, exited, runs, open, written, taken, up, broken, client, mixed>>
      BY <1>3 DEF SendStarted
    <2>1. CASE broken /\ Kill /\ srv' = "unlist" /\ UNCHANGED <<down, rdr, crd>>
      <3>1. TypeOK' BY <2>0, <2>1 DEF TypeOK, client, Kill
      <3>2. RunInv' BY <2>0, <2>1 DEF RunInv, Kill
      <3>3. FlowInv' BY <2>0, <2>1 DEF FlowInv, Flow, client
      <3>4. OrderInv' BY <2>0, <2>1 DEF OrderInv, Early, Late, client
      <3> QED BY <3>1, <3>2, <3>3, <3>4 DEF TaskInv
    <2>2. CASE Send("started") /\ rdr' = [k \in Pipes |-> "read"] /\ crd' = "recv" /\ srv' = "wait"
               /\ proc' = proc
      <3>0. "started" \in Messages BY DEF Messages
      <3>1. TypeOK' BY <2>0, <2>2, <3>0, Sends DEF TypeOK, client, Messages
      <3>2. RunInv' BY <2>0, <2>2 DEF RunInv
      <3>3. \A k \in Pipes : Flow(k)' = Flow(k)
        <4>1. \A k \in Pipes : Count(down', k) = Count(down, k)
          BY <2>2, <3>0, Sends, Typed DEF One
        <4>2. \A k \in Pipes : rdr[k] # "send" /\ rdr'[k] # "send"
          BY <2>0, <2>2 DEF OrderInv, Early
        <4> QED BY <2>0, <4>1, <4>2 DEF Flow, One, client
      <3>4. FlowInv' BY <2>0, <3>3 DEF FlowInv
      <3>5. OrderInv'
        <4>1. down = <<>> /\ down' = <<"started">> BY <2>0, <2>2 DEF OrderInv, Early, Send
        <4>2. "down" \notin mixed BY <2>0 DEF OrderInv, Early
        <4>3. cli = "done" => broken BY <2>0, <4>2 DEF OrderInv, Late
        <4>4. Len(down') = 1 /\ down'[1] = "started" BY <4>1
        <4> QED BY <2>0, <2>2, <4>1, <4>2, <4>3, <4>4 DEF OrderInv, Early, Late, client
      <3> QED BY <3>1, <3>2, <3>4, <3>5 DEF TaskInv
    <2> QED BY <1>3, <2>1, <2>2 DEF SendStarted
  <1>4. CASE Flush
    <2>0. /\ srv = "flush" /\ (\A k \in Pipes : rdr[k] = "done") /\ sendExit /\ srv' = "unlist"
          /\ UNCHANGED <<setup, listed, runs, rdr, crd, process, up, broken, client, mixed>>
      BY <1>4 DEF Flush
    <2>1. FlowInv' /\ OrderInv' /\ exited' \in BOOLEAN /\ down' \in Seq(Messages)
      BY <2>0, <1>exit DEF Late, process, client
    <2>2. TypeOK' BY <2>0, <2>1 DEF TypeOK, Messages, process, client
    <2>3. RunInv' BY <2>0 DEF RunInv, process
    <2> QED BY <2>1, <2>2, <2>3 DEF TaskInv
  <1>5. ASSUME NEW k \in Pipes, ReadPipe(k) PROVE TaskInv'
    <2>0. /\ rdr[k] = "read" /\ srv \notin Early \cup Late
          /\ UNCHANGED <<setup, srv, listed, exited, runs, crd, proc, open, written, stream, client>>
      BY <1>5 DEF ReadPipe, OrderInv
    <2>1. PICK r \in {"send", "done"} :
             /\ rdr' = [rdr EXCEPT ![k] = r]
             /\ \/ r = "send" /\ taken[k] < written[k] /\ taken' = [taken EXCEPT ![k] = @ + 1]
                \/ r = "done" /\ taken' = taken
             /\ mixed' \in {mixed, mixed \cup {"down"}}
      BY <1>5 DEF ReadPipe
    <2>2. \A j \in Pipes : /\ rdr'[j] = IF j = k THEN r ELSE rdr[j]
                           /\ taken'[j] = taken[j] + One(j = k /\ r = "send")
      BY <2>1 DEF TypeOK, One
    <2>3. TypeOK'
      <3>1. \A j \in Pipes : taken'[j] \in 0 .. MaxChunks BY <2>1, <2>2, Typed DEF One
      <3>2. taken' \in [Pipes -> 0 .. MaxChunks] BY <2>1, <3>1 DEF TypeOK
      <3> QED BY ZenonT(60), <2>0, <2>1, <3>2 DEF TypeOK, stream, client
    <2>4. RunInv' BY <2>0 DEF RunInv
    <2>5. FlowInv'
      <3>1. \A j \in Pipes : Flow(j)' = Flow(j) + One(j = k /\ r = "send")
        BY SMTT(30), <2>0, <2>1, <2>2, Typed DEF Flow, One, stream, client
      <3>2. \A j \in Pipes : Flow(j) \in Nat BY FlowType
      <3>3. \A j \in Pipes : taken'[j] <= written'[j]
        BY <2>0, <2>1, <2>2, Typed DEF FlowInv, One
      <3>4. \A j \in Pipes : Flow(j) <= taken[j] => Flow(j)' <= taken'[j]
        BY <2>2, <3>1, <3>2, Typed DEF One
      <3>5. \A j \in Pipes : Flow(j) = taken[j] => Flow(j)' = taken'[j] BY <2>2, <3>1
      <3> QED BY <2>0, <2>1, <3>3, <3>4, <3>5 DEF FlowInv, stream
    <2>6. OrderInv' BY <2>0, <2>1 DEF OrderInv, Early, Late, stream, client
    <2> QED BY <2>3, <2>4, <2>5, <2>6 DEF TaskInv
  <1>6. ASSUME NEW k \in Pipes, SendChunk(k) PROVE TaskInv'
    <2>0. /\ rdr[k] = "send" /\ srv \notin Early \cup Late
          /\ UNCHANGED <<setup, srv, listed, exited, runs, crd, open, written, taken, up, broken, client,
                         mixed>>
      BY <1>6 DEF SendChunk, OrderInv
    <2>1. \A r : rdr' = [rdr EXCEPT ![k] = r] => \A j \in Pipes : rdr'[j] = IF j = k THEN r ELSE rdr[j]
      BY DEF TypeOK
    \* A chunk that is not sent.
    <2>lost. ASSUME broken \/ "down" \in mixed, UNCHANGED down, NEW r \in {"read", "done"},
                    rdr' = [rdr EXCEPT ![k] = r]
             PROVE  FlowInv' /\ OrderInv'
      <3>1. \A j \in Pipes : Flow(j)' <= Flow(j)
        BY SMTT(30), <2>0, <2>1, <2>lost, Typed DEF Flow, One, client
      <3>2. \A j \in Pipes : Flow(j) \in Nat BY FlowType
      <3>3. ASSUME NEW j \in Pipes PROVE Flow(j)' \in Nat
        <4>1. /\ got[j] \in Nat /\ Count(down, j) \in Nat /\ One(cli = j) \in Nat
              /\ One(rdr'[j] = "send") \in Nat
          BY Typed DEF One
        <4> QED BY <2>0, <2>lost, <4>1 DEF Flow, client
      <3>4. FlowInv' BY <2>0, <2>lost, <3>1, <3>2, <3>3, Typed DEF FlowInv
      <3>5. OrderInv' BY <2>0, <2>lost DEF OrderInv, Early, Late, client
      <3> QED BY <3>4, <3>5
    \* What is sent comes last.
    <2>send. ASSUME NEW m \in {k, "garbled"}, Send(m), m = k \/ "down" \in mixed
             PROVE  /\ \A i \in 1 .. Len(down') : down'[i] # "exit"
                    /\ \A i \in 1 .. Len(down') : down'[i] = "garbled" => "down" \in mixed
                    /\ cli = "done" => "down" \in mixed
                    /\ cli = "starting" => down' # <<>> /\ down'[1] = "started"
      <3>0. k \in Messages /\ k \notin {"started", "exit", "garbled"} /\ down \in Seq(Messages) BY Typed
      <3>1. m \in Messages /\ m # "exit" BY <3>0 DEF Messages
      <3>2. \A i \in 1 .. Len(down') : down'[i] # "exit"
        BY <2>0, <2>send, <3>1, Sends DEF OrderInv
      <3>3. \A i \in 1 .. Len(down') : down'[i] = "garbled" => "down" \in mixed
        BY <2>0, <2>send, <3>0, <3>1, Sends DEF OrderInv
      <3>4. cli = "done" => "down" \in mixed BY <2>0, <2>send DEF OrderInv, Send
      <3>5. cli = "starting" => down' # <<>> /\ down'[1] = "started"
        BY <2>0, <2>send, <3>0, <3>1 DEF OrderInv, Send
      <3> QED BY <3>2, <3>3, <3>4, <3>5
    <2>2. CASE (broken \/ "down" \in mixed) /\ Kill /\ rdr' = [rdr EXCEPT ![k] = "done"] /\ UNCHANGED down
      <3>1. TypeOK' BY <2>0, <2>2 DEF TypeOK, client, Kill
      <3>2. RunInv' BY <2>0, <2>2 DEF RunInv, Kill
      <3> QED BY <2>2, <2>lost, <3>1, <3>2 DEF TaskInv
    <2>3. CASE "down" \in mixed /\ UNCHANGED down /\ rdr' = [rdr EXCEPT ![k] = "read"] /\ UNCHANGED proc
      <3>1. TypeOK' BY <2>0, <2>3 DEF TypeOK, client
      <3>2. RunInv' BY <2>0, <2>3 DEF RunInv
      <3> QED BY <2>3, <2>lost, <3>1, <3>2 DEF TaskInv
    <2>4. CASE "down" \in mixed /\ Send("garbled") /\ rdr' = [rdr EXCEPT ![k] = "read"] /\ UNCHANGED proc
      <3>0. "garbled" \in Messages /\ down \in Seq(Messages) /\ k # "garbled" BY Typed DEF Messages
      <3>1. TypeOK' BY SMTT(30), <2>0, <2>4, <3>0, Sends DEF TypeOK, client, Messages
      <3>2. RunInv' BY <2>0, <2>4 DEF RunInv
      <3>3. \A j \in Pipes : Count(down', j) = Count(down, j)
        BY <2>4, <3>0, Sends, Typed DEF One
      <3>4. \A j \in Pipes : Flow(j)' <= Flow(j)
        BY SMTT(30), <2>0, <2>1, <2>4, <3>3, Typed DEF Flow, One, client
      <3>5. \A j \in Pipes : Flow(j) \in Nat BY FlowType
      <3>6. ASSUME NEW j \in Pipes PROVE Flow(j)' \in Nat
        <4>1. /\ got[j] \in Nat /\ Count(down', j) \in Nat /\ One(cli = j) \in Nat
              /\ One(rdr'[j] = "send") \in Nat
          BY <3>3, Typed DEF One
        <4> QED BY <2>0, <4>1 DEF Flow, client
      <3>7. FlowInv' BY <2>0, <2>4, <3>4, <3>5, <3>6, Typed DEF FlowInv
      <3>8. OrderInv' BY <2>0, <2>4, <2>send DEF OrderInv, client
      <3> QED BY <3>1, <3>2, <3>7, <3>8 DEF TaskInv
    <2>5. CASE Send(k) /\ rdr' = [rdr EXCEPT ![k] = "read"] /\ UNCHANGED proc
      <3>0. k \in Messages /\ k \notin {"started", "exit"} /\ down \in Seq(Messages) BY Typed
      <3>1. TypeOK' BY SMTT(30), <2>0, <2>5, <3>0, Sends DEF TypeOK, client, Messages
      <3>2. RunInv' BY <2>0, <2>5 DEF RunInv
      <3>3. \A j \in Pipes : Flow(j)' = Flow(j)
        <4>1. \A j \in Pipes : Count(down', j) = Count(down, j) + One(k = j)
          BY <2>5, <3>0, Sends
        <4>2. \A j \in Pipes : rdr'[j] = IF j = k THEN "read" ELSE rdr[j] BY <2>5 DEF TypeOK
        <4>3. ASSUME NEW j \in Pipes PROVE Flow(j)' = Flow(j)
          <5>1. got'[j] = got[j] /\ cli' = cli BY <2>0 DEF client
          <5>2. Count(down', j) + One(rdr'[j] = "send") = Count(down, j) + One(rdr[j] = "send")
            BY <2>0, <4>1, <4>2, Typed DEF One
          <5>3. /\ Count(down', j) \in Nat /\ One(rdr'[j] = "send") \in Nat
                /\ Count(down, j) \in Nat /\ One(rdr[j] = "send") \in Nat
                /\ got[j] \in Nat /\ One(cli = j) \in Nat
            BY <4>1, Typed DEF One
          <5> QED BY <5>1, <5>2, <5>3 DEF Flow
        <4> QED BY <4>3
      <3>4. FlowInv' BY <2>0, <3>3 DEF FlowInv
      <3>5. OrderInv' BY <2>0, <2>5, <2>send DEF OrderInv, client
      <3> QED BY <3>1, <3>2, <3>4, <3>5 DEF TaskInv
    <2> QED BY <1>6, <2>2, <2>3, <2>4, <2>5 DEF SendChunk
  <1>panic. CASE Panic
    <2>0. /\ srv' = "crashed" /\ crd' = "done" /\ open' = FALSE /\ broken' = TRUE
          /\ rdr' = [k \in Pipes |-> "done"] /\ "down" \in mixed
          /\ UNCHANGED <<setup, listed, exited, runs, proc, written, taken, down, up, client, mixed>>
      BY <1>panic DEF Panic
    <2>1. TypeOK' BY <2>0 DEF TypeOK, client
    <2>2. RunInv' BY <2>0 DEF RunInv
    <2>3. FlowInv'
      <3>1. \A j \in Pipes : Flow(j)' <= Flow(j) /\ Flow(j) \in Nat /\ Flow(j)' \in Nat
        <4>1. ASSUME NEW j \in Pipes PROVE Flow(j)' <= Flow(j) /\ Flow(j) \in Nat /\ Flow(j)' \in Nat
          <5>1. One(rdr'[j] = "send") = 0 BY <2>0 DEF One
          <5> QED BY <2>0, <5>1, Typed DEF Flow, One, client
        <4> QED BY <4>1
      <3> QED BY <2>0, <3>1, Typed DEF FlowInv
    <2>4. OrderInv'
      <3>1. srv \notin Early \cup Late BY <1>panic DEF Panic, OrderInv
      <3> QED BY <2>0, <3>1 DEF OrderInv, Early, Late, client
    <2> QED BY <2>1, <2>2, <2>3, <2>4 DEF TaskInv
  \* The steps that only touch the process, the connection and the way to the daemon.
  <1>7. ASSUME NEW m \in {"cancel", "stdin"},
               readClientStream \/ ReadStdin \/ Exit \/ Disconnect \/ Begins(m) \/ (m \in asked /\ EndSend(m))
        PROVE  TaskInv'
    <2>0. /\ UNCHANGED <<setup, srv, listed, exited, runs, rdr, open, written, taken, down, cli, got, code>>
          /\ broken => broken'
      BY <1>7 DEF readClientStream, ReadStdin, Exit, Disconnect, Begins, EndSend, server, process, stream, client
    <2>1. /\ proc' \in {proc, "killed", "exited"} /\ (proc # "running" => proc' # "running")
          /\ crd' \in {crd, "done", "recv", "write"} /\ broken' \in BOOLEAN
          /\ asked' \subseteq {"cancel", "stdin"} /\ sends' \subseteq asked'
          /\ up' \in Seq({"cancel", "stdin", "garbled"})
          /\ mixed' \in {mixed, mixed \cup {"up"}}
      <3>1. /\ proc' \in {proc, "killed", "exited"} /\ (proc # "running" => proc' # "running")
            /\ crd' \in {crd, "done", "recv", "write"} /\ broken' \in BOOLEAN
        BY <1>7 DEF readClientStream, ReadStdin, Exit, Disconnect, Begins, EndSend, WritesStdin, SkipsGarbled,
                    KillUnlessExited, Kill, TypeOK, server, process, stream, client
      <3>2. /\ asked' \in {asked, asked \cup {m}}
            /\ sends' \subseteq sends \cup asked' /\ asked \subseteq asked'
            /\ mixed' \in {mixed, mixed \cup {"up"}}
        BY <1>7 DEF readClientStream, ReadStdin, Exit, Disconnect, Begins, EndSend, client
      <3>3. up' \in Seq({"cancel", "stdin", "garbled"})
        <4>1. up \in Seq({"cancel", "stdin", "garbled"}) BY DEF TypeOK
        <4>2. \/ up' = up \/ (up # <<>> /\ up' = Tail(up))
              \/ up' = Append(up, m) \/ up' = Append(up, "garbled")
          BY <1>7 DEF readClientStream, ReadStdin, Exit, Disconnect, Begins, EndSend, WritesStdin,
                      SkipsGarbled, stream
        <4> QED BY <4>1, <4>2
      <3> QED BY <3>1, <3>2, <3>3 DEF TypeOK
    <2>2. TypeOK' BY <2>0, <2>1 DEF TypeOK
    <2>3. RunInv' BY <2>0, <2>1 DEF RunInv
    <2>4. FlowInv' BY <2>0, <2>1 DEF FlowInv, Flow
    <2>5. OrderInv' BY <2>0, <2>1 DEF OrderInv
    <2> QED BY <2>2, <2>3, <2>4, <2>5 DEF TaskInv
  <1>8. ASSUME NEW k \in Pipes, Write(k) PROVE TaskInv'
    <2>0. written["stdout"] \in Nat /\ written["stderr"] \in Nat BY DEF TypeOK, Pipes
    <2>1. /\ written' = [written EXCEPT ![k] = @ + 1] /\ written[k] < MaxChunks
          /\ UNCHANGED <<setup, server, proc, open, taken, stream, client, mixed>>
      BY <1>8, <2>0 DEF Write, Pipes
    <2>2. written' \in [Pipes -> 0 .. MaxChunks]
      <3>1. written[k] + 1 \in 0 .. MaxChunks BY <2>1, Typed
      <3> QED BY <2>1, <3>1 DEF TypeOK
    <2>3. TypeOK' BY <2>1, <2>2 DEF TypeOK, server, stream, client
    <2>4. RunInv' BY <2>1 DEF RunInv, server
    <2>5. FlowInv'
      <3>1. \A j \in Pipes : Flow(j)' = Flow(j) BY <2>1 DEF Flow, server, stream, client
      <3>2. \A j \in Pipes : taken[j] <= written'[j] BY <2>1, Typed DEF TypeOK, FlowInv
      <3> QED BY <2>1, <3>1, <3>2 DEF FlowInv, stream
    <2>6. OrderInv' BY <2>1 DEF OrderInv, server, stream, client
    <2> QED BY <2>3, <2>4, <2>5, <2>6 DEF TaskInv
  \* What the client leaves in the stream keeps its order.
  <1>tail. ASSUME down # <<>>, down' = Tail(down), UNCHANGED <<srv, rdr, broken, mixed>>, cli' # "starting",
                  cli' = "done" => (srv \in Late /\ down' = <<>>) \/ "down" \in mixed
           PROVE  OrderInv'
    <2>1. \A i \in 1 .. Len(down') : i + 1 \in 1 .. Len(down) /\ down'[i] = down[i + 1]
      BY <1>tail, Receives
    <2>2. Len(down) = Len(down') + 1 /\ down' \in Seq(Messages) BY <1>tail, Receives
    <2>3. \A i \in 1 .. Len(down') : down'[i] = "exit" => i = Len(down') /\ srv \in Late
      BY <2>1, <2>2 DEF OrderInv
    <2>4. srv \notin Early BY <1>tail DEF OrderInv
    <2>5. \A i \in 1 .. Len(down') : down'[i] = "garbled" => "down" \in mixed
      BY <2>1 DEF OrderInv
    <2> QED BY <1>tail, <2>3, <2>4, <2>5 DEF OrderInv
  <1>9. CASE startBackgroundTask
    <2>0. cli = "starting" /\ UNCHANGED <<setup, server, process, up, broken, got, code, asked, sends, mixed>>
      BY <1>9 DEF startBackgroundTask
    <2>1. RunInv' BY <2>0 DEF RunInv, server, process
    <2>2. CASE down # <<>> /\ cli' = (IF Head(down) = "started" THEN "loop" ELSE "failed") /\ down' = Tail(down)
      <3>1. TypeOK' BY SMTT(30), <2>0, <2>2, Receives DEF TypeOK, Messages, server, process
      <3>2. Head(down) \notin Pipes
        BY Zenon, <2>0, <2>2, Receives DEF OrderInv, Pipes
      <3>3. \A k \in Pipes : Flow(k)' = Flow(k)
        <4>1. \A k \in Pipes : Count(down', k) = Count(down, k)
          BY <2>2, <3>2, Receives DEF One
        <4> QED BY <2>0, <2>2, <4>1 DEF Flow, One, Pipes, server
      <3>4. FlowInv' BY <2>0, <3>3 DEF FlowInv, process
      <3>5. OrderInv' BY <2>0, <2>2, <1>tail DEF server
      <3> QED BY <2>1, <3>1, <3>4, <3>5 DEF TaskInv
    <2>3. CASE EndOfStream /\ cli' = "failed" /\ UNCHANGED down
      <3>1. TypeOK' BY <2>0, <2>3 DEF TypeOK, server, process
      <3>2. FlowInv' BY <2>0, <2>3 DEF FlowInv, Flow, One, Pipes, server, process
      <3>3. OrderInv' BY <2>0, <2>3 DEF OrderInv, server
      <3> QED BY <2>1, <3>1, <3>2, <3>3 DEF TaskInv
    <2> QED BY <1>9, <2>2, <2>3 DEF startBackgroundTask
  <1>10. CASE readLoop
    <2>0. cli = "loop" /\ UNCHANGED <<setup, server, process, up, broken, got, asked, sends, mixed>>
      BY <1>10 DEF readLoop
    <2>1. RunInv' BY <2>0 DEF RunInv, server, process
    <2>2. CASE down # <<>> /\ Head(down) \in Pipes /\ cli' = Head(down) /\ down' = Tail(down) /\ code' = code
      <3>1. TypeOK' BY ZenonT(60), <2>0, <2>2, Receives DEF TypeOK, Messages, server, process
      <3>2. \A k \in Pipes : Flow(k)' = Flow(k)
        <4>1. \A k \in Pipes : /\ Count(down, k) = Count(down', k) + One(cli' = k)
                               /\ One(cli = k) = 0 /\ Count(down', k) \in Nat
          BY <2>0, <2>2, Receives DEF One, Pipes
        <4> QED BY <2>0, <4>1, Typed DEF Flow, One, server
      <3>3. FlowInv' BY <2>0, <3>2 DEF FlowInv, process
      <3>4. OrderInv' BY <2>0, <2>2, <1>tail DEF Pipes, server
      <3> QED BY <2>1, <3>1, <3>3, <3>4 DEF TaskInv
    <2>3. CASE down # <<>> /\ Head(down) = "exit" /\ cli' = "done" /\ down' = Tail(down) /\ code' = TRUE
      <3>1. TypeOK' BY SMTT(30), <2>0, <2>3, Receives DEF TypeOK, Messages, server, process
      <3>2. \A k \in Pipes : Flow(k)' = Flow(k)
        <4>1. \A k \in Pipes : Count(down', k) = Count(down, k)
          BY <2>3, Receives DEF One, Pipes
        <4> QED BY <2>0, <2>3, <4>1 DEF Flow, One, Pipes, server
      <3>3. FlowInv' BY <2>0, <3>2 DEF FlowInv, process
      <3>4. srv \in Late /\ Len(down) = 1 BY Zenon, <2>3, Receives DEF OrderInv
      <3>5. down' = <<>> BY <2>3, <3>4, Receives
      <3>6. OrderInv' BY <2>0, <2>3, <3>4, <3>5, <1>tail DEF server
      <3> QED BY <2>1, <3>1, <3>3, <3>6 DEF TaskInv
    <2>4. CASE EndOfStream /\ cli' = "done" /\ UNCHANGED <<down, code>>
      <3>1. TypeOK' BY <2>0, <2>4 DEF TypeOK, server, process
      <3>2. FlowInv' BY <2>0, <2>4 DEF FlowInv, Flow, One, Pipes, server, process
      <3>3. OrderInv' BY <2>0, <2>4 DEF OrderInv, EndOfStream, Late, server
      <3> QED BY <2>1, <3>1, <3>2, <3>3 DEF TaskInv
    <2>5. CASE down # <<>> /\ Head(down) = "garbled" /\ cli' \in {"loop", "done"} /\ down' = Tail(down)
               /\ code' = code
      <3>1. TypeOK' BY SMTT(30), <2>0, <2>5, Receives DEF TypeOK, Messages, server, process
      <3>2. \A k \in Pipes : Flow(k)' = Flow(k)
        <4>1. \A k \in Pipes : Count(down', k) = Count(down, k)
          BY <2>5, Receives DEF One, Pipes
        <4> QED BY <2>0, <2>5, <4>1 DEF Flow, One, Pipes, server
      <3>3. FlowInv' BY <2>0, <3>2 DEF FlowInv, process
      <3>4. "down" \in mixed BY <2>5, Receives DEF OrderInv
      <3>5. OrderInv' BY <2>0, <2>5, <3>4, <1>tail DEF server
      <3> QED BY <2>1, <3>1, <3>3, <3>5 DEF TaskInv
    <2> QED BY <1>10, <2>2, <2>3, <2>4, <2>5 DEF readLoop
  <1>11. CASE fanOut
    <2>0. PICK k \in Pipes : k = cli BY <1>11 DEF fanOut
    <2>1. /\ got' = [got EXCEPT ![k] = @ + 1] /\ cli' = "loop"
          /\ UNCHANGED <<setup, server, process, stream, code, asked, sends, mixed>>
      BY <1>11, <2>0 DEF fanOut
    <2>2. \A j \in Pipes : Flow(j)' = Flow(j)
      <3>1. \A j \in Pipes : got'[j] = got[j] + One(cli = j) /\ One(cli' = j) = 0
        BY SMTT(30), <2>0, <2>1, Typed DEF TypeOK, One, Pipes
      <3> QED BY SMTT(30), <2>1, <3>1, Typed DEF Flow, server, stream
    <2>3. TypeOK'
      <3>1. got[k] + 1 <= Flow(k) BY <2>0, Typed DEF Flow, One
      <3>2. got[k] + 1 \in 0 .. MaxChunks BY <3>1, Typed, FlowType DEF FlowInv
      <3>3. got' \in [Pipes -> 0 .. MaxChunks] BY <2>1, <3>2 DEF TypeOK
      <3> QED BY <2>1, <3>3 DEF TypeOK, server, process, stream
    <2>4. RunInv' BY <2>1 DEF RunInv, server, process
    <2>5. FlowInv' BY <2>1, <2>2 DEF FlowInv, process, stream
    <2>6. OrderInv' BY <2>1 DEF OrderInv, server, stream
    <2> QED BY <2>3, <2>4, <2>5, <2>6 DEF TaskInv
  <1>12. CASE UNCHANGED vars
    <2> USE <1>12 DEF vars, server, process, stream, client
    <2>1. TypeOK' BY DEF TypeOK
    <2>2. RunInv' /\ FlowInv' /\ OrderInv' BY DEF RunInv, FlowInv, Flow, OrderInv
    <2> QED BY <2>1, <2>2 DEF TaskInv
  <1>13. CASE readClientStream \/ ReadStdin \/ Exit \/ Disconnect \/ Cancel \/ CloseStdin
              \/ \E m \in asked : EndSend(m)
    <2>1. PICK m \in {"cancel", "stdin"} :
             readClientStream \/ ReadStdin \/ Exit \/ Disconnect \/ Begins(m) \/ (m \in asked /\ EndSend(m))
      BY <1>13 DEF Cancel, CloseStdin, TypeOK
    <2> QED BY <2>1, <1>7
  <1> QED BY <1>1, <1>2, <1>3, <1>4, <1>5, <1>6, <1>panic, <1>8, <1>9, <1>10, <1>11, <1>12, <1>13
          DEF Next, Handler, Client

\* When its handler has returned, no process of a background command is left, on whichever
\* path: run kills it when the first Send fails, and waits for it otherwise.
THEOREM NoProcessLeftHolds == Spec => []NoProcessLeft
  <1>1. TaskInv => NoProcessLeft BY DEF TaskInv, RunInv, NoProcessLeft
  <1> QED BY InitTask, TaskStep, <1>1, PTL DEF Spec

\* Nothing is received that was not read; and every chunk that pipeOutput has read reaches
\* the user of a task whose stream did not break and in whose stream no two Sends
\* overlapped, however many chunks there are and however few of them the stream holds.
THEOREM TakenIsReceivedHolds == Spec => []TakenIsReceived
  <1>1. TaskInv => TakenIsReceived
    <2> SUFFICES ASSUME TaskInv, NEW k \in Pipes
                 PROVE  /\ got[k] <= taken[k]
                        /\ cli = "done" /\ ~broken /\ "down" \notin mixed => got[k] = taken[k]
      BY DEF TakenIsReceived
    <2>0. TypeOK /\ Flow(k) <= taken[k] BY DEF TaskInv, FlowInv
    <2>1. got[k] <= taken[k]
      <3>1. got[k] <= Flow(k) BY <2>0, Typed DEF Flow
      <3> QED BY <2>0, <3>1, FlowType, Typed
    <2>2. ASSUME cli = "done", ~broken, "down" \notin mixed PROVE got[k] = taken[k]
      <3>1. Flow(k) = taken[k] /\ down = <<>> /\ rdr[k] # "send"
        BY <2>2 DEF TaskInv, FlowInv, OrderInv
      <3>2. Count(down, k) = 0 /\ One(cli = k) = 0 /\ One(rdr[k] = "send") = 0
        BY <2>2, <3>1, CountEmpty DEF One, Pipes
      <3> QED BY <2>0, <3>1, <3>2, Typed DEF Flow
    <2> QED BY <2>1, <2>2
  <1> QED BY InitTask, TaskStep, <1>1, PTL DEF Spec

HIDE TaskAssumption

-------------------------------------------------------------------------------
(* Client.                                                                 *)

SessionType == [st : {"none", "open", "finalized"}, url : Servers \cup {NoServer}, key : Nat,
                opened : SUBSET Clients]
ServerType == [by : Clients \cup {"nobody"}, open : BOOLEAN]
ClientType == [pc : {"off", "on", "closed"}, sid : SessionIds \cup {NoSession}, own : BOOLEAN,
               connected : BOOLEAN, feedback : Servers \cup {NoServer}, key : Nat, mixed : BOOLEAN]
BeforeConnected == {"prepare", "request", "store", "own"}
ConnectType == [pc : {"idle", "ping", "get", "check", "negotiate"} \cup BeforeConnected,
                id : SessionIds \cup {NoSession}, had : BOOLEAN, fb : Servers \cup {NoServer}]
ClientTypeOK ==
    /\ daemon \in [up : BOOLEAN, stops : Nat, keys : Nat]
    /\ sessions \in [SessionIds -> SessionType]
    /\ servers \in [Servers -> ServerType]
    /\ clients \in [Clients -> ClientType]
    /\ connects \in [Connectors -> ConnectType]
    /\ Connectors \in Crews

\* Of a session: whoever made it is known; a key is of a session that is open, and none
\* is of a daemon that is down.
SessionFacts(s) ==
    LET sess == sessions[s] IN
    /\ sess.st # "none" => sess.opened # {}
    /\ sess.st # "open" => sess.key = 0
    /\ sess.st = "none" => sess.url = NoServer
    /\ sess.key <= daemon.keys
    /\ ~daemon.up => sess.st = "none"
SessionInv(s) == SessionFacts(s) /\ (sessions[s].st = "finalized" => EndedByItsOwn(s))
\* The client whose server v a session's prompts go to is at that session, with that
\* server, until it closes; or it is about to be.
Stores(q, c, s, v) ==
    /\ Program(q) = c /\ connects[q].pc \in {"store", "own"}
    /\ connects[q].id = s /\ connects[q].fb = v
Serves(c, s, v) ==
    \/ clients[c].pc = "closed" \/ clients[c].mixed
    \/ clients[c].connected /\ clients[c].sid = s /\ clients[c].feedback = v /\ servers[v].open
    \/ \E q \in Connectors : Stores(q, c, s, v)
UrlInv(s) ==
    LET v == sessions[s].url
    IN v # NoServer => servers[v].by \in Clients /\ Serves(servers[v].by, s, v)
\* Of a client c that is me.
UnmixedInv(me, c) ==
    /\ me.own /\ me.sid # NoSession => sessions[me.sid].opened = {c}
    /\ me.connected => me.sid # NoSession /\ me.pc = "on"
    /\ me.key # 0 => \A s \in SessionIds : sessions[s].key = me.key => me.sid = s
ProgramInv(me, c) ==
    /\ me.sid # NoSession => sessions[me.sid].opened # {}
    /\ me.feedback # NoServer => servers[me.feedback].by = c
    /\ me.key <= daemon.keys
    /\ me.pc = "off" => ~me.mixed
    /\ ~me.mixed => UnmixedInv(me, c)
\* Of a Connect that is it, of caller r of the client me: what it relies on while no
\* other one changes it.
Relies(it, r, me) ==
    /\ it.pc \in BeforeConnected => ~me.connected /\ me.feedback = it.fb /\ servers[it.fb].open
    /\ it.pc \in {"prepare", "request"} => me.sid = it.id
    /\ it.pc = "request" => it.had = (me.sid # NoSession)
    /\ it.pc = "store" => me.sid = IF it.had THEN it.id ELSE NoSession
    /\ it.pc = "own" => me.sid = it.id
    /\ it.pc \in {"store", "own"} /\ ~it.had => sessions[it.id].opened = {Program(r)}
    /\ it.pc = "negotiate" => me.connected
InConnect(it) == it.pc \in BeforeConnected \cup {"negotiate"}
CallInv(it, r, me) ==
    /\ it.id # NoSession => sessions[it.id].opened # {}
    /\ it.fb # NoServer => servers[it.fb].by = Program(r)
    /\ it.pc \in BeforeConnected => it.fb # NoServer
    /\ it.pc \in {"store", "own"} => it.id # NoSession
    /\ InConnect(it) => me.pc = "on" /\ (~me.mixed => Relies(it, r, me))
OneAtATime(c) ==
    ~clients[c].mixed =>
        \A q, r \in Connectors : Program(q) = c /\ Program(r) = c /\ Busy(q) /\ Busy(r) => q = r

ClientInv ==
    /\ ClientTypeOK
    /\ \A s \in SessionIds : SessionInv(s) /\ UrlInv(s)
    /\ \A c \in Clients : ProgramInv(clients[c], c) /\ OneAtATime(c)
    /\ \A r \in Connectors : CallInv(connects[r], r, Me(r))

\* Zero stands for none.
LEMMA Numbers == NoSession \notin SessionIds /\ NoServer \notin Servers
BY ClientAssumption DEF NoSession, NoServer, SessionIds, Servers

\* Whoever connects is a goroutine of a client, and of a command the only one.
LEMMA Crew ==
    ASSUME ClientTypeOK
    PROVE  /\ \A r \in Connectors : Program(r) \in Clients
           /\ \A q, r \in Connectors : Program(q) = Program(r) /\ Program(r) \notin Mcps => q = r
BY ClientAssumption DEF ClientTypeOK, Program

\* What a step of the caller r may do, that makes its client me and its call it: start
\* and close servers of its own client; and, while another call of the client is under
\* way, nothing, or the client is mixed.
Moves(r, me, it) ==
    LET c == Program(r) IN
    /\ me \in ClientType /\ it \in ConnectType
    /\ clients[c].pc = "on" /\ me.pc # "off" /\ (clients[c].mixed => me.mixed)
    /\ clients' = [clients EXCEPT ![c] = me]
    /\ connects' = [connects EXCEPT ![r] = it]
    /\ servers' \in [Servers -> ServerType]
    /\ \A v \in Servers :
          /\ servers[v].by \in Clients => servers'[v].by = servers[v].by
          /\ servers[v].by \in Clients \ {c} => servers'[v].open = servers[v].open
Alone(r, me, it) ==
    \/ ~Mixes(r)
    \/ me.pc = "on" /\ me.mixed
    \/ me = clients[Program(r)] /\ servers' = servers /\ ~Busy(r) /\ ~InConnect(it)

\* And what it may do to the sessions: open one, send its prompts to the server of the
\* call, and give it a key that nobody has.
Opens(r, it) ==
    /\ daemon' \in [up : BOOLEAN, stops : Nat, keys : Nat] /\ daemon.keys <= daemon'.keys
    /\ sessions' \in [SessionIds -> SessionType]
    /\ \A s \in SessionIds :
          /\ SessionFacts(s)'
          /\ sessions'[s].st = "finalized" => sessions[s].st = "finalized"
          /\ sessions[s].opened # {} => sessions'[s].opened = sessions[s].opened
          /\ sessions'[s].key \in {sessions[s].key, 0} \/ sessions'[s].key > daemon.keys
          /\ \/ sessions'[s].url = sessions[s].url
             \/ /\ it.pc = "store" /\ it.id = s /\ it.fb = sessions'[s].url
                /\ servers'[it.fb].by = Program(r)

\* The prompts that go to the client of r go on.
KeepsServing(r, me, it) ==
    \/ me.mixed \/ me.pc = "closed"
    \/ me = clients[Program(r)] /\ servers' = servers /\ ~Busy(r)
    \/ \A s \in SessionIds :
          LET v == sessions[s].url IN
          v # NoServer /\ servers[v].by = Program(r) /\ sessions'[s].url = v =>
              \/ me.connected /\ me.sid = s /\ me.feedback = v /\ servers'[v].open
              \/ it.pc \in {"store", "own"} /\ it.id = s /\ it.fb = v

\* Such a step keeps the invariant.
LEMMA OneConnect ==
    ASSUME ClientInv, NEW r \in Connectors, NEW me, NEW it, Moves(r, me, it), Alone(r, me, it),
           Opens(r, it), KeepsServing(r, me, it), ProgramInv(me, Program(r))', CallInv(it, r, me)'
    PROVE  ClientInv'
<1> USE Numbers DEF ClientInv
<1>0. PICK c \in Clients : c = Program(r)
  BY Crew
<1>1. Connectors' = Connectors
  BY DEF Moves, Connectors
<1>2. \A d \in Clients : clients'[d] = IF d = c THEN me ELSE clients[d]
  BY <1>0 DEF Moves, ClientTypeOK
<1>3. \A q \in Connectors : connects'[q] = IF q = r THEN it ELSE connects[q]
  BY DEF Moves, ClientTypeOK
<1>4. ClientTypeOK'
  <2>1. clients' \in [Clients -> ClientType] /\ connects' \in [Connectors -> ConnectType]
    BY DEF Moves, ClientTypeOK
  <2> QED
    BY <2>1, <1>1 DEF Moves, Opens, ClientTypeOK
<1>5. clients[c].pc = "on" /\ (clients[c].mixed => me.mixed)
  BY <1>0 DEF Moves
<1>6. \A q \in Connectors : Busy(q) <=> InConnect(connects[q])
  BY DEF Busy, InConnect, BeforeConnected
<1>7. \A q \in Connectors : Busy(q)' <=> InConnect(connects'[q])
  BY DEF Busy, InConnect, BeforeConnected
<1>8. \A s \in SessionIds : sessions[s].opened # {} => sessions'[s].opened = sessions[s].opened
  BY DEF Opens
<1>9. \A v \in Servers : /\ servers[v].by \in Clients => servers'[v].by = servers[v].by
                         /\ servers[v].by \in Clients \ {c} => servers'[v].open = servers[v].open
  BY <1>0 DEF Moves
<1>10. ASSUME NEW s \in SessionIds
       PROVE  SessionInv(s)'
  <2>1. SessionFacts(s)'
    BY DEF Opens
  <2>2. CASE sessions'[s].st = "finalized"
    <3>1. sessions[s].st = "finalized"
      BY <2>2 DEF Opens
    <3>2. EndedByItsOwn(s) /\ sessions[s].opened # {}
      BY <3>1 DEF SessionInv, SessionFacts
    <3>3. sessions'[s].opened = sessions[s].opened /\ sessions[s].opened \subseteq Clients
      BY <3>2, <1>8 DEF ClientTypeOK, SessionType
    <3>4. \A d \in Clients : clients[d].pc = "closed" => clients'[d] = clients[d]
      BY <1>2, <1>5
    <3>5. EndedByItsOwn(s)'
      BY <3>2, <3>3, <3>4 DEF EndedByItsOwn
    <3> QED
      BY <2>1, <3>5 DEF SessionInv
  <2> QED
    BY <2>1, <2>2 DEF SessionInv
<1>11. ASSUME NEW s \in SessionIds
       PROVE  UrlInv(s)'
  <2>1. PICK v \in Servers \cup {NoServer} : v = sessions'[s].url
    BY <1>4 DEF ClientTypeOK, SessionType
  <2>2. CASE v = NoServer
    BY <2>1, <2>2 DEF UrlInv
  <2>3. CASE v # NoServer /\ v # sessions[s].url
    <3>1. it.pc = "store" /\ it.id = s /\ it.fb = v /\ servers'[v].by = c
      BY <2>1, <2>3, <1>0 DEF Opens
    <3>2. Stores(r, c, s, v)'
      BY <3>1, <1>0, <1>3 DEF Stores
    <3>3. Serves(c, s, v)'
      BY <3>2, <1>1 DEF Serves
    <3> QED
      BY <2>1, <3>1, <3>3 DEF UrlInv
  <2>4. CASE v # NoServer /\ v = sessions[s].url
    <3>1. PICK d \in Clients : d = servers[v].by /\ Serves(d, s, v)
      BY <2>4 DEF UrlInv
    <3>2. servers'[v].by = d
      BY <2>4, <3>1, <1>9
    <3>3. Serves(d, s, v)'
      <4>1. CASE d # c
        <5>1. clients'[d] = clients[d] /\ servers'[v].open = servers[v].open
          BY <4>1, <3>1, <2>4, <1>2, <1>9
        <5>2. \A q \in Connectors : Stores(q, d, s, v) => Stores(q, d, s, v)'
          BY <4>1, <1>0, <1>3 DEF Stores
        <5> QED
          BY <5>1, <5>2, <3>1, <1>1 DEF Serves
      <4>2. CASE d = c
        <5>0. clients'[d] = me
          BY <4>2, <1>2
        <5>1. CASE me.mixed \/ me.pc = "closed"
          BY <5>0, <5>1 DEF Serves
        <5>2. CASE me = clients[c] /\ servers' = servers /\ ~Busy(r)
          <6>1. \A q \in Connectors : Stores(q, d, s, v) => Stores(q, d, s, v)'
            BY <5>2, <1>3 DEF Stores, Busy
          <6> QED
            BY <6>1, <5>0, <5>2, <4>2, <3>1, <1>1 DEF Serves
        <5>3. CASE \/ me.connected /\ me.sid = s /\ me.feedback = v /\ servers'[v].open
                   \/ it.pc \in {"store", "own"} /\ it.id = s /\ it.fb = v
          <6>1. it.pc \in {"store", "own"} /\ it.id = s /\ it.fb = v => Stores(r, d, s, v)'
            BY <4>2, <1>0, <1>3 DEF Stores
          <6> QED
            BY <6>1, <5>0, <5>3, <1>1 DEF Serves
        <5> QED
          BY <5>1, <5>2, <5>3, <4>2, <3>1, <2>1, <2>4, <1>0 DEF KeepsServing
      <4> QED
        BY <4>1, <4>2
    <3> QED
      BY <2>1, <3>1, <3>2, <3>3 DEF UrlInv
  <2> QED
    BY <2>2, <2>3, <2>4
<1>12. ASSUME NEW d \in Clients
       PROVE  ProgramInv(clients[d], d)'
  <2>1. CASE d = c
    BY <2>1, <1>0, <1>2
  <2>2. CASE d # c
    <3>1. PICK w \in ClientType : w = clients[d] /\ clients'[d] = w
      BY <2>2, <1>2 DEF ClientTypeOK
    <3>2. /\ ProgramInv(w, d) /\ w.sid \in SessionIds \cup {NoSession}
          /\ w.feedback \in Servers \cup {NoServer} /\ w.key \in Nat
      BY <3>1 DEF ClientType
    <3>3. w.sid # NoSession => sessions'[w.sid].opened = sessions[w.sid].opened
      BY <3>2, <1>8 DEF ProgramInv
    <3>4. w.key <= daemon'.keys
      BY <3>2 DEF ProgramInv, Opens, ClientTypeOK
    <3>5. w.feedback # NoServer => servers'[w.feedback].by = d
      BY <3>2, <1>9 DEF ProgramInv
    <3>6. ASSUME ~w.mixed, w.key # 0, NEW s \in SessionIds, sessions'[s].key = w.key
          PROVE  w.sid = s
      <4>1. w.key <= daemon.keys /\ daemon.keys \in Nat
        BY <3>2 DEF ProgramInv, ClientTypeOK
      <4>2. sessions[s].key = w.key
        BY <3>2, <3>6, <4>1 DEF Opens
      <4> QED
        BY <3>2, <3>6, <4>2 DEF ProgramInv, UnmixedInv
    <3>7. ~w.mixed => UnmixedInv(w, d)'
      BY <3>2, <3>3, <3>6 DEF ProgramInv, UnmixedInv
    <3>8. ProgramInv(w, d)'
      BY <3>2, <3>3, <3>4, <3>5, <3>7 DEF ProgramInv
    <3> QED
      BY <3>1, <3>8
  <2> QED
    BY <2>1, <2>2
<1>13. ASSUME NEW d \in Clients, ~clients'[d].mixed,
              NEW q \in Connectors, NEW p \in Connectors, Program(q) = d, Program(p) = d,
              Busy(q)', Busy(p)'
       PROVE  q = p
  <2>1. CASE d # c
    <3>1. ~clients[d].mixed /\ Busy(q) /\ Busy(p)
      BY <2>1, <1>0, <1>2, <1>3, <1>6, <1>7, <1>13
    <3> QED
      BY <3>1, <1>13 DEF OneAtATime
  <2>2. CASE d = c
    <3>1. ~me.mixed /\ ~clients[c].mixed
      BY <2>2, <1>2, <1>5, <1>13
    <3>2. CASE ~Mixes(r)
      <4>1. \A x \in Connectors : Program(x) = c /\ Busy(x)' => x = r
        BY <3>2, <1>0, <1>3, <1>6, <1>7 DEF Mixes
      <4> QED
        BY <4>1, <2>2, <1>13
    <3>3. CASE ~InConnect(it)
      <4>1. q # r /\ p # r
        BY <3>3, <1>3, <1>7, <1>13
      <4>2. Busy(q) /\ Busy(p)
        BY <4>1, <1>3, <1>6, <1>7, <1>13
      <4> QED
        BY <4>2, <3>1, <2>2, <1>13 DEF OneAtATime
    <3> QED
      BY <3>1, <3>2, <3>3 DEF Alone
  <2> QED
    BY <2>1, <2>2
<1>14. ASSUME NEW q \in Connectors
       PROVE  CallInv(connects[q], q, clients[Program(q)])'
  <2>1. CASE q = r
    BY <2>1, <1>0, <1>2, <1>3
  <2>2. CASE q # r
    <3>1. PICK x \in ConnectType : x = connects[q] /\ connects'[q] = x
      BY <2>2, <1>3 DEF ClientTypeOK
    <3>2. PICK d \in Clients : d = Program(q)
      BY Crew
    <3>3. PICK w : w = clients[d]
      OBVIOUS
    <3>4. /\ CallInv(x, q, w) /\ x.id \in SessionIds \cup {NoSession}
          /\ x.fb \in Servers \cup {NoServer}
      BY <3>1, <3>2, <3>3 DEF ConnectType, Me
    <3>5. x.id # NoSession => sessions[x.id].opened # {} /\ sessions'[x.id].opened = sessions[x.id].opened
      BY <3>4, <1>8 DEF CallInv
    <3>6. x.fb # NoServer => servers[x.fb].by = d /\ servers'[x.fb].by = d
      BY <3>2, <3>4, <1>9 DEF CallInv
    <3>7. CASE d # c
      <4>1. x.fb # NoServer => servers'[x.fb].open = servers[x.fb].open
        BY <3>4, <3>6, <3>7, <1>9
      <4>2. InConnect(x) /\ ~w.mixed => Relies(x, q, w)'
        BY <4>1, <3>4, <3>5 DEF CallInv, Relies
      <4>3. CallInv(x, q, w)'
        BY <4>2, <3>2, <3>4, <3>5, <3>6 DEF CallInv
      <4> QED
        BY <4>3, <3>1, <3>2, <3>3, <3>7, <1>2
    <3>8. CASE d = c
      <4>1. InConnect(x) => Mixes(r)
        BY <2>2, <3>1, <3>2, <3>8, <1>0, <1>6 DEF Mixes
      <4>2. InConnect(x) => me.pc = "on"
        BY <4>1, <1>0, <1>5 DEF Alone
      <4>3. InConnect(x) /\ ~me.mixed => me = w /\ servers' = servers
        BY <4>1, <3>3, <3>8, <1>0 DEF Alone
      <4>4. InConnect(x) /\ ~me.mixed => Relies(x, q, me)'
        BY <4>3, <3>4, <3>5 DEF CallInv, Relies
      <4>5. CallInv(x, q, me)'
        BY <4>2, <4>4, <3>2, <3>4, <3>5, <3>6 DEF CallInv
      <4> QED
        BY <4>5, <3>1, <3>2, <3>8, <1>2
    <3> QED
      BY <3>7, <3>8
  <2> QED
    BY <2>1, <2>2
<1> QED
  BY <1>1, <1>4, <1>10, <1>11, <1>12, <1>13, <1>14 DEF OneAtATime, Me

\* A step that leaves the sessions alone.
LEMMA SameSessions ==
    ASSUME ClientInv, NEW r \in Connectors, NEW it, UNCHANGED <<daemon, sessions>>
    PROVE  Opens(r, it)
BY DEF Opens, ClientInv, ClientTypeOK, SessionInv, SessionFacts

\* While a Connect is under way and the client is not mixed, it is the only one.
LEMMA BusyAlone ==
    ASSUME ClientInv, NEW r \in Connectors, Busy(r), ~Me(r).mixed
    PROVE  ~Mixes(r)
BY Crew DEF ClientInv, OneAtATime, Mixes, Me

\* The prompts that go to a client, that is not mixed, of a caller beside which no other
\* one is in Connect.
LEMMA WhereServed ==
    ASSUME ClientInv, NEW r \in Connectors, ~Mixes(r), ~Me(r).mixed, Me(r).pc = "on",
           NEW s \in SessionIds, sessions[s].url # NoServer,
           servers[sessions[s].url].by = Program(r)
    PROVE  \/ /\ Me(r).connected /\ Me(r).sid = s /\ Me(r).feedback = sessions[s].url
              /\ servers[sessions[s].url].open
           \/ connects[r].pc \in {"store", "own"} /\ connects[r].id = s /\ connects[r].fb = sessions[s].url
<1>1. Serves(Program(r), s, sessions[s].url)
  BY DEF ClientInv, UrlInv
<1>2. ASSUME NEW q \in Connectors, Stores(q, Program(r), s, sessions[s].url)
      PROVE  q = r
  BY <1>2 DEF Stores, Mixes, Busy
<1> QED
  BY <1>1, <1>2 DEF Serves, Stores, Me

\* What a step does to a client's fields and a call's keeps their types.
LEMMA ClientFields ==
    ASSUME NEW x \in ClientType
    PROVE  /\ \A b \in BOOLEAN : [x EXCEPT !.connected = FALSE, !.feedback = NoServer, !.mixed = b] \in ClientType
           /\ \A b \in BOOLEAN : [x EXCEPT !.connected = FALSE, !.feedback = NoServer, !.sid = NoSession,
                                           !.mixed = b] \in ClientType
           /\ \A v \in Servers, b \in BOOLEAN : [x EXCEPT !.feedback = v, !.mixed = b] \in ClientType
           /\ [x EXCEPT !.pc = "closed"] \in ClientType
           /\ \A s \in SessionIds \cup {NoSession} : [x EXCEPT !.sid = s] \in ClientType
           /\ \A b \in BOOLEAN : [x EXCEPT !.own = b, !.connected = TRUE] \in ClientType
           /\ \A k \in Nat : [x EXCEPT !.key = k] \in ClientType
           /\ [x EXCEPT !.pc = "closed", !.connected = FALSE] \in ClientType
BY ZenonT(60) DEF ClientType
LEMMA ConnectFields ==
    ASSUME NEW y \in ConnectType
    PROVE  /\ Idle \in ConnectType
           /\ \A pc \in {"check", "ping", "own", "negotiate"} : [y EXCEPT !.pc = pc] \in ConnectType
           /\ \A s \in SessionIds \cup {NoSession} : [Idle EXCEPT !.pc = "get", !.id = s] \in ConnectType
           /\ \A s \in SessionIds \cup {NoSession}, v \in Servers :
                 [pc |-> "prepare", id |-> s, had |-> FALSE, fb |-> v] \in ConnectType
           /\ \A b \in BOOLEAN : [y EXCEPT !.pc = "request", !.had = b] \in ConnectType
           /\ \A s \in SessionIds : [y EXCEPT !.pc = "store", !.id = s] \in ConnectType
BY ZenonT(60) DEF ConnectType, Idle, BeforeConnected

\* A step that only changes the call, to it.
LEMMA OnlyCall ==
    ASSUME ClientInv, NEW r \in Connectors, NEW it \in ConnectType, Me(r).pc = "on",
           connects' = [connects EXCEPT ![r] = it], UNCHANGED <<daemon, sessions, servers, clients>>,
           CallInv(it, r, Me(r)), Busy(r) \/ ~InConnect(it),
           Busy(r) => connects[r].pc \notin {"store", "own"} /\ (~Me(r).mixed => ~Me(r).connected)
    PROVE  ClientInv'
<1>0. PICK c \in Clients : c = Program(r)
  BY Crew DEF ClientInv
<1>1. PICK x \in ClientType : x = clients[c]
  BY DEF ClientInv, ClientTypeOK
<1>2. Moves(r, x, it)
  BY <1>0, <1>1 DEF Moves, ClientInv, ClientTypeOK, Me
<1>3. Alone(r, x, it)
  BY <1>0, <1>1, BusyAlone DEF Alone, Me
<1>4. Opens(r, it)
  BY SameSessions
<1>5. KeepsServing(r, x, it)
  BY <1>0, <1>1, BusyAlone, WhereServed DEF KeepsServing, Me
<1>6. ProgramInv(x, Program(r))'
  BY <1>0, <1>1 DEF ClientInv, ProgramInv, UnmixedInv
<1>7. CallInv(it, r, x)'
  BY <1>0, <1>1 DEF CallInv, Relies, Me
<1> QED
  BY <1>2, <1>3, <1>4, <1>5, <1>6, <1>7, OneConnect

LEMMA StepOnlyCall ==
    ASSUME ClientInv, NEW r \in Connectors,
           CallConnect(r) \/ PingAnswers(r) \/ IsConnected(r) \/ HadSession(r)
    PROVE  ClientInv'
<1> USE Numbers
<1>0. PICK y \in ConnectType : y = connects[r]
  BY DEF ClientInv, ClientTypeOK
<1>1. Me(r).pc = "on" /\ UNCHANGED <<daemon, sessions, servers, clients>>
  BY DEF CallConnect, PingAnswers, IsConnected, HadSession, At
<1>2. CallInv(y, r, Me(r)) /\ Me(r) \in ClientType
  BY <1>0, Crew DEF ClientInv, ClientTypeOK, Me
<1>3. CASE CallConnect(r)
  <2>1. PICK pc \in {"check", "ping"} : connects' = [connects EXCEPT ![r].pc = pc]
    BY <1>3 DEF CallConnect, Goes
  <2>2. PICK it : it = [y EXCEPT !.pc = pc]
    OBVIOUS
  <2>3. it \in ConnectType /\ connects' = [connects EXCEPT ![r] = it]
    BY Zenon, <1>0, <2>1, <2>2, ConnectFields DEF ClientInv, ClientTypeOK
  <2>4. y.pc = "idle" /\ it.pc = pc /\ it.id = y.id /\ it.fb = y.fb
    BY <1>0, <1>3, <2>2 DEF CallConnect, At, ConnectType
  <2>5. CallInv(it, r, Me(r)) /\ ~InConnect(it) /\ ~Busy(r)
    BY <1>0, <1>2, <2>1, <2>4 DEF CallInv, InConnect, BeforeConnected, Busy
  <2> QED
    BY <1>1, <2>3, <2>5, OnlyCall
<1>4. CASE PingAnswers(r) \/ IsConnected(r)
  <2>1. PICK it \in ConnectType :
            /\ connects' = [connects EXCEPT ![r] = it]
            /\ it.pc \in {"idle", "get"} /\ it.fb = NoServer /\ it.id \in {NoSession, Me(r).sid}
    <3>1. PICK s : s = Me(r).sid /\ s \in SessionIds \cup {NoSession}
      BY <1>2 DEF ClientType
    <3>2. PICK i : i = [Idle EXCEPT !.pc = "get", !.id = s]
      OBVIOUS
    <3>3. i \in ConnectType /\ i.pc = "get" /\ i.fb = NoServer /\ i.id = s
      BY <1>0, <3>1, <3>2, ConnectFields DEF Idle
    <3>4. Idle \in ConnectType /\ Idle.pc = "idle" /\ Idle.fb = NoServer /\ Idle.id = NoSession
      BY <1>0, ConnectFields DEF Idle
    <3>5. connects' = [connects EXCEPT ![r] = Idle] \/ connects' = [connects EXCEPT ![r] = i]
      BY <1>4, <3>1, <3>2 DEF PingAnswers, IsConnected
    <3> QED
      BY <3>1, <3>3, <3>4, <3>5
  <2>2. y.pc \in {"ping", "get", "check"}
    BY <1>0, <1>4 DEF PingAnswers, IsConnected, At
  <2>3. CallInv(it, r, Me(r)) /\ ~InConnect(it) /\ ~Busy(r)
    <3>1. Me(r).sid # NoSession => sessions[Me(r).sid].opened # {}
      BY Crew DEF ClientInv, ProgramInv, Me
    <3> QED
      BY <1>0, <2>1, <2>2, <3>1 DEF CallInv, InConnect, BeforeConnected, Busy
  <2> QED
    BY <1>1, <2>1, <2>3, OnlyCall
<1>5. CASE HadSession(r)
  <2>1. PICK b \in BOOLEAN : b = (Me(r).sid # NoSession)
    OBVIOUS
  <2>2. PICK it : it = [y EXCEPT !.pc = "request", !.had = b]
    OBVIOUS
  <2>3. it \in ConnectType /\ connects' = [connects EXCEPT ![r] = it]
    BY Zenon, <1>0, <1>5, <2>1, <2>2, ConnectFields DEF HadSession, ClientInv, ClientTypeOK
  <2>4. y.pc = "prepare" /\ it.pc = "request" /\ it.id = y.id /\ it.fb = y.fb /\ it.had = b
    BY <1>0, <1>5, <2>2 DEF HadSession, At, ConnectType
  <2>5. CallInv(it, r, Me(r)) /\ Busy(r) /\ (~Me(r).mixed => ~Me(r).connected)
    BY <1>0, <1>2, <2>1, <2>4 DEF CallInv, Relies, InConnect, BeforeConnected, Busy
  <2> QED
    BY <1>0, <1>1, <2>3, <2>4, <2>5, OnlyCall
<1> QED
  BY <1>3, <1>4, <1>5

\* A client closes its feedback server only.
LEMMA ClosesOwn ==
    ASSUME ClientInv, NEW c \in Clients, NEW v \in Servers \cup {NoServer},
           v # NoServer => servers[v].by = c,
           servers' = IF v = NoServer THEN servers ELSE CloseServer(v)
    PROVE  /\ servers' \in [Servers -> ServerType]
           /\ \A w \in Servers :
                 /\ servers'[w].by = servers[w].by
                 /\ servers[w].by \in Clients \ {c} => servers'[w].open = servers[w].open
<1>1. CASE v = NoServer
  BY <1>1 DEF ClientInv, ClientTypeOK
<1>2. CASE v # NoServer
  <2>1. servers' = [servers EXCEPT ![v].open = FALSE]
    BY <1>2 DEF CloseServer
  <2>2. v \in Servers /\ servers[v] \in ServerType /\ servers[v].by = c
    BY <1>2 DEF ClientInv, ClientTypeOK
  <2>3. [servers[v] EXCEPT !.open = FALSE] \in ServerType
        /\ [servers[v] EXCEPT !.open = FALSE].by = c
    BY <2>2 DEF ServerType
  <2>4. servers' = [servers EXCEPT ![v] = [servers[v] EXCEPT !.open = FALSE]]
    BY <2>1
  <2> QED
    BY <2>2, <2>3, <2>4 DEF ClientInv, ClientTypeOK
<1> QED
  BY <1>1, <1>2

\* Connect forgets that it is connected: the daemon did not answer, or has not the session.
LEMMA StepForgets ==
    ASSUME ClientInv, NEW r \in Connectors, PingFails(r) \/ SessionIsStale(r)
    PROVE  ClientInv'
<1> USE Numbers
<1>0. PICK c \in Clients : c = Program(r)
  BY Crew DEF ClientInv
<1>1. PICK x \in ClientType : x = clients[c]
  BY DEF ClientInv, ClientTypeOK
<1>2. PICK y \in ConnectType : y = connects[r]
  BY DEF ClientInv, ClientTypeOK
<1>3. /\ x.pc = "on" /\ y.pc \in {"ping", "get"} /\ ~Busy(r)
      /\ servers' = CloseFeedback(c) /\ connects' = [connects EXCEPT ![r].pc = "check"]
      /\ UNCHANGED <<daemon, sessions>>
  BY <1>0, <1>1, <1>2 DEF PingFails, SessionIsStale, At, Me, Goes, Busy
<1>4. PICK it : it = [y EXCEPT !.pc = "check"]
  OBVIOUS
<1>5. /\ it \in ConnectType /\ connects' = [connects EXCEPT ![r] = it]
      /\ it.pc = "check" /\ it.id = y.id /\ it.fb = y.fb
  <2>1. it \in ConnectType /\ connects' = [connects EXCEPT ![r] = it]
    BY Zenon, <1>2, <1>3, <1>4, ConnectFields DEF ClientInv, ClientTypeOK
  <2> QED
    BY <1>2, <1>4, <2>1 DEF ConnectType
<1>6. ProgramInv(x, c) /\ CallInv(y, r, x) /\ x.feedback \in Servers \cup {NoServer}
      /\ x.sid \in SessionIds \cup {NoSession}
  BY <1>0, <1>1, <1>2 DEF ClientInv, Me, ClientType
<1>7. /\ servers' \in [Servers -> ServerType]
      /\ \A v \in Servers :
            /\ servers'[v].by = servers[v].by
            /\ servers[v].by \in Clients \ {c} => servers'[v].open = servers[v].open
  BY <1>1, <1>3, <1>6, ClosesOwn DEF CloseFeedback, ProgramInv
<1>8. PICK me : /\ me \in ClientType /\ clients' = [clients EXCEPT ![c] = me]
                /\ me.pc = "on" /\ ~me.connected /\ me.feedback = NoServer /\ me.key = x.key
                /\ me.own = x.own /\ (x.mixed \/ Mixes(r) => me.mixed)
                /\ \/ me.sid = x.sid /\ ~daemon.up
                   \/ /\ me.sid = NoSession /\ (~Exists(y.id) \/ y.id # x.sid)
                      /\ ~me.mixed => x.sid \in {y.id, NoSession}
  <2>1. PICK b \in BOOLEAN : b = (x.mixed \/ Mixes(r))
    BY <1>1 DEF ClientType
  <2>2. PICK b2 \in BOOLEAN : b2 = (x.mixed \/ Mixes(r) \/ x.sid \notin {y.id, NoSession})
    BY <1>1 DEF ClientType
  <2>3. CASE PingFails(r)
    <3>1. PICK me : me = [x EXCEPT !.connected = FALSE, !.feedback = NoServer, !.mixed = b]
      OBVIOUS
    <3>2. clients' = [clients EXCEPT ![c] = me] /\ me \in ClientType
      <4>1. clients' = [clients EXCEPT ![c].connected = FALSE, ![c].feedback = NoServer, ![c].mixed = b]
        BY <1>0, <1>1, <2>1, <2>3 DEF PingFails
      <4> QED
        BY Zenon, <1>1, <2>1, <3>1, <4>1, ClientFields DEF ClientInv, ClientTypeOK
    <3>3. me.pc = "on" /\ ~me.connected /\ me.feedback = NoServer /\ me.key = x.key
          /\ me.own = x.own /\ me.mixed = b /\ me.sid = x.sid
      BY <1>1, <1>3, <3>1 DEF ClientType
    <3> QED
      BY <2>1, <2>3, <3>2, <3>3 DEF PingFails
  <2>4. CASE SessionIsStale(r)
    <3>1. PICK me : me = [x EXCEPT !.connected = FALSE, !.feedback = NoServer, !.sid = NoSession,
                                   !.mixed = b2]
      OBVIOUS
    <3>2. clients' = [clients EXCEPT ![c] = me] /\ me \in ClientType
      <4>1. clients' = [clients EXCEPT ![c].connected = FALSE, ![c].feedback = NoServer,
                                       ![c].sid = NoSession, ![c].mixed = b2]
        BY <1>0, <1>1, <1>2, <2>2, <2>4 DEF SessionIsStale, Me
      <4> QED
        BY Zenon, <1>1, <2>2, <3>1, <4>1, ClientFields DEF ClientInv, ClientTypeOK
    <3>3. me.pc = "on" /\ ~me.connected /\ me.feedback = NoServer /\ me.key = x.key
          /\ me.own = x.own /\ me.mixed = b2 /\ me.sid = NoSession
      BY <1>1, <1>3, <3>1 DEF ClientType
    <3>4. ~Exists(y.id) \/ y.id # x.sid
      BY <1>0, <1>1, <1>2, <2>4 DEF SessionIsStale, Me
    <3> QED
      BY <2>2, <3>2, <3>3, <3>4
  <2> QED
    BY <2>3, <2>4
<1>9. Moves(r, me, it)
  BY <1>0, <1>1, <1>3, <1>5, <1>7, <1>8 DEF Moves
<1>10. Alone(r, me, it)
  BY <1>8 DEF Alone
<1>11. Opens(r, it)
  BY <1>3, SameSessions
\* Of a client that is not mixed, the session is gone.
<1>12. ASSUME ~me.mixed, NEW s \in SessionIds
       PROVE  /\ x.sid = s => me.sid = s \/ sessions[s].key = 0
              /\ sessions[s].url # NoServer => servers[sessions[s].url].by # c
  <2>1. SessionFacts(s)
    BY DEF ClientInv, SessionInv
  <2>2. ~daemon.up \/ x.sid = NoSession \/ ~Exists(x.sid)
    BY <1>8, <1>12
  <2>3. x.sid = s => sessions[s].st = "none" \/ me.sid = s
    BY <1>8, <2>1, <2>2 DEF Exists, SessionFacts
  <2>4. ~Mixes(r) /\ ~x.mixed
    BY <1>8, <1>12
  <2>5. sessions[s].url # NoServer /\ servers[sessions[s].url].by = c => x.sid = s /\ sessions[s].st # "none"
    BY <1>0, <1>1, <1>2, <1>3, <2>1, <2>4, WhereServed DEF Me, SessionFacts
  <2>6. sessions[s].st # "none" => daemon.up
    BY <2>1 DEF SessionFacts
  <2> QED
    BY <2>1, <2>2, <2>3, <2>5, <2>6 DEF SessionFacts, Exists
<1>13. KeepsServing(r, me, it)
  BY <1>0, <1>12 DEF KeepsServing
<1>14. ProgramInv(me, Program(r))'
  <2>1. ASSUME ~me.mixed
        PROVE  UnmixedInv(me, c)'
    <3>1. UnmixedInv(x, c) /\ me.sid \in {x.sid, NoSession}
      BY <1>6, <1>8, <2>1 DEF ProgramInv
    <3>2. ASSUME me.key # 0, NEW s \in SessionIds, sessions[s].key = me.key
          PROVE  me.sid = s
      BY <1>8, <1>12, <2>1, <3>1, <3>2 DEF UnmixedInv
    <3> QED
      BY <1>3, <1>8, <3>1, <3>2 DEF UnmixedInv
  <2> QED
    BY <1>0, <1>3, <1>6, <1>8, <2>1 DEF ProgramInv
<1>15. CallInv(it, r, me)'
  BY <1>0, <1>2, <1>3, <1>5, <1>6, <1>7 DEF CallInv, InConnect, BeforeConnected, ConnectType
<1> QED
  BY <1>9, <1>10, <1>11, <1>13, <1>14, <1>15, OneConnect

\* A new server, for a Connect that begins or makes its client mixed.
LEMMA StepServer ==
    ASSUME ClientInv, NEW r \in Connectors, NewFeedbackServer(r)
    PROVE  ClientInv'
<1> USE Numbers
<1>0. PICK c \in Clients : c = Program(r)
  BY Crew DEF ClientInv
<1>1. PICK x \in ClientType : x = clients[c]
  BY DEF ClientInv, ClientTypeOK
<1>2. PICK b \in BOOLEAN : b = (x.mixed \/ Mixes(r))
  BY <1>1 DEF ClientType
<1>3. PICK v \in Servers :
          /\ servers[v].by = "nobody"
          /\ servers' = [servers EXCEPT ![v] = [by |-> c, open |-> TRUE]]
          /\ clients' = [clients EXCEPT ![c].feedback = v, ![c].mixed = b]
          /\ connects' = [connects EXCEPT ![r] = [pc |-> "prepare", id |-> x.sid, had |-> FALSE, fb |-> v]]
  BY <1>0, <1>1, <1>2 DEF NewFeedbackServer, Me
<1>4. x.pc = "on" /\ connects[r].pc = "check" /\ ~x.connected /\ UNCHANGED <<daemon, sessions>>
  BY <1>0, <1>1 DEF NewFeedbackServer, At, Me
<1>5. PICK me : me = [x EXCEPT !.feedback = v, !.mixed = b]
  OBVIOUS
<1>6. PICK it : it = [pc |-> "prepare", id |-> x.sid, had |-> FALSE, fb |-> v]
  OBVIOUS
<1>7. x.sid \in SessionIds \cup {NoSession}
  BY <1>1 DEF ClientType
<1>8. me \in ClientType /\ it \in ConnectType
      /\ clients' = [clients EXCEPT ![c] = me] /\ connects' = [connects EXCEPT ![r] = it]
  <2>1. me \in ClientType /\ clients' = [clients EXCEPT ![c] = me]
    BY Zenon, <1>1, <1>2, <1>3, <1>5, ClientFields DEF ClientInv, ClientTypeOK
  <2>2. connects[r] \in ConnectType
    BY DEF ClientInv, ClientTypeOK
  <2> QED
    BY <1>3, <1>6, <1>7, <2>1, <2>2, ConnectFields
<1>9. /\ me.pc = "on" /\ ~me.connected /\ me.feedback = v /\ me.key = x.key /\ me.sid = x.sid
      /\ me.own = x.own /\ me.mixed = b
      /\ it.pc = "prepare" /\ it.id = x.sid /\ it.fb = v
  BY <1>1, <1>4, <1>5, <1>6 DEF ClientType
<1>10. /\ servers' \in [Servers -> ServerType]
       /\ servers'[v].by = c /\ servers'[v].open
       /\ \A w \in Servers : w # v => servers'[w] = servers[w]
  BY <1>3 DEF ClientInv, ClientTypeOK, ServerType
<1>11. Moves(r, me, it)
  <2>1. servers[v].by \notin Clients
    BY <1>3, ClientAssumption
  <2>2. \A w \in Servers :
          /\ servers[w].by \in Clients => servers'[w].by = servers[w].by
          /\ servers[w].by \in Clients \ {c} => servers'[w].open = servers[w].open
    BY <1>10, <2>1
  <2>3. x.mixed => me.mixed
    BY <1>2, <1>9
  <2> QED
    BY <1>0, <1>1, <1>4, <1>8, <1>9, <1>10, <2>2, <2>3 DEF Moves
<1>12. Alone(r, me, it)
  BY <1>2, <1>9 DEF Alone
<1>13. Opens(r, it)
  BY <1>4, SameSessions
<1>14. KeepsServing(r, me, it)
  BY <1>0, <1>1, <1>2, <1>4, <1>9, WhereServed DEF KeepsServing, Me
<1>15. ProgramInv(x, c)
  BY <1>1 DEF ClientInv
<1>16. ProgramInv(me, Program(r))'
  BY <1>0, <1>2, <1>4, <1>9, <1>10, <1>15 DEF ProgramInv, UnmixedInv
<1>17. CallInv(it, r, me)'
  BY <1>0, <1>4, <1>9, <1>10, <1>15 DEF CallInv, Relies, ProgramInv, InConnect, BeforeConnected
<1> QED
  BY <1>11, <1>12, <1>13, <1>14, <1>16, <1>17, OneConnect

\* Without an answer it gives up, and a command ends.
LEMMA StepFails ==
    ASSUME ClientInv, NEW r \in Connectors, ConnectFails(r)
    PROVE  ClientInv'
<1> USE Numbers
<1>0. PICK c \in Clients : c = Program(r)
  BY Crew DEF ClientInv
<1>1. PICK x \in ClientType : x = clients[c]
  BY DEF ClientInv, ClientTypeOK
<1>2. PICK y \in ConnectType : y = connects[r]
  BY DEF ClientInv, ClientTypeOK
<1>3. /\ x.pc = "on" /\ y.pc = "request" /\ Busy(r) /\ ~daemon.up
      /\ connects' = [connects EXCEPT ![r] = Idle]
      /\ clients' = IF c \in Mcps THEN clients ELSE [clients EXCEPT ![c].pc = "closed"]
      /\ servers' = CloseServer(y.fb) /\ UNCHANGED <<daemon, sessions>>
  BY <1>0, <1>1, <1>2 DEF ConnectFails, At, Me, Busy
<1>4. ProgramInv(x, c) /\ CallInv(y, r, x) /\ y.fb \in Servers \cup {NoServer}
  BY <1>0, <1>1, <1>2 DEF ClientInv, Me, ConnectType
<1>5. y.fb \in Servers /\ servers[y.fb].by = c
  BY <1>0, <1>3, <1>4 DEF CallInv, BeforeConnected
<1>6. /\ servers' \in [Servers -> ServerType]
      /\ \A v \in Servers :
            /\ servers'[v].by = servers[v].by
            /\ servers[v].by \in Clients \ {c} => servers'[v].open = servers[v].open
  BY <1>3, <1>5, ClosesOwn
<1>7. Idle \in ConnectType /\ Idle.pc = "idle" /\ Idle.id = NoSession /\ Idle.fb = NoServer
  BY <1>2, ConnectFields DEF Idle
<1>8. PICK me : /\ me \in ClientType /\ clients' = [clients EXCEPT ![c] = me]
                /\ me.pc = IF c \in Mcps THEN "on" ELSE "closed"
                /\ me.connected = x.connected /\ me.feedback = x.feedback /\ me.key = x.key
                /\ me.sid = x.sid /\ me.own = x.own /\ me.mixed = x.mixed
  <2>1. CASE c \in Mcps
    BY <1>1, <1>3, <2>1 DEF ClientInv, ClientTypeOK
  <2>2. CASE c \notin Mcps
    <3>1. PICK me : me = [x EXCEPT !.pc = "closed"]
      OBVIOUS
    <3>2. me \in ClientType /\ clients' = [clients EXCEPT ![c] = me]
      BY Zenon, <1>1, <1>3, <2>2, <3>1, ClientFields DEF ClientInv, ClientTypeOK
    <3>3. /\ me.pc = "closed" /\ me.connected = x.connected /\ me.feedback = x.feedback
          /\ me.key = x.key /\ me.sid = x.sid /\ me.own = x.own /\ me.mixed = x.mixed
      BY <1>1, <3>1 DEF ClientType
    <3> QED
      BY <2>2, <3>2, <3>3
  <2> QED
    BY <2>1, <2>2
<1>9. Moves(r, me, Idle)
  BY <1>0, <1>1, <1>3, <1>6, <1>7, <1>8 DEF Moves
<1>10. Alone(r, me, Idle)
  <2>1. CASE c \in Mcps
    BY <1>0, <1>1, <1>3, <1>8, <2>1, BusyAlone DEF Alone, Me
  <2>2. CASE c \notin Mcps
    BY <1>0, <2>2, Crew DEF Alone, Mixes, ClientInv
  <2> QED
    BY <2>1, <2>2
<1>11. Opens(r, Idle)
  BY <1>3, SameSessions
<1>12. ASSUME ~x.mixed
       PROVE  ~x.connected
  BY <1>3, <1>4, <1>12 DEF CallInv, Relies, InConnect, BeforeConnected
<1>13. KeepsServing(r, me, Idle)
  BY <1>0, <1>1, <1>2, <1>3, <1>8, <1>12, BusyAlone, WhereServed DEF KeepsServing, Me
<1>14. ProgramInv(me, Program(r))'
  <2>1. x.feedback \in Servers \cup {NoServer}
    BY <1>1 DEF ClientType
  <2>2. ~x.mixed => UnmixedInv(me, c)'
    BY <1>3, <1>4, <1>8, <1>12 DEF ProgramInv, UnmixedInv
  <2>3. me.feedback # NoServer => servers'[me.feedback].by = c
    BY Zenon, <1>4, <1>6, <1>8, <2>1 DEF ProgramInv
  <2>4. me.pc # "off" /\ me.key <= daemon'.keys
        /\ (me.sid # NoSession => sessions'[me.sid].opened # {})
    BY <1>3, <1>4, <1>8 DEF ProgramInv
  <2>5. ~me.mixed => UnmixedInv(me, c)'
    BY Zenon, <1>8, <2>2
  <2> QED
    BY Zenon, <1>0, <2>3, <2>4, <2>5 DEF ProgramInv
<1>15. CallInv(Idle, r, me)'
  BY <1>7 DEF CallInv, InConnect, BeforeConnected
<1> QED
  BY <1>9, <1>7, <1>10, <1>11, <1>13, <1>14, <1>15, OneConnect

\* The daemon's Connect: the session's prompts go to the caller's server from then on.
LEMMA StepConnect ==
    ASSUME ClientInv, NEW r \in Connectors, Connect(r)
    PROVE  ClientInv'
<1> USE Numbers
<1>0. PICK c \in Clients : c = Program(r)
  BY Crew DEF ClientInv
<1>1. PICK x \in ClientType : x = clients[c]
  BY DEF ClientInv, ClientTypeOK
<1>2. PICK y \in ConnectType : y = connects[r]
  BY DEF ClientInv, ClientTypeOK
<1>3. /\ x.pc = "on" /\ y.pc = "request" /\ Busy(r) /\ daemon.up
      /\ UNCHANGED <<daemon, servers, clients>>
  BY <1>0, <1>1, <1>2 DEF Connect, At, Me, Busy
<1>4. PICK s \in SessionIds :
          /\ IF y.id # NoSession THEN s = y.id ELSE sessions[s].opened = {}
          /\ sessions' = [sessions EXCEPT ![s].st = IF @ = "none" THEN "open" ELSE @, ![s].url = y.fb,
                                          ![s].opened = IF y.id # NoSession THEN @ ELSE {c}]
          /\ connects' = [connects EXCEPT ![r].pc = "store", ![r].id = s]
  <2> USE <1>0, <1>2 DEF Connect
  <2> QED
    BY Zenon
<1>5. ProgramInv(x, c) /\ CallInv(y, r, x) /\ y.fb \in Servers \cup {NoServer} /\ y.had \in BOOLEAN
      /\ y.id \in SessionIds \cup {NoSession} /\ x.sid \in SessionIds \cup {NoSession}
  BY <1>0, <1>1, <1>2 DEF ClientInv, Me, ConnectType, ClientType
<1>6. y.fb \in Servers /\ servers[y.fb].by = c
  BY <1>0, <1>3, <1>5 DEF CallInv, BeforeConnected
<1>7. PICK z \in SessionType : z = sessions[s]
  BY DEF ClientInv, ClientTypeOK
<1>8. PICK st \in {"open", "finalized"} : st = IF z.st = "none" THEN "open" ELSE z.st
  BY <1>7 DEF SessionType
<1>9. PICK o \in SUBSET Clients : o = IF y.id # NoSession THEN z.opened ELSE {c}
  BY <1>7 DEF SessionType
<1>10. PICK n : n = [z EXCEPT !.st = st, !.url = y.fb, !.opened = o]
  OBVIOUS
<1>11. n \in SessionType /\ n.st = st /\ n.url = y.fb /\ n.opened = o /\ n.key = z.key
  BY <1>6, <1>7, <1>8, <1>9, <1>10 DEF SessionType
<1>12. \A t \in SessionIds : sessions'[t] = IF t = s THEN n ELSE sessions[t]
  <2>1. sessions' = [sessions EXCEPT ![s] = n]
    BY <1>4, <1>7, <1>8, <1>9, <1>10 DEF ClientInv, ClientTypeOK
  <2> QED
    BY <2>1 DEF ClientInv, ClientTypeOK
<1>13. sessions' \in [SessionIds -> SessionType]
  BY <1>4, <1>11, <1>12 DEF ClientInv, ClientTypeOK
<1>14. PICK it : it = [y EXCEPT !.pc = "store", !.id = s]
  OBVIOUS
<1>15. it \in ConnectType /\ connects' = [connects EXCEPT ![r] = it]
  BY Zenon, <1>2, <1>4, <1>14, ConnectFields DEF ClientInv, ClientTypeOK
<1>16. it.pc = "store" /\ it.id = s /\ it.fb = y.fb /\ it.had = y.had
  BY <1>2, <1>14 DEF ConnectType
\* The session is known then, and was not made by anybody else if it is new.
<1>17. /\ o # {} /\ (z.opened # {} => o = z.opened) /\ (y.id = NoSession => o = {c})
       /\ z.st = "none" => z.key = 0
       /\ (z.st = "finalized" <=> st = "finalized") /\ z.key <= daemon.keys /\ (z.st # "open" => z.key = 0)
  <2>1. SessionFacts(s)
    BY DEF ClientInv, SessionInv
  <2>2. y.id # NoSession => z.opened # {}
    BY <1>4, <1>5, <1>7 DEF CallInv
  <2> QED
    BY <1>4, <1>7, <1>8, <1>9, <2>1, <2>2 DEF SessionFacts
<1>18. Moves(r, x, it)
  BY <1>0, <1>1, <1>3, <1>15 DEF Moves, ClientInv, ClientTypeOK
<1>19. Alone(r, x, it)
  BY <1>0, <1>1, <1>3, BusyAlone DEF Alone, Me
<1>20. Opens(r, it)
  <2>1. ASSUME NEW t \in SessionIds
        PROVE  /\ SessionFacts(t)'
               /\ sessions'[t].st = "finalized" => sessions[t].st = "finalized"
               /\ sessions[t].opened # {} => sessions'[t].opened = sessions[t].opened
               /\ sessions'[t].key = sessions[t].key
               /\ \/ sessions'[t].url = sessions[t].url
                  \/ /\ it.pc = "store" /\ it.id = t /\ it.fb = sessions'[t].url
                     /\ servers'[it.fb].by = Program(r)
    <3>1. CASE t = s
      <4>1. SessionFacts(t)'
        BY <1>3, <1>8, <1>11, <1>12, <1>17, <3>1 DEF SessionFacts
      <4> QED
        BY <1>0, <1>3, <1>6, <1>7, <1>8, <1>11, <1>12, <1>16, <1>17, <3>1, <4>1
    <3>2. CASE t # s
      <4>1. SessionFacts(t)
        BY DEF ClientInv, SessionInv
      <4>2. sessions'[t] = sessions[t]
        BY <1>12, <3>2
      <4> QED
        BY <1>3, <4>1, <4>2 DEF SessionFacts
    <3> QED
      BY <3>1, <3>2
  <2> QED
    BY <1>3, <1>13, <2>1 DEF Opens, ClientInv, ClientTypeOK
<1>21. ASSUME ~x.mixed
       PROVE  Relies(y, r, x)
  BY <1>3, <1>5, <1>21 DEF CallInv, InConnect, BeforeConnected
<1>22. KeepsServing(r, x, it)
  <2>1. ~x.mixed => ~x.connected /\ ~Mixes(r)
    BY <1>0, <1>1, <1>3, <1>21, BusyAlone DEF Relies, BeforeConnected, Me
  <2> QED
    BY <1>0, <1>1, <1>2, <1>3, <2>1, WhereServed DEF KeepsServing, Me
<1>23. ProgramInv(x, Program(r))'
  <2>1. x.sid # NoSession => sessions[x.sid].opened # {} /\ sessions'[x.sid].opened = sessions[x.sid].opened
    BY <1>5, <1>7, <1>11, <1>12, <1>17 DEF ProgramInv
  <2>2. \A t \in SessionIds : sessions'[t].key = sessions[t].key
    BY <1>7, <1>11, <1>12
  <2>3. ~x.mixed => UnmixedInv(x, c)'
    BY <1>5, <2>1, <2>2 DEF ProgramInv, UnmixedInv
  <2> QED
    BY <1>0, <1>3, <1>5, <2>1, <2>3 DEF ProgramInv
<1>24. CallInv(it, r, x)'
  <2>1. ~x.mixed => Relies(it, r, x)'
    <3>1. SUFFICES ASSUME ~x.mixed PROVE Relies(it, r, x)'
      OBVIOUS
    <3>2. y.had = (x.sid # NoSession) /\ x.sid = y.id /\ ~x.connected /\ x.feedback = y.fb
          /\ servers[y.fb].open
      BY <1>3, <1>21, <3>1 DEF Relies, BeforeConnected
    <3> QED
      BY <1>0, <1>3, <1>4, <1>11, <1>12, <1>16, <1>17, <3>2 DEF Relies, BeforeConnected
  <2>2. sessions'[it.id].opened # {}
    BY <1>11, <1>12, <1>16, <1>17
  <2> QED
    BY <1>0, <1>3, <1>6, <1>16, <2>1, <2>2 DEF CallInv, InConnect, BeforeConnected
<1> QED
  BY <1>18, <1>15, <1>19, <1>20, <1>22, <1>23, <1>24, OneConnect

\* The client takes the session, and is connected.
LEMMA StepStore ==
    ASSUME ClientInv, NEW r \in Connectors, StoreSession(r) \/ StoreOwn(r)
    PROVE  ClientInv'
<1> USE Numbers
<1>0. PICK c \in Clients : c = Program(r)
  BY Crew DEF ClientInv
<1>1. PICK x \in ClientType : x = clients[c]
  BY DEF ClientInv, ClientTypeOK
<1>2. PICK y \in ConnectType : y = connects[r]
  BY DEF ClientInv, ClientTypeOK
<1>3. /\ x.pc = "on" /\ y.pc \in {"store", "own"} /\ Busy(r) /\ UNCHANGED <<daemon, sessions, servers>>
  BY <1>0, <1>1, <1>2 DEF StoreSession, StoreOwn, At, Me, Busy
<1>4. ProgramInv(x, c) /\ CallInv(y, r, x) /\ y.fb \in Servers \cup {NoServer} /\ y.had \in BOOLEAN
      /\ y.id \in SessionIds \cup {NoSession} /\ x.sid \in SessionIds \cup {NoSession}
      /\ x.feedback \in Servers \cup {NoServer}
  BY <1>0, <1>1, <1>2 DEF ClientInv, Me, ConnectType, ClientType
<1>5. y.id \in SessionIds /\ sessions[y.id].opened # {}
  BY <1>3, <1>4 DEF CallInv
<1>6. ASSUME ~x.mixed
      PROVE  Relies(y, r, x) /\ ~Mixes(r)
  BY <1>0, <1>1, <1>3, <1>4, <1>6, BusyAlone DEF CallInv, InConnect, BeforeConnected, Me
<1>7. Opens(r, y)
  BY <1>3, SameSessions
<1>8. CASE StoreSession(r)
  <2>1. PICK me : me = [x EXCEPT !.sid = y.id]
    OBVIOUS
  <2>2. PICK it : it = [y EXCEPT !.pc = "own"]
    OBVIOUS
  <2>3. /\ me \in ClientType /\ clients' = [clients EXCEPT ![c] = me]
        /\ it \in ConnectType /\ connects' = [connects EXCEPT ![r] = it]
    <3>1. clients' = [clients EXCEPT ![c].sid = y.id] /\ connects' = [connects EXCEPT ![r].pc = "own"]
      BY Zenon, <1>0, <1>2, <1>8 DEF StoreSession, Goes
    <3> QED
      BY Zenon, <1>1, <1>2, <1>4, <2>1, <2>2, <3>1, ClientFields, ConnectFields DEF ClientInv, ClientTypeOK
  <2>4. /\ me.pc = "on" /\ me.connected = x.connected /\ me.feedback = x.feedback /\ me.key = x.key
        /\ me.sid = y.id /\ me.own = x.own /\ me.mixed = x.mixed
        /\ it.pc = "own" /\ it.id = y.id /\ it.fb = y.fb /\ it.had = y.had
    BY <1>1, <1>2, <1>3, <2>1, <2>2 DEF ClientType, ConnectType
  <2>5. y.pc = "store"
    BY <1>2, <1>8 DEF StoreSession, At
  <2>6. Moves(r, me, it)
    BY <1>0, <1>1, <1>3, <2>3, <2>4 DEF Moves, ClientInv, ClientTypeOK
  <2>7. Alone(r, me, it)
    BY <1>6, <2>4 DEF Alone
  <2>8. Opens(r, it)
    BY <1>3, SameSessions
  <2>9. KeepsServing(r, me, it)
    <3>1. ~x.mixed => ~x.connected
      BY <1>6, <2>5 DEF Relies, BeforeConnected
    <3> QED
      BY <1>0, <1>1, <1>2, <1>3, <1>6, <2>4, <3>1, WhereServed DEF KeepsServing, Me
  <2>10. ASSUME ~me.mixed
         PROVE  UnmixedInv(me, c)'
    <3>1. UnmixedInv(x, c) /\ Relies(y, r, x)
      BY <1>4, <1>6, <2>4, <2>10 DEF ProgramInv
    <3>2. /\ ~x.connected /\ x.sid = (IF y.had THEN y.id ELSE NoSession)
          /\ ~y.had => sessions[y.id].opened = {c}
      BY <1>0, <2>5, <3>1 DEF Relies, BeforeConnected
    <3>3. x.own => sessions[y.id].opened = {c}
      BY <1>4, <1>5, <3>1, <3>2 DEF UnmixedInv
    <3>4. ASSUME x.key # 0, NEW t \in SessionIds, sessions[t].key = x.key
          PROVE  y.id = t
      <4>1. x.sid = t
        BY <3>1, <3>4 DEF UnmixedInv
      <4> QED
        BY <3>2, <3>4, <4>1
    <3> QED
      BY <1>3, <2>4, <3>2, <3>3, <3>4 DEF UnmixedInv
  <2>11. ProgramInv(me, Program(r))'
    BY <1>0, <1>3, <1>4, <1>5, <2>4, <2>10 DEF ProgramInv
  <2>12. CallInv(it, r, me)'
    <3>1. ~me.mixed => Relies(it, r, me)'
      BY <1>3, <1>6, <2>4, <2>5 DEF Relies, BeforeConnected
    <3> QED
      BY <1>3, <1>4, <2>4, <2>5, <3>1 DEF CallInv, InConnect, BeforeConnected
  <2> QED
    BY <2>3, <2>6, <2>7, <2>8, <2>9, <2>11, <2>12, OneConnect
<1>9. CASE StoreOwn(r)
  <2>1. PICK b \in BOOLEAN : b = ~y.had
    BY <1>4
  <2>2. PICK me : me = [x EXCEPT !.own = b, !.connected = TRUE]
    OBVIOUS
  <2>3. PICK it : it = [y EXCEPT !.pc = "negotiate"]
    OBVIOUS
  <2>4. /\ me \in ClientType /\ clients' = [clients EXCEPT ![c] = me]
        /\ it \in ConnectType /\ connects' = [connects EXCEPT ![r] = it]
    <3>1. /\ clients' = [clients EXCEPT ![c].own = b, ![c].connected = TRUE]
          /\ connects' = [connects EXCEPT ![r].pc = "negotiate"]
      BY Zenon, <1>0, <1>2, <1>9, <2>1 DEF StoreOwn, Goes
    <3> QED
      BY Zenon, <1>1, <1>2, <2>1, <2>2, <2>3, <3>1, ClientFields, ConnectFields DEF ClientInv, ClientTypeOK
  <2>5. /\ me.pc = "on" /\ me.connected /\ me.feedback = x.feedback /\ me.key = x.key
        /\ me.sid = x.sid /\ me.own = b /\ me.mixed = x.mixed
        /\ it.pc = "negotiate" /\ it.id = y.id /\ it.fb = y.fb
    BY <1>1, <1>2, <1>3, <2>2, <2>3 DEF ClientType, ConnectType
  <2>6. y.pc = "own"
    BY <1>2, <1>9 DEF StoreOwn, At
  <2>7. Moves(r, me, it)
    BY <1>0, <1>1, <1>3, <2>4, <2>5 DEF Moves, ClientInv, ClientTypeOK
  <2>8. Alone(r, me, it)
    BY <1>6, <2>5 DEF Alone
  <2>9. Opens(r, it)
    BY <1>3, SameSessions
  <2>10. ASSUME ~x.mixed
         PROVE  /\ ~x.connected /\ x.sid = y.id /\ x.feedback = y.fb /\ servers[y.fb].open
                /\ ~y.had => sessions[y.id].opened = {c}
    BY <1>0, <1>6, <2>6, <2>10 DEF Relies, BeforeConnected
  <2>11. KeepsServing(r, me, it)
    BY <1>0, <1>1, <1>2, <1>3, <1>6, <2>5, <2>10, WhereServed DEF KeepsServing, Me
  <2>12. ~me.mixed => UnmixedInv(me, c)'
    BY <1>3, <1>4, <1>5, <2>1, <2>5, <2>10 DEF ProgramInv, UnmixedInv
  <2>13. ProgramInv(me, Program(r))'
    BY <1>0, <1>3, <1>4, <2>5, <2>12 DEF ProgramInv
  <2>14. CallInv(it, r, me)'
    <3>1. ~me.mixed => Relies(it, r, me)'
      BY <1>3, <2>5 DEF Relies, BeforeConnected
    <3> QED
      BY <1>3, <1>4, <2>5, <3>1 DEF CallInv, InConnect, BeforeConnected
  <2> QED
    BY <2>4, <2>7, <2>8, <2>9, <2>11, <2>13, <2>14, OneConnect
<1> QED
  BY <1>8, <1>9

\* A fresh key: no other client and no other session has it.
LEMMA StepNegotiate ==
    ASSUME ClientInv, NEW r \in Connectors, NegotiateKey(r)
    PROVE  ClientInv'
<1> USE Numbers
<1>0. PICK c \in Clients : c = Program(r)
  BY Crew DEF ClientInv
<1>1. PICK x \in ClientType : x = clients[c]
  BY DEF ClientInv, ClientTypeOK
<1>2. PICK y \in ConnectType : y = connects[r]
  BY DEF ClientInv, ClientTypeOK
<1>3. /\ x.pc = "on" /\ y.pc = "negotiate" /\ Busy(r) /\ UNCHANGED servers
      /\ connects' = [connects EXCEPT ![r] = Idle]
  BY <1>0, <1>1, <1>2 DEF NegotiateKey, At, Me, Busy
<1>4. ProgramInv(x, c) /\ x.feedback \in Servers \cup {NoServer}
      /\ x.sid \in SessionIds \cup {NoSession}
  BY <1>1 DEF ClientInv, ClientType
<1>5. Idle \in ConnectType /\ Idle.pc = "idle" /\ Idle.id = NoSession /\ Idle.fb = NoServer
  BY <1>2, ConnectFields DEF Idle
<1>6. ~x.mixed => ~Mixes(r)
  BY <1>0, <1>1, <1>3, BusyAlone DEF Me
<1>7. CallInv(Idle, r, x)'
  BY <1>5 DEF CallInv, InConnect, BeforeConnected
<1>8. CASE ~daemon.up /\ UNCHANGED <<daemon, sessions, clients>>
  <2>1. Moves(r, x, Idle)
    BY <1>0, <1>1, <1>3, <1>5, <1>8 DEF Moves, ClientInv, ClientTypeOK
  <2>2. Alone(r, x, Idle)
    BY <1>3, <1>6 DEF Alone
  <2>3. Opens(r, Idle)
    BY <1>8, SameSessions
  <2>4. KeepsServing(r, x, Idle)
    BY <1>0, <1>1, <1>2, <1>3, <1>6, <1>8, WhereServed DEF KeepsServing, Me
  <2>5. ProgramInv(x, Program(r))'
    BY <1>0, <1>3, <1>4, <1>8 DEF ProgramInv, UnmixedInv
  <2> QED
    BY <1>5, <1>7, <2>1, <2>2, <2>3, <2>4, <2>5, OneConnect
<1>9. CASE /\ daemon.up
           /\ daemon' = [daemon EXCEPT !.keys = daemon.keys + 1]
           /\ clients' = [clients EXCEPT ![c].key = daemon.keys + 1]
           /\ sessions' = [i \in SessionIds |-> IF i = x.sid /\ sessions[i].st = "open"
                                                THEN [sessions[i] EXCEPT !.key = daemon.keys + 1]
                                                ELSE sessions[i]]
  <2>1. PICK k \in Nat : k = daemon.keys + 1 /\ daemon.keys \in Nat
    BY DEF ClientInv, ClientTypeOK
  <2>2. PICK me : me = [x EXCEPT !.key = k]
    OBVIOUS
  <2>3. me \in ClientType /\ clients' = [clients EXCEPT ![c] = me]
    BY Zenon, <1>1, <1>9, <2>1, <2>2, ClientFields DEF ClientInv, ClientTypeOK
  <2>4. /\ me.pc = "on" /\ me.connected = x.connected /\ me.feedback = x.feedback /\ me.key = k
        /\ me.sid = x.sid /\ me.own = x.own /\ me.mixed = x.mixed
    BY <1>1, <1>3, <2>2 DEF ClientType
  <2>5. ASSUME NEW t \in SessionIds
        PROVE  /\ sessions'[t] \in SessionType
               /\ sessions'[t].st = sessions[t].st /\ sessions'[t].url = sessions[t].url
               /\ sessions'[t].opened = sessions[t].opened
               /\ \/ sessions'[t].key = sessions[t].key
                  \/ sessions'[t].key = k /\ sessions[t].st = "open" /\ x.sid = t
    <3>1. PICK z \in SessionType : z = sessions[t]
      BY DEF ClientInv, ClientTypeOK
    <3>2. PICK n : n = [z EXCEPT !.key = k]
      OBVIOUS
    <3>3. n \in SessionType /\ n.st = z.st /\ n.url = z.url /\ n.opened = z.opened /\ n.key = k
      BY <2>1, <3>1, <3>2 DEF SessionType
    <3>4. sessions'[t] = IF t = x.sid /\ z.st = "open" THEN n ELSE z
      BY <1>9, <2>1, <3>1, <3>2
    <3> QED
      BY <3>1, <3>3, <3>4
  <2>6. daemon'.up = daemon.up /\ daemon'.keys = k
        /\ daemon' \in [up : BOOLEAN, stops : Nat, keys : Nat]
    BY <1>9, <2>1 DEF ClientInv, ClientTypeOK
  <2>7. Moves(r, me, Idle)
    BY <1>0, <1>1, <1>3, <1>5, <2>3, <2>4 DEF Moves, ClientInv, ClientTypeOK
  <2>8. Alone(r, me, Idle)
    BY <1>6, <2>4 DEF Alone
  <2>9. Opens(r, Idle)
    <3>1. sessions' \in [SessionIds -> SessionType]
      BY <1>9, <2>5
    <3>2. ASSUME NEW t \in SessionIds
          PROVE  SessionFacts(t)' /\ (sessions'[t].key \in {sessions[t].key, 0} \/ sessions'[t].key > daemon.keys)
      <4>1. SessionFacts(t) /\ sessions[t].key \in Nat
        BY DEF ClientInv, SessionInv, ClientTypeOK, SessionType
      <4>2. sessions'[t].key <= k /\ (sessions'[t].key = sessions[t].key \/ sessions'[t].key > daemon.keys)
        BY <2>1, <2>5, <4>1 DEF SessionFacts
      <4> QED
        BY <2>5, <2>6, <4>1, <4>2 DEF SessionFacts
    <3> QED
      BY <2>1, <2>5, <2>6, <3>1, <3>2 DEF Opens
  <2>10. KeepsServing(r, me, Idle)
    BY <1>0, <1>1, <1>2, <1>3, <1>6, <2>4, WhereServed DEF KeepsServing, Me
  <2>11. ~me.mixed => UnmixedInv(me, c)'
    <3>1. \A t \in SessionIds : sessions[t].key \in Nat /\ sessions[t].key <= daemon.keys
      BY DEF ClientInv, SessionInv, SessionFacts, ClientTypeOK, SessionType
    <3>2. \A t \in SessionIds : sessions'[t].key = k => x.sid = t
      BY <2>1, <2>5, <3>1
    <3> QED
      BY <1>4, <2>4, <2>5, <3>2 DEF ProgramInv, UnmixedInv
  <2>12. ProgramInv(me, Program(r))'
    BY <1>0, <1>3, <1>4, <2>1, <2>4, <2>5, <2>6, <2>11 DEF ProgramInv
  <2>13. CallInv(Idle, r, me)'
    BY <1>5 DEF CallInv, InConnect, BeforeConnected
  <2> QED
    BY <1>5, <2>7, <2>8, <2>9, <2>10, <2>12, <2>13, OneConnect
<1> QED
  BY <1>0, <1>1, <1>8, <1>9 DEF NegotiateKey, Me

\* A client starts, with no call of its own.
LEMMA StepStart ==
    ASSUME ClientInv, NEW c \in Clients, StartClient(c)
    PROVE  ClientInv'
<1> USE Numbers DEF ClientInv
<1>1. PICK s \in {NoSession} \cup {i \in SessionIds : sessions[i].st = "open"} :
          clients' = [clients EXCEPT ![c] = [Off EXCEPT !.pc = "on", !.sid = s]]
  BY Zenon DEF StartClient
<1>2. PICK me : me = [Off EXCEPT !.pc = "on", !.sid = s]
  OBVIOUS
<1>3. /\ me \in ClientType /\ me.pc = "on" /\ me.sid = s /\ ~me.own /\ ~me.connected
      /\ me.feedback = NoServer /\ me.key = 0 /\ ~me.mixed
  BY <1>2 DEF ClientType, Off
<1>4. clients[c].pc = "off" /\ UNCHANGED <<daemon, sessions, servers, connects>>
  BY Zenon DEF StartClient
<1>5. \A d \in Clients : clients'[d] = IF d = c THEN me ELSE clients[d]
  BY <1>1, <1>2 DEF ClientTypeOK
<1>6. Connectors' = Connectors
  BY <1>4 DEF Connectors
<1>7. ClientTypeOK'
  BY <1>1, <1>2, <1>3, <1>4, <1>6 DEF ClientTypeOK
<1>8. \A q \in Connectors : Program(q) = c => ~InConnect(connects[q])
  BY <1>4 DEF CallInv, Me
<1>9. \A d \in Clients : clients[d].pc = "closed" => clients'[d] = clients[d]
  BY <1>4, <1>5
<1>10. ASSUME NEW t \in SessionIds
       PROVE  SessionInv(t)'
  <2>1. SessionInv(t) /\ sessions[t].opened \subseteq Clients
    BY DEF ClientTypeOK, SessionType
  <2>2. EndedByItsOwn(t) => EndedByItsOwn(t)'
    BY <1>4, <1>9, <2>1 DEF EndedByItsOwn
  <2> QED
    BY <1>4, <2>1, <2>2 DEF SessionInv, SessionFacts
<1>11. ASSUME NEW t \in SessionIds
       PROVE  UrlInv(t)'
  <2>1. PICK v : v = sessions[t].url
    OBVIOUS
  <2>2. CASE v = NoServer
    BY <1>4, <2>1, <2>2 DEF UrlInv
  <2>3. CASE v # NoServer
    <3>1. PICK d \in Clients : d = servers[v].by /\ Serves(d, t, v)
      BY <2>1, <2>3 DEF UrlInv
    <3>2. d # c
      <4>1. ~clients[c].mixed /\ ~clients[c].connected
        BY <1>4 DEF ProgramInv, UnmixedInv
      <4>2. \A q \in Connectors : ~Stores(q, c, t, v)
        BY <1>8 DEF Stores, InConnect, BeforeConnected
      <4> QED
        BY <1>4, <3>1, <4>1, <4>2 DEF Serves
    <3>3. clients'[d] = clients[d]
      BY <1>5, <3>2
    <3>4. Serves(d, t, v)'
      BY <1>4, <1>6, <3>1, <3>3 DEF Serves, Stores
    <3> QED
      BY <1>4, <2>1, <3>1, <3>4 DEF UrlInv
  <2> QED
    BY <2>2, <2>3
<1>12. ASSUME NEW d \in Clients
       PROVE  ProgramInv(clients[d], d)' /\ OneAtATime(d)'
  <2>1. CASE d = c
    <3>1. s # NoSession => sessions[s].opened # {}
      BY DEF SessionInv, SessionFacts
    <3>2. 0 <= daemon.keys
      BY DEF ClientTypeOK
    <3>3. ProgramInv(me, c)'
      BY <1>3, <1>4, <3>1, <3>2 DEF ProgramInv, UnmixedInv
    <3>4. OneAtATime(c)'
      BY <1>4, <1>6, <1>8 DEF OneAtATime, Busy, InConnect, BeforeConnected
    <3> QED
      BY <1>5, <2>1, <3>3, <3>4
  <2>2. CASE d # c
    <3>1. clients'[d] = clients[d]
      BY <1>5, <2>2
    <3>2. ProgramInv(clients[d], d) /\ OneAtATime(d)
      OBVIOUS
    <3> QED
      BY <1>4, <1>6, <3>1, <3>2 DEF ProgramInv, UnmixedInv, OneAtATime, Busy
  <2> QED
    BY <2>1, <2>2
<1>13. ASSUME NEW q \in Connectors
       PROVE  CallInv(connects[q], q, Me(q))'
  <2>1. CallInv(connects[q], q, Me(q)) /\ Program(q) \in Clients
    BY Crew
  <2>2. InConnect(connects[q]) => Me(q)' = Me(q)
    BY <1>5, <1>8, <2>1 DEF Me
  <2> QED
    BY <1>4, <2>1, <2>2 DEF CallInv, Relies
<1> QED
  BY <1>6, <1>7, <1>10, <1>11, <1>12, <1>13

\* A program ends, and with Close finalizes the session that it made.
LEMMA StepEnd ==
    ASSUME ClientInv, NEW c \in Clients, CloseClient(c) \/ Killed(c)
    PROVE  ClientInv'
<1> USE Numbers DEF ClientInv
<1>0. PICK x \in ClientType : x = clients[c]
  BY DEF ClientTypeOK
<1>1. x.pc = "on" /\ EndProgram(c) /\ UNCHANGED daemon
  BY <1>0 DEF CloseClient, Killed, EndProgram
<1>2. PICK me : me = [x EXCEPT !.pc = "closed", !.connected = FALSE]
  OBVIOUS
<1>3. me \in ClientType
  BY Zenon, <1>0, <1>2, ClientFields
<1>4. /\ me.pc = "closed" /\ ~me.connected /\ me.sid = x.sid /\ me.own = x.own
      /\ me.key = x.key /\ me.feedback = x.feedback /\ me.mixed = x.mixed
  BY <1>0, <1>2 DEF ClientType
<1>5. \A d \in Clients : clients'[d] = IF d = c THEN me ELSE clients[d]
  BY <1>0, <1>1, <1>2 DEF EndProgram, ClientTypeOK
<1>6. Connectors' = Connectors
      /\ \A q \in Connectors : connects'[q] = IF Program(q) = c THEN Idle ELSE connects[q]
  BY <1>1 DEF EndProgram, Connectors
<1>7. ASSUME NEW v \in Servers
      PROVE  /\ servers'[v] \in ServerType /\ servers'[v].by = servers[v].by
             /\ servers[v].by # c => servers'[v] = servers[v]
  <2>1. PICK z \in ServerType : z = servers[v]
    BY DEF ClientTypeOK
  <2>2. [z EXCEPT !.open = FALSE] \in ServerType /\ [z EXCEPT !.open = FALSE].by = z.by
    BY DEF ServerType
  <2>3. servers'[v] = IF z.by = c THEN [z EXCEPT !.open = FALSE] ELSE z
    BY <1>1, <2>1 DEF EndProgram
  <2> QED
    BY <2>1, <2>2, <2>3
<1>8. ASSUME NEW t \in SessionIds
      PROVE  /\ sessions'[t] \in SessionType
             /\ sessions'[t].url = sessions[t].url /\ sessions'[t].opened = sessions[t].opened
             /\ \/ sessions'[t] = sessions[t]
                \/ /\ t = x.sid /\ x.own /\ daemon.up /\ sessions[t].st = "open"
                   /\ sessions'[t].st = "finalized" /\ sessions'[t].key = 0
  <2>1. PICK z \in SessionType : z = sessions[t]
    BY DEF ClientTypeOK
  <2>2. PICK n : n = [z EXCEPT !.st = "finalized", !.key = 0]
    OBVIOUS
  <2>3. n \in SessionType /\ n.st = "finalized" /\ n.key = 0 /\ n.url = z.url /\ n.opened = z.opened
    BY <2>1, <2>2 DEF SessionType
  <2>4. CASE sessions' = sessions
    BY <2>1, <2>4
  <2>5. CASE sessions' = FinalizeSession(c)
    <3>1. sessions'[t] = IF t = x.sid /\ x.own /\ Exists(t) /\ z.st = "open" THEN n ELSE z
      BY <1>0, <2>1, <2>2, <2>5 DEF FinalizeSession
    <3> QED
      BY <2>1, <2>3, <3>1 DEF Exists
  <2> QED
    BY <2>4, <2>5 DEF CloseClient, Killed
<1>9. ClientTypeOK'
  <2>1. clients' \in [Clients -> ClientType]
    BY <1>1, <1>3, <1>5 DEF EndProgram, ClientTypeOK
  <2>2. sessions' \in [SessionIds -> SessionType]
    <3>1. sessions' = FinalizeSession(c) \/ sessions' = sessions
      BY DEF CloseClient, Killed
    <3> QED
      BY <1>8, <3>1 DEF FinalizeSession, ClientTypeOK
  <2>3. servers' \in [Servers -> ServerType]
    BY <1>1, <1>7 DEF EndProgram
  <2>4. connects' \in [Connectors -> ConnectType]
    <3>1. Idle \in ConnectType
      BY DEF ConnectType, Idle
    <3> QED
      BY <1>1, <3>1 DEF EndProgram, ClientTypeOK
  <2> QED
    BY <1>1, <1>6, <2>1, <2>2, <2>3, <2>4 DEF ClientTypeOK
<1>10. \A q \in Connectors : Program(q) # c => connects'[q] = connects[q]
  BY <1>6
<1>11. \A q \in Connectors : Program(q) = c => ~InConnect(connects'[q])
  BY <1>6 DEF InConnect, BeforeConnected, Idle
<1>12. ASSUME NEW t \in SessionIds
       PROVE  SessionInv(t)'
  <2>1. SessionInv(t) /\ sessions[t].opened \subseteq Clients
    BY DEF ClientTypeOK, SessionType
  <2>2. \A d \in Clients : clients[d].pc = "closed" => clients'[d] = clients[d]
    BY <1>0, <1>1, <1>5
  <2>3. CASE sessions'[t] = sessions[t]
    <3>1. EndedByItsOwn(t) => EndedByItsOwn(t)'
      BY <2>1, <2>2, <2>3 DEF EndedByItsOwn
    <3> QED
      BY <1>1, <2>1, <2>3, <3>1 DEF SessionInv, SessionFacts
  <2>4. CASE /\ t = x.sid /\ x.own /\ daemon.up /\ sessions[t].st = "open"
             /\ sessions'[t].st = "finalized" /\ sessions'[t].key = 0
    <3>1. EndedByItsOwn(t)'
      <4>1. CASE x.mixed
        BY <1>4, <1>5, <2>4, <4>1 DEF EndedByItsOwn
      <4>2. CASE ~x.mixed
        <5>1. UnmixedInv(x, c)
          BY <1>0, <4>2 DEF ProgramInv
        <5>2. sessions[t].opened = {c}
          BY <2>4, <5>1 DEF UnmixedInv
        <5> QED
          BY <1>4, <1>5, <1>8, <5>2 DEF EndedByItsOwn
      <4> QED
        BY <4>1, <4>2
    <3>2. SessionFacts(t)'
      <4>1. daemon.keys \in Nat /\ sessions'[t].opened = sessions[t].opened
        BY <1>8 DEF ClientTypeOK
      <4> QED
        BY <1>1, <2>1, <2>4, <4>1 DEF SessionInv, SessionFacts
    <3> QED
      BY <3>1, <3>2 DEF SessionInv
  <2> QED
    BY <1>8, <2>3, <2>4
<1>13. ASSUME NEW t \in SessionIds
       PROVE  UrlInv(t)'
  <2>1. PICK v \in Servers \cup {NoServer} : v = sessions[t].url /\ sessions'[t].url = v
    BY <1>8 DEF ClientTypeOK, SessionType
  <2>2. CASE v = NoServer
    BY <2>1, <2>2 DEF UrlInv
  <2>3. CASE v # NoServer
    <3>1. PICK d \in Clients : d = servers[v].by /\ Serves(d, t, v) /\ servers'[v].by = d
      BY <1>7, <2>1, <2>3 DEF UrlInv
    <3>2. Serves(d, t, v)'
      <4>1. CASE d = c
        BY <1>4, <1>5, <4>1 DEF Serves
      <4>2. CASE d # c
        <5>1. clients'[d] = clients[d] /\ servers'[v] = servers[v]
          BY <1>5, <1>7, <2>3, <3>1, <4>2
        <5>2. \A q \in Connectors : Stores(q, d, t, v) => Stores(q, d, t, v)'
          BY <1>10, <4>2 DEF Stores
        <5> QED
          BY <1>6, <3>1, <5>1, <5>2 DEF Serves
      <4> QED
        BY <4>1, <4>2
    <3> QED
      BY <2>1, <3>1, <3>2 DEF UrlInv
  <2> QED
    BY <2>2, <2>3
<1>14. ASSUME NEW d \in Clients
       PROVE  ProgramInv(clients[d], d)'
  <2>1. PICK w \in ClientType : w = clients[d]
    BY DEF ClientTypeOK
  <2>2. PICK n : n = clients'[d] /\ (d # c => n = w) /\ (d = c => w = x /\ n = me)
    BY <1>0, <1>5, <2>1
  <2>3. /\ ProgramInv(w, d) /\ w.sid \in SessionIds \cup {NoSession}
        /\ w.feedback \in Servers \cup {NoServer}
        /\ n.sid = w.sid /\ n.own = w.own /\ n.key = w.key /\ n.feedback = w.feedback
        /\ n.mixed = w.mixed /\ (n.connected => w.connected /\ n.pc = w.pc)
        /\ (n.pc = "off" => w.pc = "off")
    BY <1>4, <2>1, <2>2 DEF ClientType
  <2>4. ~n.mixed => UnmixedInv(n, d)'
    <3>1. SUFFICES ASSUME ~n.mixed PROVE UnmixedInv(n, d)'
      OBVIOUS
    <3>2. UnmixedInv(w, d)
      BY <2>3, <3>1 DEF ProgramInv
    <3>3. ASSUME n.key # 0, NEW t \in SessionIds, sessions'[t].key = n.key
          PROVE  n.sid = t
      BY <1>8, <2>3, <3>2, <3>3 DEF UnmixedInv
    <3> QED
      BY <1>8, <2>3, <3>2, <3>3 DEF UnmixedInv
  <2>5. ProgramInv(n, d)'
    <3>1. n.feedback # NoServer => servers'[n.feedback].by = d
      BY <1>7, <2>3 DEF ProgramInv
    <3> QED
      BY <1>1, <1>8, <2>3, <2>4, <3>1 DEF ProgramInv
  <2> QED
    BY <2>2, <2>5
<1>15. ASSUME NEW d \in Clients
       PROVE  OneAtATime(d)'
  <2>1. CASE d = c
    BY <1>6, <1>11, <2>1 DEF OneAtATime, Busy, InConnect, BeforeConnected
  <2>2. CASE d # c
    BY <1>5, <1>6, <1>10, <2>2 DEF OneAtATime, Busy
  <2> QED
    BY <2>1, <2>2
<1>16. ASSUME NEW q \in Connectors
       PROVE  CallInv(connects[q], q, Me(q))'
  <2>1. CASE Program(q) = c
    <3>1. connects'[q] = Idle
      BY <1>6, <2>1
    <3> QED
      BY <3>1 DEF CallInv, InConnect, BeforeConnected, Idle
  <2>2. CASE Program(q) # c
    <3>1. PICK y \in ConnectType : y = connects[q] /\ connects'[q] = y
      BY <1>10, <2>2 DEF ClientTypeOK
    <3>2. Program(q) \in Clients /\ Me(q)' = Me(q)
      BY <1>5, <2>2, Crew DEF Me
    <3>3. CallInv(y, q, Me(q)) /\ y.id \in SessionIds \cup {NoSession} /\ y.fb \in Servers \cup {NoServer}
      BY <3>1 DEF ConnectType
    <3>4. y.fb # NoServer => servers'[y.fb] = servers[y.fb]
      BY <1>7, <2>2, <3>3 DEF CallInv
    <3>5. y.id # NoSession => sessions'[y.id].opened = sessions[y.id].opened
      BY <1>8, <3>3
    <3>6. InConnect(y) /\ ~Me(q).mixed => Relies(y, q, Me(q))'
      BY <3>2, <3>3, <3>4, <3>5 DEF CallInv, Relies
    <3>7. CallInv(y, q, Me(q))'
      BY <3>2, <3>3, <3>4, <3>5, <3>6 DEF CallInv
    <3> QED
      BY <3>1, <3>7
  <2> QED
    BY <2>1, <2>2
<1> QED
  BY <1>6, <1>9, <1>12, <1>13, <1>14, <1>15, <1>16

\* The daemon goes down, and its sessions with it; a client may still be at one.
LEMMA StepDaemon ==
    ASSUME ClientInv, DaemonStops \/ DaemonStarts
    PROVE  ClientInv'
<1> USE Numbers DEF ClientInv
<1>0. UNCHANGED <<servers, clients, connects>> /\ Connectors' = Connectors
  BY DEF DaemonStops, DaemonStarts, Connectors
<1>1. /\ daemon' \in [up : BOOLEAN, stops : Nat, keys : Nat] /\ daemon'.keys = daemon.keys
      /\ daemon.keys \in Nat
  <2>1. daemon \in [up : BOOLEAN, stops : Nat, keys : Nat] /\ daemon.stops + 1 \in Nat
    BY DEF ClientTypeOK
  <2>2. \/ daemon' = [daemon EXCEPT !.up = FALSE, !.stops = daemon.stops + 1]
        \/ daemon' = [daemon EXCEPT !.up = TRUE]
    BY Zenon DEF DaemonStops, DaemonStarts
  <2> QED
    BY <2>1, <2>2
<1>2. \A s \in SessionIds :
         /\ sessions'[s] \in SessionType /\ sessions'[s].opened = sessions[s].opened
         /\ \/ sessions'[s] = sessions[s] /\ daemon'.up
            \/ sessions'[s].st = "none" /\ sessions'[s].url = NoServer /\ sessions'[s].key = 0
  <2>1. CASE DaemonStops
    BY ZenonT(60), <2>1 DEF DaemonStops, ClientTypeOK, SessionType
  <2>2. CASE DaemonStarts
    BY <2>2 DEF DaemonStarts, ClientTypeOK
  <2> QED
    BY <2>1, <2>2
<1>3. ClientTypeOK'
  <2>1. DOMAIN sessions' = SessionIds /\ sessions' = [s \in SessionIds |-> sessions'[s]]
    BY DEF DaemonStops, DaemonStarts, ClientTypeOK
  <2> QED
    BY <1>0, <1>1, <1>2, <2>1 DEF ClientTypeOK
<1>4. ASSUME NEW s \in SessionIds
      PROVE  SessionInv(s)' /\ UrlInv(s)'
  <2>1. SessionInv(s) /\ UrlInv(s)
    OBVIOUS
  <2>2. CASE sessions'[s] = sessions[s] /\ daemon'.up
    BY <1>0, <1>1, <2>1, <2>2 DEF SessionInv, SessionFacts, UrlInv, EndedByItsOwn, Serves, Stores
  <2>3. CASE sessions'[s].st = "none" /\ sessions'[s].url = NoServer /\ sessions'[s].key = 0
    BY <1>1, <2>3 DEF SessionInv, SessionFacts, UrlInv
  <2> QED
    BY <1>2, <2>2, <2>3
<1>5. ASSUME NEW c \in Clients
      PROVE  ProgramInv(clients[c], c)' /\ OneAtATime(c)'
  <2>1. PICK w \in ClientType : w = clients[c] /\ clients'[c] = w
    BY <1>0 DEF ClientTypeOK
  <2>2. ProgramInv(w, c) /\ w.sid \in SessionIds \cup {NoSession} /\ w.feedback \in Servers \cup {NoServer}
    BY <2>1 DEF ClientType
  <2>3. ~w.mixed => UnmixedInv(w, c)'
    BY <1>2, <2>2 DEF ProgramInv, UnmixedInv
  <2>4. ProgramInv(w, c)'
    BY <1>0, <1>1, <1>2, <2>2, <2>3 DEF ProgramInv
  <2>5. OneAtATime(c)'
    BY <1>0 DEF OneAtATime, Busy
  <2> QED
    BY <2>1, <2>4, <2>5
<1>6. ASSUME NEW q \in Connectors
      PROVE  CallInv(connects[q], q, Me(q))'
  <2>1. PICK y \in ConnectType : y = connects[q] /\ connects'[q] = y /\ Me(q)' = Me(q)
    BY <1>0 DEF ClientTypeOK, Me
  <2>2. CallInv(y, q, Me(q)) /\ y.id \in SessionIds \cup {NoSession}
    BY <2>1 DEF ConnectType
  <2>3. CallInv(y, q, Me(q))'
    BY <1>0, <1>2, <2>1, <2>2 DEF CallInv, Relies
  <2> QED
    BY <2>1, <2>3
<1> QED
  BY <1>0, <1>3, <1>4, <1>5, <1>6

\* The invariant is inductive.
LEMMA ClientStep == ClientInv /\ [ClientNext]_clientVars => ClientInv'
<1> SUFFICES ASSUME ClientInv, [ClientNext]_clientVars
             PROVE  ClientInv'
  OBVIOUS
<1>1. CASE UNCHANGED clientVars
  BY <1>1 DEF clientVars, ClientInv, ClientTypeOK, SessionInv, SessionFacts, UrlInv, ProgramInv, UnmixedInv,
              CallInv, Relies, OneAtATime, Busy, Me, Serves, Stores, EndedByItsOwn, Connectors
<1>2. CASE ClientNext
  BY <1>2, StepDaemon, StepStart, StepEnd, StepOnlyCall, StepForgets, StepServer, StepFails, StepConnect,
     StepStore, StepNegotiate DEF ClientNext
<1> QED
  BY <1>1, <1>2

\* It holds when no client has started.
LEMMA ClientStarts == ClientInit => ClientInv
<1> SUFFICES ASSUME ClientInit
             PROVE  ClientInv
  OBVIOUS
<1> USE Numbers DEF ClientInit
<1>0. PICK crew \in Crews : connects = [r \in crew |-> Idle]
  OBVIOUS
<1>1. Connectors = crew /\ \A r \in crew : connects[r] = Idle
  BY <1>0 DEF Connectors
<1>2. ClientTypeOK
  <2>1. Idle \in ConnectType
    BY DEF ConnectType, Idle
  <2> QED
    BY <1>0, <1>1, <2>1 DEF ClientTypeOK, SessionType, ServerType, ClientType, NoSuch, Off
<1>3. \A s \in SessionIds : SessionInv(s) /\ UrlInv(s)
  BY DEF SessionInv, SessionFacts, UrlInv, NoSuch
<1>4. ASSUME NEW c \in Clients
      PROVE  ProgramInv(clients[c], c) /\ OneAtATime(c)
  <2>1. /\ clients[c].pc = "off" /\ clients[c].sid = NoSession /\ ~clients[c].own /\ ~clients[c].mixed
        /\ ~clients[c].connected /\ clients[c].feedback = NoServer /\ clients[c].key = 0
    BY DEF Off
  <2>2. daemon.keys = 0
    OBVIOUS
  <2>3. \A r \in Connectors : ~Busy(r)
    BY <1>1 DEF Busy, Idle
  <2> QED
    BY <2>1, <2>2, <2>3 DEF ProgramInv, UnmixedInv, OneAtATime
<1>5. \A r \in Connectors : CallInv(connects[r], r, Me(r))
  BY <1>1 DEF CallInv, InConnect, BeforeConnected, Idle
<1> QED
  BY <1>2, <1>3, <1>4, <1>5 DEF ClientInv

\* Clients that share sessions, however many, however nested and with however many
\* goroutines, do not finalize them for one another; prompts go to a server that runs,
\* and keys to their sessions, whenever the daemon restarts: all this but for a client
\* one of whose Connects changed what another relied on.
THEOREM ClientsShareSessionsHolds == ClientSpec => []ClientsShareSessions
<1>1. ASSUME ClientInv
      PROVE  ClientsShareSessions
  <2>1. \A s \in SessionIds : sessions[s].st = "finalized" => EndedByItsOwn(s)
    BY <1>1 DEF ClientInv, SessionInv
  <2>2. ASSUME NEW s \in SessionIds, NEW c \in Clients, ~clients[c].mixed, clients[c].connected,
               sessions[s].url # NoServer, servers[sessions[s].url].by = c
        PROVE  servers[sessions[s].url].open /\ clients[c].feedback = sessions[s].url
    <3>1. clients[c].pc = "on"
      BY <1>1, <2>2 DEF ClientInv, ProgramInv, UnmixedInv
    <3>2. Serves(c, s, sessions[s].url)
      BY <1>1, <2>2 DEF ClientInv, UrlInv
    <3>3. \A q \in Connectors : ~Stores(q, c, s, sessions[s].url)
      BY <1>1, <2>2 DEF ClientInv, CallInv, Relies, InConnect, BeforeConnected, Stores, Me
    <3> QED
      BY <2>2, <3>1, <3>2, <3>3 DEF Serves
  <2>3. ASSUME NEW s \in SessionIds, NEW c \in Clients, ~clients[c].mixed,
               sessions[s].key # 0, clients[c].key = sessions[s].key
        PROVE  clients[c].sid = s
    BY <1>1, <2>3 DEF ClientInv, ProgramInv, UnmixedInv
  <2> QED
    BY <2>1, <2>2, <2>3 DEF ClientsShareSessions
<1> QED
  BY <1>1, ClientStarts, ClientStep, PTL DEF ClientSpec

-------------------------------------------------------------------------------
(* Mcp.                                                                    *)

RequestType ==
    [tool : {"other", "script_run", "exec_run", "apps", "submit"},
     st : {"none", "sent", "running", "prompting", "password", "answered"},
     for : Requests \cup {Nobody}, prompt : Prompts \cup {Nobody}, password : Requests \cup {Nobody},
     used : Requests \cup {Nobody}, answer : {"none", "done", "error", "ok"}]
PromptType ==
    [st : {"none", "waiting", "returned", "cancelled"}, call : Requests \cup {Nobody},
     kind : PromptKinds \cup {"input"}, said : Sayings \cup {"none"}, got : Sayings \cup {"none"},
     value : {"none", "given", "permission denied", "false", "internal error", "-1", "canceled",
              "unavailable"}]
StdinLines == [kind : {"call"}, n : Requests] \cup [kind : {"answer"}, n : Prompts]

\* Of a prompt ask, with number p: what the property says, and that its answer is on a
\* line only once the user has said it, and can still be received while it waits.
PromptInv(ask, p) ==
    /\ ask.got \in {"none", ask.said}
    /\ ask.st = "none" => ask.said = "none"
    /\ ask.said = "none" => StdinLine("answer", p) \notin Range(stdin)
    /\ ask.st = "waiting" /\ ask.got = "none" =>
           p \in pending /\ (ask.said = "none" \/ StdinLine("answer", p) \in Range(stdin))
    /\ ask.value = "given" => ask.said \in {"yes", "unknown"}
\* Each call is on one line at most, and has not begun.
LineInv ==
    \A i \in 1 .. Len(stdin) : stdin[i].kind = "call" =>
        /\ calls[stdin[i].n].st = "sent"
        /\ \A j \in 1 .. Len(stdin) : stdin[j] = stdin[i] => j = i
\* A password that a call has or has used was submitted for it, and accepted; so its
\* submission is over and not accepted for another.
PasswordInv ==
    \A r, s \in Requests : s \in {calls[r].password, calls[r].used} =>
        /\ calls[s].for \in {Nobody, r} /\ calls[s].answer = "ok"
        /\ \A q \in Requests \ {r} : s \notin {calls[q].password, calls[q].used}
OkInv == \A r \in Requests : calls[r].answer = "ok" => calls[r].st = "answered"
CallsInv == calls \in [Requests -> RequestType] /\ OkInv /\ PasswordInv
PromptsInv == prompts \in [Prompts -> PromptType] /\ \A p \in Prompts : PromptInv(prompts[p], p)
McpInv ==
    /\ stdin \in Seq(StdinLines) /\ pending \subseteq Prompts
    /\ CallsInv /\ PromptsInv /\ LineInv

\* Zero stands for nobody.
LEMMA Askers == Nobody \notin Requests /\ Nobody \notin Prompts
BY DEF Nobody, Requests, Prompts

\* Writing adds a line at the end.
LEMMA LinesAppend ==
    ASSUME stdin \in Seq(StdinLines), NEW line \in StdinLines, stdin' = Append(stdin, line)
    PROVE  /\ stdin' \in Seq(StdinLines)
           /\ Len(stdin') = Len(stdin) + 1 /\ stdin'[Len(stdin) + 1] = line
           /\ \A i \in 1 .. Len(stdin) : i \in 1 .. Len(stdin') /\ stdin'[i] = stdin[i]
           /\ Range(stdin') = Range(stdin) \cup {line}
<1>1. /\ stdin' \in Seq(StdinLines)
      /\ Len(stdin') = Len(stdin) + 1 /\ stdin'[Len(stdin) + 1] = line
      /\ \A i \in 1 .. Len(stdin) : i \in 1 .. Len(stdin') /\ stdin'[i] = stdin[i]
  OBVIOUS
<1>2. Range(stdin') = Range(stdin) \cup {line}
  BY <1>1 DEF Range
<1> QED
  BY <1>1, <1>2

\* Reading takes the first line away.
LEMMA LinesTail ==
    ASSUME stdin \in Seq(StdinLines), stdin # <<>>, stdin' = Tail(stdin)
    PROVE  /\ stdin' \in Seq(StdinLines) /\ Head(stdin) \in StdinLines
           /\ Head(stdin) = stdin[1] /\ 1 \in 1 .. Len(stdin)
           /\ \A i \in 1 .. Len(stdin') : i + 1 \in 1 .. Len(stdin) /\ stdin'[i] = stdin[i + 1]
           /\ Range(stdin') \subseteq Range(stdin) /\ Head(stdin) \in Range(stdin)
           /\ \A line \in Range(stdin) : line # Head(stdin) => line \in Range(stdin')
<1>1. /\ stdin' \in Seq(StdinLines) /\ Head(stdin) \in StdinLines
      /\ Head(stdin) = stdin[1] /\ 1 \in 1 .. Len(stdin)
      /\ Len(stdin') = Len(stdin) - 1 /\ Len(stdin) \in Nat
      /\ \A i \in 1 .. Len(stdin') : i + 1 \in 1 .. Len(stdin) /\ stdin'[i] = stdin[i + 1]
  OBVIOUS
<1>2. ASSUME NEW line \in Range(stdin), line # Head(stdin)
      PROVE  line \in Range(stdin')
  <2>1. PICK i \in 1 .. Len(stdin) : line = stdin[i]
    BY <1>2 DEF Range
  <2>2. i - 1 \in 1 .. Len(stdin') /\ stdin'[i - 1] = line
    BY <1>1, <1>2, <2>1
  <2>3. PICK j \in 1 .. Len(stdin') : stdin'[j] = line
    BY <2>2
  <2>4. DOMAIN stdin' = 1 .. Len(stdin')
    BY <1>1
  <2> QED
    BY <2>3, <2>4 DEF Range
<1>3. Range(stdin') \subseteq Range(stdin) /\ Head(stdin) \in Range(stdin)
  BY <1>1 DEF Range
<1> QED
  BY <1>1, <1>2, <1>3

\* What a step that changes prompt p leaves alone.
KeepsLines(p) ==
    \A q \in Prompts \ {p} :
        /\ q \in pending => q \in pending'
        /\ StdinLine("answer", q) \in Range(stdin) <=> StdinLine("answer", q) \in Range(stdin')

\* A step that changes one prompt, p, to ask, keeps the others' part.
LEMMA OneAsk ==
    ASSUME PromptsInv, NEW p, NEW ask, p \in Prompts => ask \in PromptType /\ PromptInv(ask, p)',
           prompts' = [prompts EXCEPT ![p] = ask], KeepsLines(p)
    PROVE  PromptsInv'
<1>1. \A q \in Prompts : prompts'[q] = IF q = p THEN ask ELSE prompts[q]
  BY DEF PromptsInv
<1>2. prompts' \in [Prompts -> PromptType]
  BY DEF PromptsInv
<1>3. ASSUME NEW q \in Prompts
      PROVE  PromptInv(prompts[q], q)'
  <2>1. CASE q = p
    BY <2>1, <1>1
  <2>2. CASE q # p
    <3>1. PromptInv(prompts[q], q)
      BY DEF PromptsInv
    <3>2. PICK x : x = prompts[q]
      OBVIOUS
    <3>3. PromptInv(x, q)'
      BY <2>2, <3>1, <3>2 DEF PromptInv, KeepsLines
    <3> QED
      BY <2>2, <3>2, <3>3, <1>1
  <2> QED
    BY <2>1, <2>2
<1> QED
  BY <1>2, <1>3 DEF PromptsInv

\* So does one that changes none.
LEMMA PromptsKept ==
    ASSUME PromptsInv, UNCHANGED prompts, KeepsLines(Nobody)
    PROVE  PromptsInv'
BY Askers DEF PromptsInv, PromptInv, KeepsLines

\* A step that changes one call, r, to call, without a new password, keeps theirs.
LEMMA OneCall ==
    ASSUME CallsInv, NEW r \in Requests, NEW call \in RequestType,
           calls' = [calls EXCEPT ![r] = call],
           call.answer = "ok" => call.st = "answered",
           calls[r].answer = "ok" => call.answer = "ok" /\ call.for = calls[r].for,
           {call.password, call.used} \subseteq {calls[r].password, calls[r].used, Nobody}
    PROVE  CallsInv'
<1>1. \A q \in Requests : calls'[q] = IF q = r THEN call ELSE calls[q]
  BY DEF CallsInv
<1>2. calls' \in [Requests -> RequestType] /\ OkInv'
  BY <1>1 DEF CallsInv, OkInv
<1>3. \A q, s \in Requests : s \in {calls'[q].password, calls'[q].used} =>
          s \in {calls[q].password, calls[q].used}
  BY <1>1, Askers
<1>4. \A s \in Requests : calls[s].answer = "ok" =>
          calls'[s].answer = "ok" /\ calls'[s].for = calls[s].for
  BY <1>1
<1>5. PasswordInv'
  BY <1>3, <1>4 DEF CallsInv, PasswordInv
<1> QED
  BY <1>2, <1>5 DEF CallsInv

\* Such a step leaves the lines alone, or is of a call that is on none.
LEMMA LinesKept ==
    ASSUME CallsInv, LineInv, NEW r \in Requests, NEW call, calls[r].st # "sent",
           calls' = [calls EXCEPT ![r] = call], stdin \in Seq(StdinLines), UNCHANGED stdin
    PROVE  LineInv'
BY DEF CallsInv, LineInv, StdinLines

\* What the steps of a call do to its fields keeps their types.
LEMMA CallFields ==
    ASSUME NEW x \in RequestType
    PROVE  /\ \A st \in {"running", "password"} : [x EXCEPT !.st = st] \in RequestType
           /\ \A answer \in {"done", "error", "ok"} :
                 [x EXCEPT !.st = "answered", !.answer = answer] \in RequestType
           /\ \A p \in Prompts : [x EXCEPT !.st = "prompting", !.prompt = p] \in RequestType
           /\ [x EXCEPT !.st = "running", !.prompt = Nobody] \in RequestType
           /\ [x EXCEPT !.st = "answered", !.used = x.password, !.password = Nobody, !.answer = "done"]
                 \in RequestType
           /\ \A s \in Requests : [x EXCEPT !.password = s] \in RequestType
BY ZenonT(60) DEF RequestType

\* The steps of a call that is running, or prompts, or waits for a password.
LEMMA StepCall ==
    ASSUME McpInv, NEW r \in Requests,
           \/ CallEnds(r) \/ PromptReturns(r) \/ PromptTimesOut(r) \/ WaitForPassword(r)
           \/ SudoExecApps(r) \/ PasswordTimesOut(r)
           \/ \E p \in NewPrompts, kind \in PromptKinds \cup {"input"} : SendRequestCtx(r, p, kind)
    PROVE  CallsInv' /\ LineInv'
<1>0. PICK x \in RequestType : x = calls[r]
  BY DEF McpInv, CallsInv
<1>1. PICK call \in RequestType :
          /\ calls' = [calls EXCEPT ![r] = call]
          /\ x.st \in {"running", "prompting", "password"} /\ call.answer # "ok"
          /\ {call.password, call.used} \subseteq {x.password, x.used, Nobody}
          /\ UNCHANGED stdin
  <2>0. x.answer # "ok" \/ x.st = "answered"
    BY <1>0 DEF McpInv, CallsInv, OkInv
  <2>1. CASE CallEnds(r)
    <3>0. PICK call : call = [x EXCEPT !.st = "answered", !.answer = "done"]
      OBVIOUS
    <3>1. calls' = [calls EXCEPT ![r] = call]
          /\ x.st = "running" /\ UNCHANGED stdin
      BY <3>0, <2>1, <1>0 DEF CallEnds, Answers
    <3>2. call \in RequestType
      BY Zenon, <3>0, CallFields
    <3>3. call.answer # "ok" /\ {call.password, call.used} \subseteq {x.password, x.used, Nobody}
      BY <3>0, <3>1, <2>0 DEF RequestType
    <3> QED
      BY <3>1, <3>2, <3>3
  <2>2. CASE PromptReturns(r) \/ PromptTimesOut(r)
    <3>0. PICK call : call = [x EXCEPT !.st = "running", !.prompt = Nobody]
      OBVIOUS
    <3>1. calls' = [calls EXCEPT ![r] = call]
          /\ x.st = "prompting" /\ UNCHANGED stdin
      BY Zenon, <3>0, <2>2, <1>0 DEF PromptReturns, PromptTimesOut
    <3>2. call \in RequestType
      BY Zenon, <3>0, CallFields
    <3>3. call.answer # "ok" /\ {call.password, call.used} \subseteq {x.password, x.used, Nobody}
      BY <3>0, <3>1, <2>0 DEF RequestType
    <3> QED
      BY <3>1, <3>2, <3>3
  <2>3. CASE WaitForPassword(r)
    <3>0. PICK call : call = [x EXCEPT !.st = "password"]
      OBVIOUS
    <3>1. calls' = [calls EXCEPT ![r] = call]
          /\ x.st = "running" /\ UNCHANGED stdin
      BY <3>0, <2>3, <1>0 DEF WaitForPassword
    <3>2. call \in RequestType
      BY Zenon, <3>0, CallFields
    <3>3. call.answer # "ok" /\ {call.password, call.used} \subseteq {x.password, x.used, Nobody}
      BY <3>0, <3>1, <2>0 DEF RequestType
    <3> QED
      BY <3>1, <3>2, <3>3
  <2>4. CASE SudoExecApps(r)
    <3>0. PICK call : call = [x EXCEPT !.st = "answered", !.used = x.password,
                                      !.password = Nobody, !.answer = "done"]
      OBVIOUS
    <3>1. calls' = [calls EXCEPT ![r] = call]
          /\ x.st = "password" /\ UNCHANGED stdin
      BY Zenon, <3>0, <2>4, <1>0 DEF SudoExecApps
    <3>2. call \in RequestType
      BY Zenon, <3>0, CallFields
    <3>3. call.answer # "ok" /\ {call.password, call.used} \subseteq {x.password, x.used, Nobody}
      BY <3>0, <3>1, <2>0 DEF RequestType
    <3> QED
      BY <3>1, <3>2, <3>3
  <2>5. CASE PasswordTimesOut(r)
    <3>0. PICK call : call = [x EXCEPT !.st = "answered", !.answer = "error"]
      OBVIOUS
    <3>1. calls' = [calls EXCEPT ![r] = call]
          /\ x.st = "password" /\ UNCHANGED stdin
      BY Zenon, <3>0, <2>5, <1>0 DEF PasswordTimesOut
    <3>2. call \in RequestType
      BY Zenon, <3>0, CallFields
    <3>3. call.answer # "ok" /\ {call.password, call.used} \subseteq {x.password, x.used, Nobody}
      BY <3>0, <3>1, <2>0 DEF RequestType
    <3> QED
      BY <3>1, <3>2, <3>3
  <2>6. CASE \E p \in NewPrompts, kind \in PromptKinds \cup {"input"} : SendRequestCtx(r, p, kind)
    <3>1. PICK p \in NewPrompts, kind \in PromptKinds \cup {"input"} : SendRequestCtx(r, p, kind)
      BY <2>6
    <3>2. PICK call : call = [x EXCEPT !.st = "prompting", !.prompt = p]
      OBVIOUS
    <3>3. calls' = [calls EXCEPT ![r] = call] /\ x.st = "running" /\ UNCHANGED stdin
      <4>1. /\ calls' = [calls EXCEPT ![r].st = "prompting", ![r].prompt = p]
            /\ calls[r].st = "running" /\ stdin' = stdin
        BY <3>1, Zenon DEF SendRequestCtx
      <4> QED
        BY Zenon, <4>1, <3>2, <1>0
    <3>4. call \in RequestType
      BY Zenon, <3>2, CallFields DEF NewPrompts
    <3>5. call.answer # "ok" /\ {call.password, call.used} \subseteq {x.password, x.used, Nobody}
      BY <3>2, <3>3, <2>0 DEF RequestType
    <3> QED
      BY <3>3, <3>4, <3>5
  <2> QED
    BY <2>1, <2>2, <2>3, <2>4, <2>5, <2>6
<1>2. x.answer # "ok"
  BY <1>0, <1>1 DEF McpInv, CallsInv, OkInv
<1>3. CallsInv'
  BY <1>0, <1>1, <1>2, OneCall DEF McpInv
<1>4. LineInv'
  BY <1>0, <1>1, LinesKept DEF McpInv
<1> QED
  BY <1>3, <1>4

\* What they do to the prompts.
LEMMA StepPrompt ==
    ASSUME McpInv, NEW r \in Requests,
           \/ PromptReturns(r) \/ PromptTimesOut(r)
           \/ \E p \in NewPrompts, kind \in PromptKinds \cup {"input"} : SendRequestCtx(r, p, kind)
    PROVE  PromptsInv' /\ pending' \subseteq Prompts
<1> USE DEF McpInv
<1>1. PromptsInv
  BY DEF McpInv
<1>2. CASE PromptReturns(r)
  <2>1. PICK p : p = calls[r].prompt
    OBVIOUS
  <2>2. PICK x : x = prompts[p]
    OBVIOUS
  <2>3. PICK ask : ask = [x EXCEPT !.st = "returned", !.value = PromptValue(x.kind, x.got)]
    OBVIOUS
  <2>4. prompts' = [prompts EXCEPT ![p] = ask] /\ x.got # "none" /\ UNCHANGED <<stdin, pending>>
    BY <1>2, <2>1, <2>2, <2>3 DEF PromptReturns
  <2>5. ASSUME p \in Prompts
        PROVE  ask \in PromptType /\ PromptInv(ask, p)'
    <3>1. x \in PromptType /\ PromptInv(x, p)
      BY <1>1, <2>2, <2>5 DEF PromptsInv
    <3>2. PromptValue(x.kind, x.got) \in {"given", "permission denied", "false", "internal error",
                                          "-1", "canceled", "unavailable"}
          /\ (PromptValue(x.kind, x.got) = "given" => x.got \in {"yes", "unknown"})
      BY DEF PromptValue, InputValue, ConfirmValue, ChooseValue, NoValue
    <3>3. /\ ask \in PromptType /\ ask.st = "returned" /\ ask.got = x.got /\ ask.said = x.said
          /\ ask.value = PromptValue(x.kind, x.got)
      BY ZenonT(60), <2>3, <3>1, <3>2 DEF PromptType
    <3> QED
      BY Zenon, <3>1, <3>2, <3>3, <2>4 DEF PromptInv
  <2> QED
    BY <1>1, <2>4, <2>5, OneAsk DEF KeepsLines
<1>3. CASE PromptTimesOut(r)
  <2>1. PICK p : p = calls[r].prompt
    OBVIOUS
  <2>2. PICK x : x = prompts[p]
    OBVIOUS
  <2>3. PICK ask : ask = [x EXCEPT !.st = "cancelled"]
    OBVIOUS
  <2>4. prompts' = [prompts EXCEPT ![p] = ask] /\ pending' = pending \ {p} /\ UNCHANGED stdin
    BY <1>3, <2>1, <2>2, <2>3 DEF PromptTimesOut
  <2>5. ASSUME p \in Prompts
        PROVE  ask \in PromptType /\ PromptInv(ask, p)'
    <3>1. x \in PromptType /\ PromptInv(x, p)
      BY <1>1, <2>2, <2>5 DEF PromptsInv
    <3>2. /\ ask \in PromptType /\ ask.st = "cancelled" /\ ask.got = x.got /\ ask.said = x.said
          /\ ask.value = x.value
      BY Zenon, <2>3, <3>1 DEF PromptType
    <3> QED
      BY <3>1, <3>2, <2>4 DEF PromptInv
  <2> QED
    BY <1>1, <2>4, <2>5, OneAsk DEF KeepsLines
<1>4. CASE \E p \in NewPrompts, kind \in PromptKinds \cup {"input"} : SendRequestCtx(r, p, kind)
  <2>1. PICK p \in NewPrompts, kind \in PromptKinds \cup {"input"} : SendRequestCtx(r, p, kind)
    BY <1>4
  <2>2. PICK x \in PromptType : x = prompts[p] /\ p \in Prompts /\ x.st = "none" /\ PromptInv(x, p)
    BY <1>1 DEF NewPrompts, PromptsInv
  <2>3. PICK ask : ask = [x EXCEPT !.st = "waiting", !.call = r, !.kind = kind]
    OBVIOUS
  <2>4. prompts' = [prompts EXCEPT ![p] = ask] /\ pending' = pending \cup {p} /\ UNCHANGED stdin
    <3>1. /\ prompts' = [prompts EXCEPT ![p].st = "waiting", ![p].call = r, ![p].kind = kind]
          /\ pending' = pending \cup {p} /\ stdin' = stdin
      BY <2>1, Zenon DEF SendRequestCtx
    <3> QED
      BY <3>1, <2>2, <2>3
  <2>5. ask \in PromptType /\ ask.said = x.said /\ ask.got = x.got /\ ask.value = x.value
        /\ ask.st = "waiting"
    BY ZenonT(60), <2>2, <2>3 DEF PromptType
  <2>6. PromptInv(ask, p)'
    BY <2>2, <2>4, <2>5 DEF PromptInv
  <2> QED
    BY <1>1, <2>2, <2>4, <2>5, <2>6, OneAsk DEF KeepsLines
<1> QED
  BY <1>2, <1>3, <1>4

\* Steps that write a line.
LEMMA StepAgent ==
    ASSUME McpInv,
           \/ \E r \in NewCalls, tool \in {"other", "script_run", "exec_run", "apps", "submit"},
                 for \in Requests \cup {Nobody} : AgentCalls(r, tool, for)
           \/ \E p \in Prompts, action \in Sayings : AgentAnswers(p, action)
    PROVE  McpInv'
<1>0. CallsInv /\ PromptsInv /\ LineInv /\ stdin \in Seq(StdinLines) /\ pending \subseteq Prompts
  BY DEF McpInv
<1>1. ASSUME NEW r \in NewCalls, NEW tool \in {"other", "script_run", "exec_run", "apps", "submit"},
             NEW for \in Requests \cup {Nobody}, AgentCalls(r, tool, for)
      PROVE  McpInv'
  <2>1. PICK call : call = [NoRequest EXCEPT !.tool = tool, !.st = "sent", !.for = for]
    OBVIOUS
  <2>2. /\ call \in RequestType /\ call.st = "sent" /\ call.answer # "ok"
        /\ call.password = Nobody /\ call.used = Nobody
    BY <2>1 DEF NoRequest, RequestType
  <2>3. r \in Requests /\ calls[r].st = "none"
    BY DEF NewCalls
  <2>4. /\ calls' = [calls EXCEPT ![r] = call] /\ UNCHANGED <<prompts, pending>>
        /\ stdin' = Append(stdin, StdinLine("call", r))
    BY Zenon, <1>1, <2>1 DEF AgentCalls
  <2>5. CallsInv'
    <3>1. calls[r].answer # "ok"
      BY <1>0, <2>3 DEF CallsInv, OkInv
    <3> QED
      BY <3>1, <2>2, <2>3, <2>4, <1>0, OneCall
  <2>6. StdinLine("call", r) \in StdinLines
    BY <2>3 DEF StdinLine, StdinLines
  <2>7. PromptsInv'
    BY <1>0, <2>4, <2>6, LinesAppend, PromptsKept DEF KeepsLines, StdinLine
  <2>8. LineInv'
    <3>1. \A i \in 1 .. Len(stdin) : stdin[i].kind = "call" => stdin[i] # StdinLine("call", r)
                                                              /\ stdin[i].n # r
      BY <1>0, <2>3 DEF LineInv, StdinLine
    <3>2. \A i \in 1 .. Len(stdin) : stdin[i] \in StdinLines
      BY <1>0
    <3>3. \A q \in Requests : q # r => calls'[q] = calls[q]
      BY <2>4, <1>0 DEF CallsInv
    <3>4. calls'[r].st = "sent"
      BY <2>2, <2>3, <2>4, <1>0 DEF CallsInv
    <3>5. StdinLine("call", r).kind = "call" /\ StdinLine("call", r).n = r
      BY DEF StdinLine
    <3>6. \A i \in 1 .. Len(stdin') : i \in 1 .. Len(stdin) \/ i = Len(stdin) + 1
      BY <1>0, <2>4, <2>6, LinesAppend
    <3>7. ASSUME NEW i \in 1 .. Len(stdin'), stdin'[i].kind = "call"
          PROVE  /\ calls'[stdin'[i].n].st = "sent"
                 /\ \A j \in 1 .. Len(stdin') : stdin'[j] = stdin'[i] => j = i
      <4>1. CASE i = Len(stdin) + 1
        BY <4>1, <3>1, <3>4, <3>5, <3>6, <3>7, <1>0, <2>4, <2>6, LinesAppend
      <4>2. CASE i \in 1 .. Len(stdin)
        <5>1. stdin[i].n \in Requests /\ stdin'[i] = stdin[i]
          BY <4>2, <3>2, <3>7, <1>0, <2>4, <2>6, LinesAppend DEF StdinLines
        <5>2. calls'[stdin'[i].n].st = "sent"
          BY <5>1, <4>2, <3>1, <3>3, <3>7, <1>0 DEF LineInv
        <5>3. ASSUME NEW j \in 1 .. Len(stdin'), stdin'[j] = stdin'[i]
              PROVE  j = i
          <6>1. CASE j \in 1 .. Len(stdin)
            BY <6>1, <5>1, <5>3, <4>2, <3>7, <1>0, <2>4, <2>6, LinesAppend DEF LineInv
          <6>2. CASE j = Len(stdin) + 1
            BY <6>2, <5>1, <5>3, <4>2, <3>1, <3>7, <1>0, <2>4, <2>6, LinesAppend
          <6> QED
            BY <6>1, <6>2, <3>6
        <5> QED
          BY <5>2, <5>3
      <4> QED
        BY <4>1, <4>2, <3>6
    <3> QED
      BY <3>7 DEF LineInv
  <2> QED
    BY <2>4, <2>5, <2>6, <2>7, <2>8, <1>0, LinesAppend DEF McpInv
<1>2. ASSUME NEW p \in Prompts, NEW action \in Sayings, AgentAnswers(p, action)
      PROVE  McpInv'
  <2>1. PICK x \in PromptType : x = prompts[p] /\ PromptInv(x, p)
    BY <1>0 DEF PromptsInv
  <2>2. PICK ask : ask = [x EXCEPT !.said = action]
    OBVIOUS
  <2>3. /\ prompts' = [prompts EXCEPT ![p] = ask] /\ UNCHANGED <<calls, pending>>
        /\ stdin' = Append(stdin, StdinLine("answer", p)) /\ x.st # "none" /\ x.said = "none"
    BY <1>2, <2>1, <2>2 DEF AgentAnswers
  <2>4. /\ ask \in PromptType /\ ask.said = action /\ ask.st = x.st /\ ask.got = x.got
        /\ ask.value = x.value
    BY Zenon, <2>1, <2>2 DEF PromptType
  <2>5. StdinLine("answer", p) \in StdinLines /\ StdinLine("answer", p).kind # "call"
    BY DEF StdinLine, StdinLines
  <2>6. PromptInv(ask, p)'
    BY <2>1, <2>3, <2>4, <2>5, <1>0, LinesAppend, McpAssumption DEF PromptInv
  <2>7. PromptsInv'
    <3>1. \A q \in Prompts \ {p} : StdinLine("answer", q) # StdinLine("answer", p)
      BY DEF StdinLine
    <3>2. KeepsLines(p)
      BY <3>1, <1>0, <2>3, <2>5, LinesAppend DEF KeepsLines
    <3> QED
      BY <3>2, <1>0, <2>3, <2>4, <2>6, OneAsk
  <2>8. LineInv'
    <3>1. \A i \in 1 .. Len(stdin') : stdin'[i].kind = "call" =>
              i \in 1 .. Len(stdin) /\ stdin'[i] = stdin[i]
      BY <1>0, <2>3, <2>5, LinesAppend
    <3> QED
      BY <3>1, <1>0, <2>3 DEF LineInv
  <2>9. CallsInv'
    BY <1>0, <2>3 DEF CallsInv, OkInv, PasswordInv
  <2> QED
    BY <2>3, <2>5, <2>7, <2>8, <2>9, <1>0, LinesAppend DEF McpInv
<1> QED
  BY <1>1, <1>2

\* Steps that read one.
LEMMA StepRead ==
    ASSUME McpInv, ReadAnswer \/ ReadCall
    PROVE  McpInv'
<1>0. CallsInv /\ PromptsInv /\ LineInv /\ stdin \in Seq(StdinLines) /\ pending \subseteq Prompts
  BY DEF McpInv
<1>1. stdin # <<>> /\ stdin' = Tail(stdin)
  BY DEF ReadAnswer, ReadCall
<1>2. CASE ReadAnswer
  <2>1. PICK p \in Prompts : p = Head(stdin).n /\ Head(stdin) = StdinLine("answer", p)
    BY <1>0, <1>1, <1>2, LinesTail DEF ReadAnswer, StdinLines, StdinLine
  <2>2. KeepsLines(p) /\ pending' \subseteq Prompts /\ Range(stdin') \subseteq Range(stdin)
    BY <1>0, <1>1, <1>2, <2>1, LinesTail DEF KeepsLines, ReadAnswer, HandleResponse, StdinLine
  <2>3. PICK x \in PromptType : x = prompts[p] /\ PromptInv(x, p)
    BY <1>0 DEF PromptsInv
  <2>4. PromptsInv'
    <3>1. CASE p \in pending
      <4>1. PICK ask : ask = [x EXCEPT !.got = x.said]
        OBVIOUS
      <4>2. prompts' = [prompts EXCEPT ![p] = ask]
        BY <1>2, <2>1, <2>3, <3>1, <4>1 DEF ReadAnswer, HandleResponse
      <4>3. ask \in PromptType /\ ask.got = x.said /\ ask.said = x.said /\ ask.value = x.value
            /\ ask.st = x.st
        BY Zenon, <2>3, <4>1 DEF PromptType
      <4>4. x.said # "none"
        BY <2>1, <2>3, <1>0, <1>1, LinesTail DEF PromptInv
      <4>5. PromptInv(ask, p)'
        BY <2>3, <4>3, <4>4 DEF PromptInv
      <4> QED
        BY <4>2, <4>3, <4>5, <2>2, <1>0, OneAsk
    <3>2. CASE p \notin pending
      <4>1. prompts' = [prompts EXCEPT ![p] = x] /\ UNCHANGED pending
        BY <1>0, <1>2, <2>1, <2>3, <3>2 DEF ReadAnswer, HandleResponse, PromptsInv
      <4>2. PromptInv(x, p)'
        BY <2>2, <2>3, <3>2, <4>1 DEF PromptInv
      <4> QED
        BY <4>1, <4>2, <2>2, <1>0, OneAsk
    <3> QED
      BY <3>1, <3>2
  <2>5. LineInv'
    BY <1>0, <1>1, <1>2, LinesTail DEF ReadAnswer, LineInv
  <2>6. CallsInv'
    BY <1>0, <1>2 DEF ReadAnswer, CallsInv, OkInv, PasswordInv
  <2> QED
    BY <2>2, <2>4, <2>5, <2>6, <1>0, <1>1, LinesTail DEF McpInv
<1>3. CASE ReadCall
  <2>1. PICK r \in Requests : r = Head(stdin).n /\ Head(stdin) = stdin[1] /\ stdin[1].kind = "call"
    BY <1>0, <1>1, <1>3, LinesTail DEF ReadCall, StdinLines
  <2>2. PICK x \in RequestType : x = calls[r]
    BY <1>0 DEF CallsInv
  <2>3. calls[r].st = "sent" /\ \A j \in 1 .. Len(stdin) : stdin[j] = stdin[1] => j = 1
    BY <1>0, <1>1, <2>1, LinesTail DEF LineInv
  <2>4. PICK call : call = [x EXCEPT !.st = "running"]
    OBVIOUS
  <2>5. calls' = [calls EXCEPT ![r] = call] /\ UNCHANGED <<prompts, pending>>
    BY <1>3, <2>1, <2>2, <2>4 DEF ReadCall
  <2>6. /\ call \in RequestType /\ call.answer = x.answer /\ call.for = x.for
        /\ call.password = x.password /\ call.used = x.used
    BY <2>2, <2>4 DEF RequestType
  <2>7. x.answer # "ok"
    BY <1>0, <2>2, <2>3 DEF CallsInv, OkInv
  <2>8. CallsInv'
    BY <2>2, <2>5, <2>6, <2>7, <1>0, OneCall
  <2>9. PromptsInv'
    <3>1. KeepsLines(Nobody)
      BY <1>0, <1>1, <2>1, <2>5, LinesTail DEF KeepsLines, StdinLine
    <3> QED
      BY <3>1, <2>5, <1>0, PromptsKept
  <2>10. LineInv'
    <3>1. \A q \in Requests : q # r => calls'[q] = calls[q]
      BY <2>5, <1>0 DEF CallsInv
    <3>2. \A i \in 1 .. Len(stdin') : stdin'[i].kind = "call" =>
              stdin'[i].n \in Requests /\ stdin'[i].n # r
      BY <1>0, <1>1, <2>1, <2>3, LinesTail DEF StdinLines
    <3> QED
      BY <3>1, <3>2, <1>0, <1>1, LinesTail DEF LineInv
  <2> QED
    BY <2>5, <2>8, <2>9, <2>10, <1>0, <1>1, LinesTail DEF McpInv
<1> QED
  BY <1>2, <1>3

\* The invariant holds of a server that has heard nothing, or has ended.
LEMMA McpStarts ==
    calls = [r \in Requests |-> NoRequest] /\ prompts = [p \in Prompts |-> NoPrompt]
    /\ stdin = <<>> /\ pending = {} => McpInv
<1> SUFFICES ASSUME calls = [r \in Requests |-> NoRequest], prompts = [p \in Prompts |-> NoPrompt],
                    stdin = <<>>, pending = {}
             PROVE  McpInv
  OBVIOUS
<1>1. CallsInv
  BY Askers DEF CallsInv, OkInv, PasswordInv, NoRequest, RequestType
<1>2. stdin \in Seq(StdinLines) /\ Range(stdin) = {} /\ LineInv
  BY DEF LineInv, Range
<1>3. PromptsInv
  BY <1>2 DEF PromptsInv, PromptInv, PromptType, NoPrompt
<1> QED
  BY <1>1, <1>2, <1>3 DEF McpInv

\* A submission is answered by what its call does with the password.
LEMMA StepSubmit ==
    ASSUME McpInv, NEW s \in Requests, SubmitPassword(s)
    PROVE  CallsInv' /\ LineInv'
<1>0. CallsInv /\ LineInv /\ stdin \in Seq(StdinLines)
  BY DEF McpInv
<1>1. PICK x \in RequestType : x = calls[s] /\ x.st = "running"
  BY <1>0 DEF CallsInv, SubmitPassword
<1>2. x.answer # "ok"
  BY <1>0, <1>1 DEF CallsInv, OkInv
<1>3. CASE calls' = [calls EXCEPT ![s].st = "answered", ![s].answer = "error"]
  <2>1. PICK call : call = [x EXCEPT !.st = "answered", !.answer = "error"]
    OBVIOUS
  <2>2. calls' = [calls EXCEPT ![s] = call] /\ UNCHANGED stdin
    BY Zenon, <1>1, <1>3, <2>1 DEF SubmitPassword
  <2>3. call \in RequestType
    BY Zenon, <2>1, CallFields
  <2>4. call.answer = "error" /\ call.password = x.password /\ call.used = x.used
    BY <2>1, <1>1 DEF RequestType
  <2> QED
    BY <1>0, <1>1, <1>2, <2>2, <2>3, <2>4, OneCall, LinesKept
<1>4. CASE \E r \in AskedFor(s) :
             /\ calls[r].password = Nobody
             /\ calls' = [calls EXCEPT ![s].st = "answered", ![s].answer = "ok", ![r].password = s]
  <2>1. PICK r \in AskedFor(s) :
            /\ calls[r].password = Nobody
            /\ calls' = [calls EXCEPT ![s].st = "answered", ![s].answer = "ok", ![r].password = s]
    BY <1>4
  <2>2. PICK y \in RequestType : y = calls[r] /\ y.st = "password" /\ r \in Requests /\ r # s
                                 /\ x.for \in {Nobody, r}
    BY <1>0, <1>1 DEF AskedFor, PendingSudo, CallsInv
  <2>3. PICK sub : sub = [x EXCEPT !.st = "answered", !.answer = "ok"]
    OBVIOUS
  <2>4. PICK call : call = [y EXCEPT !.password = s]
    OBVIOUS
  <2>5. sub \in RequestType /\ call \in RequestType
    BY Zenon, <2>3, <2>4, CallFields
  <2>6. /\ sub.st = "answered" /\ sub.answer = "ok" /\ sub.for = x.for
        /\ sub.password = x.password /\ sub.used = x.used
        /\ call.st = y.st /\ call.answer = y.answer /\ call.for = y.for
        /\ call.password = s /\ call.used = y.used
    BY <2>2, <2>3, <2>4 DEF RequestType
  <2>7. \A q \in Requests : calls'[q] = IF q = s THEN sub ELSE IF q = r THEN call ELSE calls[q]
    <3>1. PICK answered : answered = [calls EXCEPT ![s] = sub]
      OBVIOUS
    <3>2. answered = [calls EXCEPT ![s].st = "answered", ![s].answer = "ok"]
      BY <3>1, <1>1, <2>3
    <3>3. calls' = [answered EXCEPT ![r].password = s]
      BY <3>2, <2>1
    <3>4. answered \in [Requests -> RequestType] /\ answered[r] = y /\ answered[s] = sub
      BY <1>0, <2>2, <2>5, <3>1 DEF CallsInv
    <3>5. calls' = [answered EXCEPT ![r] = call]
      BY <3>3, <3>4, <2>4
    <3> QED
      BY <3>1, <3>4, <3>5, <1>0, <2>2 DEF CallsInv
  <2>8. calls' \in [Requests -> RequestType]
    BY ZenonT(60), <1>0, <2>1, <2>5, <2>7 DEF CallsInv
  <2>9. OkInv'
    BY <1>0, <2>2, <2>6, <2>7 DEF CallsInv, OkInv
  <2>10. \A q \in Requests : s \notin {calls[q].password, calls[q].used}
    BY <1>0, <1>1, <1>2 DEF CallsInv, PasswordInv
  <2>11. \A q, t \in Requests : t \in {calls'[q].password, calls'[q].used} =>
            (t = s /\ q = r) \/ (t # s /\ t \in {calls[q].password, calls[q].used})
    BY <1>1, <2>2, <2>6, <2>7, <2>10
  <2>12. \A q \in Requests : /\ calls'[q].for = calls[q].for
                             /\ calls[q].answer = "ok" => calls'[q].answer = "ok"
    BY <1>1, <2>2, <2>6, <2>7
  <2>13. PasswordInv'
    BY <1>0, <1>1, <2>2, <2>6, <2>7, <2>11, <2>12 DEF CallsInv, PasswordInv
  <2>14. LineInv'
    BY SMTT(30), <1>0, <1>1, <2>2, <2>7 DEF LineInv, StdinLines, SubmitPassword
  <2> QED
    BY <2>8, <2>9, <2>13, <2>14 DEF CallsInv
<1> QED
  BY <1>3, <1>4 DEF SubmitPassword

\* The invariant is inductive.
LEMMA McpStep == McpInv /\ [McpNext]_mcpVars => McpInv'
<1> SUFFICES ASSUME McpInv, [McpNext]_mcpVars
             PROVE  McpInv'
  OBVIOUS
<1>0. CallsInv /\ PromptsInv /\ LineInv /\ stdin \in Seq(StdinLines) /\ pending \subseteq Prompts
  BY DEF McpInv
<1>1. CASE UNCHANGED mcpVars \/ RunMCP
  <2>1. UNCHANGED <<stdin, calls, prompts, pending>>
    BY <1>1 DEF mcpVars, RunMCP
  <2>2. CallsInv' /\ LineInv'
    BY <1>0, <2>1 DEF CallsInv, OkInv, PasswordInv, LineInv
  <2>3. PromptsInv'
    BY <1>0, <2>1, PromptsKept DEF KeepsLines
  <2> QED
    BY <1>0, <2>1, <2>2, <2>3 DEF McpInv
<1>2. CASE ExitMCP
  <2>1. (calls = [r \in Requests |-> NoRequest] /\ prompts = [p \in Prompts |-> NoPrompt]
         /\ stdin = <<>> /\ pending = {})'
    BY <1>2 DEF ExitMCP
  <2> QED
    BY <2>1, McpStarts, PTL
<1>3. CASE ReadAnswer \/ ReadCall
  BY <1>3, StepRead
<1>4. CASE \/ \E r \in NewCalls, tool \in {"other", "script_run", "exec_run", "apps", "submit"},
                 for \in Requests \cup {Nobody} : AgentCalls(r, tool, for)
           \/ \E p \in Prompts, action \in Sayings : AgentAnswers(p, action)
  BY <1>4, StepAgent
<1>5. ASSUME NEW r \in Requests,
             \/ CallEnds(r) \/ WaitForPassword(r) \/ SubmitPassword(r) \/ SudoExecApps(r)
             \/ PasswordTimesOut(r)
      PROVE  McpInv'
  <2>1. UNCHANGED <<stdin, prompts, pending>>
    BY <1>5 DEF CallEnds, WaitForPassword, SubmitPassword, SudoExecApps, PasswordTimesOut
  <2>2. CallsInv' /\ LineInv'
    BY <1>5, StepCall, StepSubmit
  <2>3. PromptsInv'
    BY <1>0, <2>1, PromptsKept DEF KeepsLines
  <2> QED
    BY <1>0, <2>1, <2>2, <2>3 DEF McpInv
<1>6. ASSUME NEW r \in Requests,
             \/ PromptReturns(r) \/ PromptTimesOut(r)
             \/ \E p \in NewPrompts, kind \in PromptKinds \cup {"input"} : SendRequestCtx(r, p, kind)
      PROVE  McpInv'
  <2>1. UNCHANGED stdin
    BY Zenon, <1>6 DEF PromptReturns, PromptTimesOut, SendRequestCtx
  <2>2. CallsInv' /\ LineInv'
    BY <1>6, StepCall
  <2>3. PromptsInv' /\ pending' \subseteq Prompts
    BY <1>6, StepPrompt
  <2> QED
    BY SMTT(30), <1>0, <2>1, <2>2, <2>3 DEF McpInv
<1> QED
  BY <1>1, <1>2, <1>3, <1>4, <1>5, <1>6 DEF McpNext

\* Of any number of calls and prompts, each answer reaches its prompt and each password
\* its call, however the lines of the agent, the goroutines and the deadlines interleave.
THEOREM AnswersReachTheirCallHolds == McpSpec => []AnswersReachTheirCall
<1>1. McpInit => McpInv
  BY McpStarts DEF McpInit
<1>2. McpInv => AnswersReachTheirCall
  BY DEF McpInv, CallsInv, PromptsInv, PromptInv, PasswordInv, AnswersReachTheirCall
<1> QED
  BY <1>1, <1>2, McpStep, PTL DEF McpSpec

-------------------------------------------------------------------------------
(* Lifecycle.                                                              *)

Pcs == {"none", "starting", "loading", "running", "stopping", "closing",
        "restarted", "killed", "failed", "ended"}
BeforeClosing == {"none", "starting", "loading", "running", "stopping"}
Dead == {"restarted", "killed", "failed", "ended"}
DaemonType ==
    [pc : Pcs, http : {"new", "listening", "failed"}, err : BOOLEAN, token : BOOLEAN, loads : Int,
     alive : SUBSET Int, loading : SUBSET Int, own : SUBSET Int, supervised : SUBSET Int,
     unloading : SUBSET Int, late : SUBSET Int, restart : {"none", "sleeping", "exiting"},
     accepted : SUBSET Instances]
LifeTypeOK == daemons \in [Instances -> DaemonType]
\* The plugins that a daemon has yet to do with.
Known(d) == d.loading \cup d.supervised \cup d.unloading
\* Of one daemon: what DaemonsTakeTurns says of it, and what makes that last.  Until
\* Shutdown each living plugin is in the table, or comes into it or out of it; from then
\* on the daemon knows only of late ones.
DaemonInv(d, i) ==
    /\ d.accepted \subseteq {i}
    /\ d.pc \in BeforeClosing => d.alive \subseteq Known(d)
    /\ d.pc \in {"closing", "ended"} => d.alive \subseteq d.late
    /\ d.pc = "closing" => Known(d) \subseteq d.late
    /\ d.http = "failed" => d.err
    /\ d.pc = "none" => d.alive = {} /\ d.http = "new"
OneListens == \A i, j \in Instances : ListensOn(i) /\ ListensOn(j) => i = j
LifeInv == LifeTypeOK /\ (\A i \in Instances : DaemonInv(daemons[i], i)) /\ OneListens

\* A step that changes one daemon, to d, keeps the invariant, if d has its type and its
\* part, and does not begin to listen unless nobody does.
LEMMA OneChanges ==
    ASSUME LifeInv, NEW i \in Instances, NEW d \in DaemonType, DaemonInv(d, i),
           daemons' = [daemons EXCEPT ![i] = d],
           \/ d.http # "listening"
           \/ d.pc \in {"none"} \cup Dead
           \/ ListensOn(i)
           \/ \A j \in Instances : ~ListensOn(j)
    PROVE  LifeInv'
  <1>1. LifeTypeOK' BY DEF LifeInv, LifeTypeOK
  <1>2. \A j \in Instances : daemons'[j] = IF j = i THEN d ELSE daemons[j]
    BY DEF LifeInv, LifeTypeOK
  <1>3. (\A j \in Instances : DaemonInv(daemons[j], j))' BY <1>2 DEF LifeInv
  <1>4. OneListens' BY <1>2 DEF LifeInv, OneListens, ListensOn, Living, At_, Dead
  <1> QED BY <1>1, <1>3, <1>4 DEF LifeInv

\* A daemon that is born has all it needs.
LEMMA Birth ==
    ASSUME LifeInv, NEW i \in NewBorn
    PROVE  [daemons[i] EXCEPT !.pc = "starting"] \in DaemonType
           /\ DaemonInv([daemons[i] EXCEPT !.pc = "starting"], i)
           /\ daemons[i].http = "new" /\ i \in Instances /\ daemons[i].pc = "none"
  <1>1. i \in Instances /\ daemons[i].pc = "none" /\ daemons[i] \in DaemonType /\ DaemonInv(daemons[i], i)
    BY DEF LifeInv, LifeTypeOK, NewBorn, At_
  <1>2. daemons[i].alive = {} /\ daemons[i].http = "new" BY <1>1 DEF DaemonInv
  <1>3. [daemons[i] EXCEPT !.pc = "starting"] \in DaemonType BY <1>1 DEF DaemonType, Pcs
  <1>4. DaemonInv([daemons[i] EXCEPT !.pc = "starting"], i)
    BY <1>1, <1>2 DEF DaemonType, DaemonInv, BeforeClosing
  <1> QED BY <1>1, <1>2, <1>3, <1>4

LEMMA LifeInit == LifecycleInit => LifeInv
  BY DEF LifecycleInit, LifeInv, LifeTypeOK, DaemonType, DaemonInv, OneListens, ListensOn, Living,
         At_, NoDaemon, Pcs, BeforeClosing, Known

\* What a daemon is set to, field by field.
LEMMA FieldTypes ==
    ASSUME NEW x \in DaemonType
    PROVE  /\ \A pc \in Pcs : [x EXCEPT !.pc = pc] \in DaemonType
           /\ [x EXCEPT !.http = "listening"] \in DaemonType
           /\ [x EXCEPT !.http = "failed", !.err = TRUE] \in DaemonType
           /\ \A pc \in Pcs : [x EXCEPT !.pc = pc, !.token = TRUE] \in DaemonType
           /\ \A pc \in Pcs, S, T, U \in SUBSET Int : [x EXCEPT !.pc = pc, !.alive = S, !.supervised = T, !.late = U] \in DaemonType
           /\ \A n \in Int, S, T, U, V \in SUBSET Int : [x EXCEPT !.loads = n, !.alive = S, !.loading = T, !.own = U, !.late = V] \in DaemonType
           /\ \A S, T, U, V \in SUBSET Int : [x EXCEPT !.loading = S, !.own = T, !.supervised = U, !.alive = V] \in DaemonType
           /\ \A S, T \in SUBSET Int : [x EXCEPT !.supervised = S, !.unloading = T] \in DaemonType
           /\ \A S, T \in SUBSET Int : [x EXCEPT !.unloading = S, !.alive = T] \in DaemonType
           /\ \A S \in SUBSET Int : [x EXCEPT !.alive = S] \in DaemonType
           /\ [x EXCEPT !.restart = "sleeping"] \in DaemonType
           /\ [x EXCEPT !.restart = "exiting"] \in DaemonType
           /\ \A pc \in Pcs, S, T \in SUBSET Int, A \in SUBSET Instances : [x EXCEPT !.pc = pc, !.alive = S, !.late = T, !.accepted = A] \in DaemonType
  <1> USE DEF DaemonType
  <1>1. \A pc \in Pcs : [x EXCEPT !.pc = pc] \in DaemonType OBVIOUS
  <1>2. [x EXCEPT !.http = "listening"] \in DaemonType OBVIOUS
  <1>3. [x EXCEPT !.http = "failed", !.err = TRUE] \in DaemonType OBVIOUS
  <1>4. \A pc \in Pcs : [x EXCEPT !.pc = pc, !.token = TRUE] \in DaemonType OBVIOUS
  <1>5. \A pc \in Pcs, S, T, U \in SUBSET Int : [x EXCEPT !.pc = pc, !.alive = S, !.supervised = T, !.late = U] \in DaemonType OBVIOUS
  <1>6. \A n \in Int, S, T, U, V \in SUBSET Int : [x EXCEPT !.loads = n, !.alive = S, !.loading = T, !.own = U, !.late = V] \in DaemonType OBVIOUS
  <1>7. \A S, T, U, V \in SUBSET Int : [x EXCEPT !.loading = S, !.own = T, !.supervised = U, !.alive = V] \in DaemonType OBVIOUS
  <1>8. \A S, T \in SUBSET Int : [x EXCEPT !.supervised = S, !.unloading = T] \in DaemonType OBVIOUS
  <1>9. \A S, T \in SUBSET Int : [x EXCEPT !.unloading = S, !.alive = T] \in DaemonType OBVIOUS
  <1>10. \A S \in SUBSET Int : [x EXCEPT !.alive = S] \in DaemonType OBVIOUS
  <1>11. [x EXCEPT !.restart = "sleeping"] \in DaemonType OBVIOUS
  <1>12. [x EXCEPT !.restart = "exiting"] \in DaemonType OBVIOUS
  <1>13. \A pc \in Pcs, S, T \in SUBSET Int, A \in SUBSET Instances : [x EXCEPT !.pc = pc, !.alive = S, !.late = T, !.accepted = A] \in DaemonType OBVIOUS
  <1> HIDE DEF DaemonType
  <1> QED BY Zenon, <1>1, <1>2, <1>3, <1>4, <1>5, <1>6, <1>7, <1>8, <1>9, <1>10, <1>11, <1>12, <1>13

LEMMA LifeStep == LifeInv /\ [LifecycleNext]_daemons => LifeInv'
  <1> SUFFICES ASSUME LifeInv, [LifecycleNext]_daemons PROVE LifeInv'
    OBVIOUS
  <1>type. \A i \in Instances : daemons[i] \in DaemonType /\ DaemonInv(daemons[i], i)
    BY DEF LifeInv, LifeTypeOK
  <1>fun. daemons \in [Instances -> DaemonType] BY DEF LifeInv, LifeTypeOK
  <1>1. CASE UserStarts
    <2>1. PICK i \in NewBorn : daemons' = [daemons EXCEPT ![i].pc = "starting"] BY <1>1 DEF UserStarts
    <2>2. daemons' = [daemons EXCEPT ![i] = [daemons[i] EXCEPT !.pc = "starting"]] BY <2>1
    <2>3. [daemons[i] EXCEPT !.pc = "starting"].http # "listening" BY Birth, <1>type DEF DaemonType
    <2> QED BY <2>2, <2>3, Birth, OneChanges
  <1>2. ASSUME NEW i \in Instances,
               \/ ListenAndServe(i) \/ InitPlugins(i) \/ SelectSignal(i) \/ StartReturnsError(i)
               \/ SignalSent(i) \/ ShutdownPlugins(i) \/ CloseDaemon(i) \/ DaemonDies(i)
               \/ LaunchesPlugin(i) \/ SupervisesPlugin(i) \/ UnloadsPlugin(i) \/ StopsUnloaded(i)
               \/ PluginDies(i) \/ RelaunchesPlugin(i)
               \/ RestartRequested(i) \/ ExitsOld(i)
               \/ \E o \in Instances : PluginRequest(o, i)
        PROVE  LifeInv'
    <2> DEFINE x == daemons[i]
    <2>x. x \in DaemonType /\ DaemonInv(x, i) BY <1>type
    <2>sets. /\ x.alive \in SUBSET Int /\ x.loading \in SUBSET Int /\ x.own \in SUBSET Int
             /\ x.supervised \in SUBSET Int /\ x.unloading \in SUBSET Int /\ x.late \in SUBSET Int
             /\ x.loads \in Int
      BY <2>x DEF DaemonType
    \* It is enough that d is right and, if it listens, x did.
    <2>same. ASSUME NEW d \in DaemonType, daemons' = [daemons EXCEPT ![i] = d], DaemonInv(d, i),
                    d.http = x.http, d.pc \in {"none"} \cup Dead \/ Living(i)
             PROVE  LifeInv'
      <3>1. \/ d.http # "listening" \/ d.pc \in {"none"} \cup Dead \/ ListensOn(i)
        BY <2>same DEF ListensOn
      <3> QED BY <2>same, <3>1, OneChanges
    <2>gone. ASSUME NEW pc \in Dead, Gone(i, pc), pc = "ended" => x.pc = "closing" PROVE LifeInv'
      <3> DEFINE d == [NoDaemon EXCEPT !.pc = pc, !.alive = x.alive, !.late = x.late, !.accepted = x.accepted]
      <3>1. daemons' = [daemons EXCEPT ![i] = d] BY <2>gone DEF Gone
      <3>0. NoDaemon \in DaemonType BY DEF NoDaemon, DaemonType, Pcs
      <3>a. pc \in Pcs /\ x.accepted \in SUBSET Instances BY <2>gone, <2>x DEF Dead, Pcs, DaemonType
      <3>2. d \in DaemonType BY Zenon, <3>0, <3>a, <2>sets, FieldTypes
      <3>3. d.pc = pc /\ d.alive = x.alive /\ d.late = x.late /\ d.accepted = x.accepted /\ d.http = "new"
        BY DEF NoDaemon
      <3> HIDE DEF d
      <3>4. DaemonInv(d, i) BY <2>x, <2>gone, <3>3 DEF DaemonInv, BeforeClosing, Dead
      <3> QED BY <3>1, <3>2, <3>3, <3>4, OneChanges
    <2>pc. ASSUME NEW pc \in BeforeClosing \ {"none"}, x.pc \in BeforeClosing \ {"none"},
                  daemons' = [daemons EXCEPT ![i] = [x EXCEPT !.pc = pc]]
           PROVE  LifeInv'
      <3>0. pc \in Pcs BY <2>pc DEF BeforeClosing, Pcs
      <3>1. [x EXCEPT !.pc = pc] \in DaemonType BY Zenon, <2>x, <3>0, FieldTypes
      <3>2. DaemonInv([x EXCEPT !.pc = pc], i) /\ [x EXCEPT !.pc = pc].http = x.http
        BY <2>x, <2>pc DEF DaemonType, DaemonInv, BeforeClosing, Known
      <3>3. Living(i) BY <2>pc DEF Living, At_, BeforeClosing
      <3> QED BY <2>pc, <3>1, <3>2, <3>3, <2>same
    <2>1. CASE ListenAndServe(i)
      <3>1. CASE \E j \in Instances : ListensOn(j)
        <4> DEFINE d == [x EXCEPT !.http = "failed", !.err = TRUE]
        <4>1. daemons' = [daemons EXCEPT ![i] = d] BY <2>1, <3>1, <1>fun DEF ListenAndServe
        <4>2. d \in DaemonType BY Zenon, <2>x, FieldTypes
        <4>3. DaemonInv(d, i) /\ d.http # "listening"
          BY <2>1, <2>x DEF ListenAndServe, Living, At_, DaemonType, DaemonInv, Known
        <4> QED BY <4>1, <4>2, <4>3, OneChanges
      <3>2. CASE ~ \E j \in Instances : ListensOn(j)
        <4> DEFINE d == [x EXCEPT !.http = "listening"]
        <4>1. daemons' = [daemons EXCEPT ![i] = d] BY <2>1, <3>2, <1>fun DEF ListenAndServe
        <4>2. d \in DaemonType BY Zenon, <2>x, FieldTypes
        <4>3. DaemonInv(d, i)
          BY <2>1, <2>x DEF ListenAndServe, Living, At_, DaemonType, DaemonInv, Known
        <4> QED BY <3>2, <4>1, <4>2, <4>3, OneChanges
      <3> QED BY <3>1, <3>2
    <2>2. CASE InitPlugins(i)
      <3> DEFINE d == [x EXCEPT !.pc = "loading", !.token = TRUE]
      <3>1. daemons' = [daemons EXCEPT ![i] = d] BY <2>2, <1>fun DEF InitPlugins
      <3>0. "loading" \in Pcs BY DEF Pcs
      <3>2. d \in DaemonType BY Zenon, <2>x, <3>0, FieldTypes
      <3>3. DaemonInv(d, i) /\ d.http = x.http /\ Living(i)
        BY <2>2, <2>x DEF InitPlugins, Living, At_, DaemonType, DaemonInv, BeforeClosing, Known
      <3> QED BY <3>1, <3>2, <3>3, <2>same
    <2>3. CASE SelectSignal(i)
      <3>1. daemons' = [daemons EXCEPT ![i] = [x EXCEPT !.pc = "running"]] BY <2>3, <1>fun DEF SelectSignal
      <3> QED BY <2>3, <3>1, <2>pc DEF SelectSignal, At_, BeforeClosing
    <2>4. CASE StartReturnsError(i) BY <2>4, <2>gone DEF StartReturnsError, Dead
    <2>5. CASE SignalSent(i)
      <3>1. CASE Gone(i, "killed") BY <3>1, <2>gone DEF Dead
      <3>2. CASE At_(i, {"running"}) /\ daemons' = [daemons EXCEPT ![i].pc = AfterSignal]
        <4>1. daemons' = [daemons EXCEPT ![i] = [x EXCEPT !.pc = "stopping"]] BY <3>2, <1>fun DEF AfterSignal
        <4> QED BY <3>2, <4>1, <2>pc DEF At_, BeforeClosing
      <3> QED BY <2>5, <3>1, <3>2 DEF SignalSent
    <2>6. CASE ShutdownPlugins(i)
      <3> DEFINE S == x.alive \ x.supervised
                 L == x.loading \cup x.unloading
                 d == [x EXCEPT !.pc = "closing", !.alive = S, !.supervised = {}, !.late = L]
      <3>1. daemons' = [daemons EXCEPT ![i] = d] BY <2>6 DEF ShutdownPlugins
      <3>2. S \in SUBSET Int /\ L \in SUBSET Int /\ {} \in SUBSET Int /\ "closing" \in Pcs
        BY <2>sets DEF Pcs
      <3>3. x.alive \subseteq Known(x) /\ Living(i)
        BY <2>6, <2>x DEF ShutdownPlugins, Living, At_, DaemonInv, BeforeClosing
      <3>4. S \subseteq L BY <3>3 DEF Known
      <3>5. d \in DaemonType
        <4> HIDE DEF S, L
        <4> QED BY ZenonT(30), <2>x, <2>sets, <3>2, FieldTypes
      <3>6. /\ d.pc = "closing" /\ d.http = x.http /\ d.err = x.err /\ d.accepted = x.accepted
            /\ d.alive = S /\ d.supervised = {} /\ d.late = L
            /\ d.loading = x.loading /\ d.unloading = x.unloading
        <4> HIDE DEF S, L
        <4> QED BY <2>x DEF DaemonType
      <3> HIDE DEF d
      <3>7. DaemonInv(d, i) BY <2>x, <3>4, <3>6 DEF DaemonInv, BeforeClosing, Known
      <3> QED BY <3>1, <3>3, <3>5, <3>6, <3>7, <2>same
    <2>7. CASE CloseDaemon(i) BY <2>7, <2>gone DEF CloseDaemon, At_, Dead
    <2>8. CASE DaemonDies(i) BY <2>8, <2>gone DEF DaemonDies, Dead
    \* Of the living, the plugins that they know, and whether one more is late.
    <2>plugins. ASSUME NEW d \in DaemonType, daemons' = [daemons EXCEPT ![i] = d],
                       d.pc = x.pc, d.http = x.http, d.err = x.err, d.accepted = x.accepted,
                       x.pc # "none",
                       Living(i) \/ (d.alive \subseteq x.alive /\ d.late = x.late),
                       x.alive \subseteq Known(x) => d.alive \subseteq Known(d),
                       x.pc = "closing" /\ x.alive \subseteq x.late /\ Known(x) \subseteq x.late
                         => d.alive \subseteq d.late /\ Known(d) \subseteq d.late
                PROVE  LifeInv'
      <3>1. DaemonInv(d, i) BY <2>x, <2>plugins DEF DaemonInv, Living, At_
      <3>2. d.pc \in {"none"} \cup Dead \/ Living(i) BY <2>plugins, <2>x DEF Living, At_, Dead, DaemonType, Pcs
      <3> QED BY <2>plugins, <3>1, <3>2, <2>same
    <2>9. CASE LaunchesPlugin(i)
      <3> DEFINE p == x.loads + 1
                 A == x.alive \cup {p}
                 L == x.loading \cup {p}
                 W(own) == IF own THEN {p} ELSE x.own
                 T == IF x.pc = "closing" THEN x.late \cup {p} ELSE x.late
                 d(own) == [x EXCEPT !.loads = p, !.alive = A, !.loading = L, !.own = W(own), !.late = T]
      <3>1. PICK own \in BOOLEAN :
               /\ IF own THEN At_(i, {"loading"}) /\ x.own = {} ELSE ListensOn(i) /\ x.token
               /\ daemons' = [daemons EXCEPT ![i] = d(own)]
        BY <2>9 DEF LaunchesPlugin
      <3>2. p \in Int /\ A \in SUBSET Int /\ L \in SUBSET Int /\ W(own) \in SUBSET Int /\ T \in SUBSET Int
        BY <2>sets
      <3>3. Living(i) BY <3>1 DEF ListensOn, Living, At_
      <3>4. x.pc # "none" BY <3>3 DEF Living, At_
      <3>5. d(own) \in DaemonType
        <4> HIDE DEF p, A, L, W, T
        <4> QED BY ZenonT(30), <2>x, <2>sets, <3>2, FieldTypes
      <3>6. /\ d(own).pc = x.pc /\ d(own).http = x.http /\ d(own).err = x.err /\ d(own).accepted = x.accepted
            /\ d(own).alive = A /\ d(own).loading = L /\ d(own).late = T
            /\ d(own).supervised = x.supervised /\ d(own).unloading = x.unloading
        <4> HIDE DEF p, A, L, W, T
        <4> QED BY <2>x DEF DaemonType
      <3> HIDE DEF d
      <3>7. x.alive \subseteq Known(x) => d(own).alive \subseteq Known(d(own)) BY <3>6 DEF Known
      <3>8. x.pc = "closing" /\ x.alive \subseteq x.late /\ Known(x) \subseteq x.late
              => d(own).alive \subseteq d(own).late /\ Known(d(own)) \subseteq d(own).late
        BY <3>6 DEF Known
      <3> DEFINE e == d(own)
      <3> HIDE DEF e
      <3>9. /\ e \in DaemonType /\ daemons' = [daemons EXCEPT ![i] = e]
            /\ e.pc = x.pc /\ e.http = x.http /\ e.err = x.err /\ e.accepted = x.accepted
        BY <3>1, <3>5, <3>6 DEF e
      <3>10. x.alive \subseteq Known(x) => e.alive \subseteq Known(e) BY <3>7 DEF e
      <3>11. x.pc = "closing" /\ x.alive \subseteq x.late /\ Known(x) \subseteq x.late
              => e.alive \subseteq e.late /\ Known(e) \subseteq e.late
        BY <3>8 DEF e
      <3> QED BY <3>3, <3>4, <3>9, <3>10, <3>11, <2>plugins
    <2>10. CASE SupervisesPlugin(i)
      <3> DEFINE L(p) == x.loading \ {p}
                 W(p) == x.own \ {p}
                 S(p, ok) == IF ok THEN x.supervised \cup {p} ELSE x.supervised
                 A(p, ok) == IF ok THEN x.alive ELSE x.alive \ {p}
                 d(p, ok) == [x EXCEPT !.loading = L(p), !.own = W(p), !.supervised = S(p, ok),
                                       !.alive = A(p, ok)]
      <3>1. PICK p \in x.loading, ok \in BOOLEAN : daemons' = [daemons EXCEPT ![i] = d(p, ok)]
        BY <2>10 DEF SupervisesPlugin
      <3>2. /\ L(p) \in SUBSET Int /\ W(p) \in SUBSET Int /\ S(p, ok) \in SUBSET Int
            /\ A(p, ok) \in SUBSET Int
        BY <2>sets
      <3>3. Living(i) /\ x.pc # "none" BY <2>10 DEF SupervisesPlugin, Living, At_
      <3>5. d(p, ok) \in DaemonType
        <4> HIDE DEF L, W, S, A
        <4> QED BY ZenonT(30), <2>x, <2>sets, <3>2, FieldTypes
      <3> DEFINE e == d(p, ok)
      <3>6. /\ e.pc = x.pc /\ e.http = x.http /\ e.err = x.err /\ e.accepted = x.accepted
            /\ e.alive = A(p, ok) /\ e.loading = L(p) /\ e.late = x.late
            /\ e.supervised = S(p, ok) /\ e.unloading = x.unloading
        <4> HIDE DEF L, W, S, A
        <4> QED BY <2>x DEF DaemonType
      <3>e. daemons' = [daemons EXCEPT ![i] = e] /\ e \in DaemonType BY <3>1, <3>5
      <3> HIDE DEF e
      <3>7. x.alive \subseteq Known(x) => e.alive \subseteq Known(e) BY <3>6 DEF Known
      <3>8. x.pc = "closing" /\ x.alive \subseteq x.late /\ Known(x) \subseteq x.late
              => e.alive \subseteq e.late /\ Known(e) \subseteq e.late
        BY <3>6 DEF Known
      <3> QED BY <3>e, <3>3, <3>6, <3>7, <3>8, <2>plugins
    <2>11. CASE UnloadsPlugin(i)
      <3> DEFINE S(p) == x.supervised \ {p}
                 U(p) == x.unloading \cup {p}
                 d(p) == [x EXCEPT !.supervised = S(p), !.unloading = U(p)]
      <3>1. PICK p \in x.supervised : daemons' = [daemons EXCEPT ![i] = d(p)] BY <2>11 DEF UnloadsPlugin
      <3>2. S(p) \in SUBSET Int /\ U(p) \in SUBSET Int BY <2>sets
      <3>3. Living(i) /\ x.pc # "none" BY <2>11 DEF UnloadsPlugin, ListensOn, Living, At_
      <3> DEFINE e == d(p)
      <3>5. e \in DaemonType
        <4> HIDE DEF S, U
        <4> QED BY ZenonT(30), <2>x, <2>sets, <3>2, FieldTypes
      <3>6. /\ e.pc = x.pc /\ e.http = x.http /\ e.err = x.err /\ e.accepted = x.accepted
            /\ e.alive = x.alive /\ e.loading = x.loading /\ e.late = x.late
            /\ e.supervised = S(p) /\ e.unloading = U(p)
        <4> HIDE DEF S, U
        <4> QED BY <2>x DEF DaemonType
      <3>e. daemons' = [daemons EXCEPT ![i] = e] BY <3>1
      <3> HIDE DEF e
      <3>7. x.alive \subseteq Known(x) => e.alive \subseteq Known(e) BY <3>6 DEF Known
      <3>8. x.pc = "closing" /\ x.alive \subseteq x.late /\ Known(x) \subseteq x.late
              => e.alive \subseteq e.late /\ Known(e) \subseteq e.late
        BY <3>6 DEF Known
      <3> QED BY <3>e, <3>5, <3>3, <3>6, <3>7, <3>8, <2>plugins
    <2>12. CASE StopsUnloaded(i)
      <3> DEFINE U(p) == x.unloading \ {p}
                 A(p) == x.alive \ {p}
                 d(p) == [x EXCEPT !.unloading = U(p), !.alive = A(p)]
      <3>1. PICK p \in x.unloading : daemons' = [daemons EXCEPT ![i] = d(p)] BY <2>12 DEF StopsUnloaded
      <3>2. U(p) \in SUBSET Int /\ A(p) \in SUBSET Int BY <2>sets
      <3>3. Living(i) /\ x.pc # "none" BY <2>12 DEF StopsUnloaded, Living, At_
      <3> DEFINE e == d(p)
      <3>5. e \in DaemonType
        <4> HIDE DEF U, A
        <4> QED BY ZenonT(30), <2>x, <2>sets, <3>2, FieldTypes
      <3>6. /\ e.pc = x.pc /\ e.http = x.http /\ e.err = x.err /\ e.accepted = x.accepted
            /\ e.alive = A(p) /\ e.loading = x.loading /\ e.late = x.late
            /\ e.supervised = x.supervised /\ e.unloading = U(p)
        <4> HIDE DEF U, A
        <4> QED BY <2>x DEF DaemonType
      <3>e. daemons' = [daemons EXCEPT ![i] = e] BY <3>1
      <3> HIDE DEF e
      <3>7. x.alive \subseteq Known(x) => e.alive \subseteq Known(e) BY <3>6 DEF Known
      <3>8. x.pc = "closing" /\ x.alive \subseteq x.late /\ Known(x) \subseteq x.late
              => e.alive \subseteq e.late /\ Known(e) \subseteq e.late
        BY <3>6 DEF Known
      <3> QED BY <3>e, <3>5, <3>3, <3>6, <3>7, <3>8, <2>plugins
    <2>13. ASSUME NEW A \in SUBSET Int, daemons' = [daemons EXCEPT ![i].alive = A],
                  x.pc # "none", Living(i) \/ A \subseteq x.alive, A \subseteq x.alive \cup Known(x)
           PROVE  LifeInv'
      <3> DEFINE e == [x EXCEPT !.alive = A]
      <3>0. e \in DaemonType BY Zenon, <2>x, <2>13, FieldTypes
      <3>1. daemons' = [daemons EXCEPT ![i] = e] BY <2>13, <1>fun
      <3>2. /\ e.pc = x.pc /\ e.http = x.http /\ e.err = x.err /\ e.accepted = x.accepted
            /\ e.alive = A /\ e.loading = x.loading /\ e.late = x.late
            /\ e.supervised = x.supervised /\ e.unloading = x.unloading
        BY <2>x DEF DaemonType
      <3> HIDE DEF e
      <3>3. Known(e) = Known(x) BY <3>2 DEF Known
      <3> QED BY <2>13, <3>0, <3>1, <3>2, <3>3, <2>plugins
    <2>14. CASE PluginDies(i)
      <3>1. PICK p \in x.alive : daemons' = [daemons EXCEPT ![i].alive = x.alive \ {p}]
        BY <2>14 DEF PluginDies
      <3>2. x.pc # "none" BY <3>1, <2>x DEF DaemonInv
      <3> DEFINE A == x.alive \ {p}
      <3>3. A \in SUBSET Int /\ A \subseteq x.alive BY <2>sets
      <3>4. daemons' = [daemons EXCEPT ![i].alive = A] BY <3>1
      <3> HIDE DEF A
      <3> QED BY <2>13, <3>2, <3>3, <3>4
    <2>15. CASE RelaunchesPlugin(i)
      <3>1. PICK p \in x.supervised \cup x.unloading : daemons' = [daemons EXCEPT ![i].alive = x.alive \cup {p}]
        BY <2>15 DEF RelaunchesPlugin
      <3>2. Living(i) /\ x.pc # "none" BY <2>15 DEF RelaunchesPlugin, Living, At_
      <3> DEFINE A == x.alive \cup {p}
      <3>3. A \in SUBSET Int /\ A \subseteq x.alive \cup Known(x) BY <2>sets DEF Known
      <3>4. daemons' = [daemons EXCEPT ![i].alive = A] BY <3>1
      <3> HIDE DEF A
      <3> QED BY <2>13, <3>2, <3>3, <3>4
    <2>16. CASE RestartRequested(i)
      <3> DEFINE d == [x EXCEPT !.restart = "sleeping"]
      <3>0. d \in DaemonType BY Zenon, <2>x, FieldTypes
      <3>1. daemons' = [daemons EXCEPT ![i] = d] BY <2>16, <1>fun DEF RestartRequested
      <3>2. DaemonInv(d, i) /\ d.http = x.http /\ Living(i)
        BY <2>16, <2>x DEF RestartRequested, ListensOn, DaemonType, DaemonInv, Known
      <3> QED BY <3>0, <3>1, <3>2, <2>same
    <2>17. CASE ExitsOld(i) BY <2>17, <2>gone DEF ExitsOld, Dead
    <2>18. CASE \E o \in Instances : PluginRequest(o, i)
      <3> DEFINE d == [x EXCEPT !.accepted = x.accepted \cup {i}]
      <3>1. daemons' = [daemons EXCEPT ![i] = d] /\ Living(i)
        BY <2>18, <1>fun DEF PluginRequest, Admitted, ListensOn
      <3>2. d \in DaemonType BY <2>x DEF DaemonType
      <3>3. DaemonInv(d, i) /\ d.http = x.http BY <2>x DEF DaemonType, DaemonInv, Known
      <3> QED BY <3>1, <3>2, <3>3, <2>same
    <2> QED BY <1>2, <2>1, <2>2, <2>3, <2>4, <2>5, <2>6, <2>7, <2>8, <2>9, <2>10, <2>11, <2>12,
               <2>14, <2>15, <2>16, <2>17, <2>18
  <1>3. ASSUME NEW i \in Instances, StartsInstance(i) PROVE LifeInv'
    <2> DEFINE e == [daemons[i] EXCEPT !.restart = "exiting"]
    <2>1. e \in DaemonType /\ DaemonInv(e, i) /\ (e.http # "listening" \/ ListensOn(i))
          /\ e.http = daemons[i].http /\ e.pc = daemons[i].pc
      BY <1>3, <1>type DEF StartsInstance, DaemonInv, ListensOn, DaemonType, Known
    <2>2. CASE daemons' = [daemons EXCEPT ![i].restart = "exiting"]
      <3>1. daemons' = [daemons EXCEPT ![i] = e] BY <2>2
      <3> QED BY <2>1, <3>1, OneChanges
    <2>3. ASSUME NEW j \in NewBorn,
                 daemons' = [daemons EXCEPT ![i].restart = "exiting", ![j].pc = "starting"]
          PROVE  LifeInv'
      <3>1. i # j BY <1>3, Birth DEF StartsInstance, Living, At_, NewBorn
      <3>2. \A k \in Instances : daemons'[k] =
               IF k = j THEN [daemons[j] EXCEPT !.pc = "starting"] ELSE IF k = i THEN e ELSE daemons[k]
        BY ZenonT(60), <2>3, <3>1, Birth, <1>fun
      <3> HIDE DEF e
      <3>b. /\ [daemons[j] EXCEPT !.pc = "starting"] \in DaemonType /\ j \in Instances
            /\ DaemonInv([daemons[j] EXCEPT !.pc = "starting"], j)
            /\ [daemons[j] EXCEPT !.pc = "starting"].http = "new"
        BY Birth, <1>type DEF DaemonType
      <3>3. LifeTypeOK'
        <4>1. DOMAIN daemons' = Instances BY <2>3, <1>fun
        <4>2. \A k \in Instances : daemons'[k] \in DaemonType BY <3>2, <3>b, <2>1, <1>type
        <4>3. daemons' = [k \in DOMAIN daemons' |-> daemons'[k]] BY Zenon, <2>3, <1>fun
        <4> QED BY <4>1, <4>2, <4>3 DEF LifeTypeOK
      <3>4. (\A k \in Instances : DaemonInv(daemons[k], k))' BY <3>2, <3>b, <2>1, <1>type
      <3>5. \A k \in Instances : ListensOn(k)' => ListensOn(k)
        BY <3>2, <3>b, <2>1 DEF ListensOn, Living, At_
      <3> QED BY <3>3, <3>4, <3>5 DEF LifeInv, OneListens
    <2> QED BY <1>3, <2>2, <2>3 DEF StartsInstance
  <1>4. CASE UNCHANGED daemons BY <1>4 DEF LifeInv, LifeTypeOK, OneListens, ListensOn, Living, At_
  <1> QED BY <1>1, <1>2, <1>3, <1>4 DEF LifecycleNext

\* Whatever the number of daemons and of plugins, and in whatever order they start, are
\* restarted, signalled and die: none serves a plugin of another, none that was ended by
\* a signal (Shutdown, manager.go) leaves plugins but those that were being loaded or
\* unloaded meanwhile, and one at a time has the port.
THEOREM DaemonsTakeTurnsHolds == LifecycleSpec => []DaemonsTakeTurns
  <1>1. LifeInv => DaemonsTakeTurns
    BY DEF LifeInv, DaemonInv, OneListens, DaemonsTakeTurns
  <1> QED BY <1>1, LifeInit, LifeStep, PTL DEF LifecycleSpec

-------------------------------------------------------------------------------
(* Scripts: what is run and reported, what the registry lists, and how the *)
(* parser splits an argument.                                              *)

Steps == {StepOf(l) : l \in Lines}
Variables == {s.var : s \in Steps}
ScriptType ==
    [pc : {"idle", "run", "done", "panic"}, steps : Seq(Steps), results : Seq({"ok", "failed"}),
     exported : Seq(Variables), open : Int, allOK : BOOLEAN,
     error : {"", "parse error", "no shell", "no source", "cannot read", "steps failed"},
     client : {"", "ok", "error"}]
ExportsAreRight ==
    /\ Len(script.exported) = Cardinality(Exported)
    /\ \A i \in Exported : script.exported[Cardinality({j \in Exported : j <= i})] = script.steps[i].var
RunnerInv ==
    /\ script \in ScriptType
    /\ Len(script.results) <= Len(script.steps)
    /\ script.pc = "idle" => script = NoScript
    /\ script.pc = "run" => script.client = "" /\ script.error = ""
    /\ script.allOK => \A i \in DOMAIN script.results : script.results[i] = "ok"
    /\ script.pc = "done" => /\ script.open = 0
                             /\ script.allOK <=> script.error = ""
                             /\ script.error \in {"", "steps failed"} => Len(script.results) = Len(script.steps)
    /\ script.client = "ok" => script.pc = "done" /\ script.allOK
    /\ ExportsAreRight

LEMMA ParsedLines ==
    ASSUME NEW lines \in Seq(Lines)
    PROVE  parseScript(lines) \in Seq(Steps)
<1> DEFINE n == Len(lines)
<1> DEFINE T == Seq(Steps)
<1> DEFINE Next_(p, i) == IF lines[i].kind \in {"blank", "comment"} THEN p ELSE Append(p, StepOf(lines[i]))
<1> DEFINE step(h) ==
        [i \in 0 .. n |-> IF i = 0 THEN <<>>
                          ELSE IF lines[i].kind \in {"blank", "comment"} THEN h[i - 1]
                          ELSE Append(h[i - 1], StepOf(lines[i]))]
<1> DEFINE F == [p \in Nat \X T |-> IF p[1] \in 1 .. n THEN Next_(p[2], p[1]) ELSE p[2]]
<1>1. n \in Nat /\ \A i \in 1 .. n : StepOf(lines[i]) \in Steps
  BY DEF Steps
<1>2. ASSUME NEW p \in T, NEW i \in 1 .. n
      PROVE  Next_(p, i) \in T
  <2>1. StepOf(lines[i]) \in Steps
    BY <1>1
  <2> DEFINE x == StepOf(lines[i])
  <2> HIDE DEF x
  <2>2. Append(p, x) \in T
    BY <2>1 DEF x
  <2> QED
    BY <2>2 DEF x
<1>3. F \in [Nat \X T -> T]
  <2> SUFFICES ASSUME NEW p \in Nat \X T
               PROVE  (IF p[1] \in 1 .. n THEN Next_(p[2], p[1]) ELSE p[2]) \in T
    OBVIOUS
  <2>1. p[1] \in Nat /\ p[2] \in T
    OBVIOUS
  <2> HIDE DEF T, n, Next_
  <2> QED
    BY <1>2, <2>1
<1>4. \E h : h = step(h)
  <2>1. \E g : Recursive_(g, T, <<>>, F, n)
    <3>1. <<>> \in T
      OBVIOUS
    <3> HIDE DEF F, T, n
    <3> QED
      BY <1>1, <1>3, <3>1, Recursion
  <2>2. PICK g : Recursive_(g, T, <<>>, F, n)
    BY <2>1
  <2>3. ASSUME NEW i \in 0 .. n
        PROVE  g[i] = IF i = 0 THEN <<>> ELSE Next_(g[i - 1], i)
    <3>1. g[i] = IF i = 0 THEN <<>> ELSE F[<<i, g[i - 1]>>]
      <4> HIDE DEF F, T
      <4> QED
        BY <2>2 DEF Recursive_
    <3>2. ASSUME i # 0 PROVE F[<<i, g[i - 1]>>] = Next_(g[i - 1], i)
      <4>1. i - 1 \in 0 .. n /\ i \in Nat /\ i \in 1 .. n
        BY <1>1, <3>2
      <4>2. g[i - 1] \in T
        <5> HIDE DEF F, T
        <5> QED
          BY <2>2, <4>1 DEF Recursive_
      <4> HIDE DEF T, n, Next_
      <4> QED
        BY <4>1, <4>2
    <3> HIDE DEF F, Next_
    <3> QED
      BY <3>1, <3>2
  <2>4. g \in [0 .. n -> T]
    BY <2>2 DEF Recursive_
  <2>5. g = [i \in 0 .. n |-> IF i = 0 THEN <<>> ELSE Next_(g[i - 1], i)]
    <3> HIDE DEF T, n, Next_
    <3> QED
      BY <2>3, <2>4
  <2>6. g = step(g)
    BY Zenon, <2>5
  <2> QED
    BY <2>6
<1>5. \E h : h = step(h) /\ parseScript(lines) = h[n]
  BY <1>4 DEF parseScript
<1>6. PICK h : h = step(h) /\ parseScript(lines) = h[n]
  BY <1>5
<1>7. ASSUME NEW i \in 0 .. n PROVE h[i] = IF i = 0 THEN <<>> ELSE Next_(h[i - 1], i)
  <2>1. h[i] = step(h)[i]
    BY <1>6
  <2> QED
    BY <2>1
<1> DEFINE S == {i \in Nat : i \in 0 .. n => h[i] \in T}
<1>8. 0 \in S
  <2>1. h[0] = <<>>
    BY <1>1, <1>7
  <2>2. <<>> \in T
    OBVIOUS
  <2> HIDE DEF T, n
  <2> QED
    BY <2>1, <2>2
<1>9. ASSUME NEW k \in Nat, k \in S PROVE k + 1 \in S
  <2> SUFFICES ASSUME k + 1 \in 0 .. n PROVE h[k + 1] \in T
    OBVIOUS
  <2>1. k \in 0 .. n /\ (k + 1) - 1 = k /\ k + 1 # 0 /\ k + 1 \in 1 .. n
    BY <1>1
  <2> HIDE DEF T, n, Next_
  <2> QED
    BY <1>2, <1>7, <1>9, <2>1
<1>10. Nat \subseteq S
  <2> HIDE DEF S
  <2> QED
    BY <1>8, <1>9, SetInduction
<1>11. h[n] \in T
  BY <1>1, <1>10
<1> QED
  BY <1>6, <1>11

LEMMA NoScriptType == NoScript \in ScriptType
BY DEF NoScript, ScriptType

LEMMA ScriptChanges ==
    ASSUME NEW s \in ScriptType, NEW o \in Int
    PROVE  /\ \A x \in Seq(Steps) : [s EXCEPT !.pc = "run", !.steps = x, !.open = o] \in ScriptType
           /\ \A a \in BOOLEAN, e \in {"", "steps failed"} :
                 [s EXCEPT !.pc = "done", !.error = e, !.allOK = a, !.open = o] \in ScriptType
<1>1. ASSUME NEW x \in Seq(Steps)
      PROVE  [s EXCEPT !.pc = "run", !.steps = x, !.open = o] \in ScriptType
  BY DEF ScriptType
<1>2. ASSUME NEW a \in BOOLEAN, NEW e \in {"", "steps failed"}
      PROVE  [s EXCEPT !.pc = "done", !.error = e, !.allOK = a, !.open = o] \in ScriptType
  BY DEF ScriptType
<1> QED
  BY <1>1, <1>2

\* Before the first step.
LEMMA NothingRun ==
    ASSUME script \in ScriptType, script.results = <<>>, script.exported = <<>>
    PROVE  /\ Len(script.results) = 0 /\ Len(script.results) <= Len(script.steps)
           /\ DOMAIN script.results = {}
           /\ ExportsAreRight
<1>1. Len(<<>>) = 0 /\ DOMAIN <<>> = {}
  OBVIOUS
<1>2. Exported = {}
  BY <1>1 DEF Exported
<1>3. Cardinality({}) = 0
  BY FS_EmptySet
<1>4. ExportsAreRight
  BY <1>1, <1>2, <1>3 DEF ExportsAreRight
<1>5. script.steps \in Seq(Steps)
  BY DEF ScriptType
<1>6. Len(script.steps) \in Nat
  BY <1>5
<1> QED
  BY <1>1, <1>4, <1>6

LEMMA NothingRun_ ==
    ASSUME script' \in ScriptType, script'.results = <<>>, script'.exported = <<>>
    PROVE  /\ Len(script'.results) = 0 /\ Len(script'.results) <= Len(script'.steps)
           /\ DOMAIN script'.results = {}
           /\ ExportsAreRight'
<1>1. Len(<<>>) = 0 /\ DOMAIN <<>> = {}
  OBVIOUS
<1>2. Exported' = {}
  BY <1>1 DEF Exported
<1>3. Cardinality({}) = 0
  BY FS_EmptySet
<1>4. ExportsAreRight'
  BY <1>1, <1>2, <1>3 DEF ExportsAreRight
<1>5. script'.steps \in Seq(Steps)
  BY DEF ScriptType
<1>6. Len(script'.steps) \in Nat
  BY <1>5
<1> QED
  BY <1>1, <1>4, <1>6

\* Of Begun, which RunScript starts with.
LEMMA BegunRight ==
    ASSUME NEW steps \in Seq(Steps), script' = Begun(steps)
    PROVE  RunnerInv'
<1>1. /\ NoScript \in ScriptType /\ NoScript.results = <<>> /\ NoScript.steps = <<>>
      /\ NoScript.exported = <<>> /\ NoScript.client = "" /\ NoScript.error = "" /\ NoScript.open = 0
      /\ NoScript.allOK = TRUE
  BY DEF NoScript, ScriptType
<1> DEFINE bad == {i \in DOMAIN steps : steps[i].kind \in {"error", "panic"}}
<1>4. CASE bad = {}
  <2>1. script' = [NoScript EXCEPT !.pc = "run", !.steps = steps, !.open = 1]
    BY <1>4 DEF Begun
  <2>2. script' \in ScriptType
    <3> HIDE DEF bad
    <3>1. 1 \in Int
      OBVIOUS
    <3>2. [NoScript EXCEPT !.pc = "run", !.steps = steps, !.open = 1] \in ScriptType
      BY Zenon, <1>1, <3>1, ScriptChanges
    <3> QED
      BY <2>1, <3>2
  <2>3. /\ script'.pc = "run" /\ script'.results = <<>> /\ script'.exported = <<>> /\ script'.steps = steps
        /\ script'.client = "" /\ script'.error = ""
    BY <1>1, <2>1 DEF ScriptType
  <2> HIDE DEF bad
  <2> QED
    BY <2>2, <2>3, NothingRun_ DEF RunnerInv
<1>5. CASE bad # {} /\ steps[Min(bad)].kind = "error"
  <2>1. script' = Answer(NoScript, "parse error")
    BY <1>5 DEF Begun
  <2>2. script' \in ScriptType
    BY <1>1, <2>1 DEF ScriptType, Answer
  <2>3. /\ script'.pc = "done" /\ script'.results = <<>> /\ script'.exported = <<>> /\ script'.steps = <<>>
        /\ script'.client = "" /\ script'.error = "parse error" /\ script'.allOK = FALSE /\ script'.open = 0
    BY <1>1, <2>1 DEF ScriptType, Answer
  <2> HIDE DEF bad
  <2> QED
    BY <2>2, <2>3, NothingRun_ DEF RunnerInv
<1>6. CASE bad # {} /\ steps[Min(bad)].kind # "error"
  <2>1. script' = [NoScript EXCEPT !.pc = "panic"]
    BY <1>6 DEF Begun
  <2>2. script' \in ScriptType
    BY <1>1, <2>1 DEF ScriptType
  <2>3. /\ script'.pc = "panic" /\ script'.results = <<>> /\ script'.exported = <<>> /\ script'.steps = <<>>
        /\ script'.client = ""
    BY <1>1, <2>1 DEF ScriptType
  <2> HIDE DEF bad
  <2> QED
    BY <2>2, <2>3, NothingRun_ DEF RunnerInv
<1> QED
  BY <1>4, <1>5, <1>6

LEMMA ScriptBegins == ASSUME RunnerInv, RunScript PROVE RunnerInv'
<1> USE ScriptsAssumption
<1>1. script = NoScript /\ script \in ScriptType
  BY DEF RunnerInv, RunScript
<1>2. ASSUME NEW e \in {"no shell", "no source", "cannot read"}, script' = Answer(script, e)
      PROVE  RunnerInv'
  <2>1. script' \in ScriptType
    BY <1>1, <1>2 DEF ScriptType, Answer
  <2>2. /\ script'.pc = "done" /\ script'.results = <<>> /\ script'.exported = <<>> /\ script'.steps = <<>>
        /\ script'.client = "" /\ script'.error = e /\ script'.allOK = FALSE /\ script'.open = 0
    BY <1>1, <1>2 DEF NoScript, Answer
  <2> QED
    BY <2>1, <2>2, NothingRun_ DEF RunnerInv
<1>3. ASSUME NEW s \in Beginnings, script' = s
      PROVE  RunnerInv'
  <2>1. PICK f \in ScriptFiles, registered \in BOOLEAN :
            s = Begun(parseScript(IF registered THEN splitFrontMatter(f) ELSE f))
    BY <1>3 DEF Beginnings
  <2>2. f \in Seq(Lines)
    OBVIOUS
  <2>3. splitFrontMatter(f) \in Seq(Lines)
    <3> DEFINE first == FirstLine(f)
    <3> DEFINE ends == {i \in first + 1 .. Len(f) : IsDash(f[i])}
    <3>1. CASE ends = {}
      BY <2>2, <3>1 DEF splitFrontMatter
    <3>2. CASE ends # {}
      <4>1. first \in Nat /\ first > 0
        <5> DEFINE A == {i \in DOMAIN f : f[i].kind # "blank"} \cup {Len(f) + 1}
        <5>1. A \in SUBSET Nat /\ A # {} /\ \A i \in A : i > 0
          BY <2>2
        <5>2. \E m \in A : \A k \in A : m <= k
          <6> HIDE DEF A
          <6> QED
            BY <5>1, Least
        <5>3. first \in A
          <6> HIDE DEF A
          <6> QED
            BY <5>2 DEF FirstLine, Min, A
        <5> QED
          BY <5>1, <5>3
      <4>2. ends \in SUBSET Nat /\ \A i \in ends : i > 0 /\ i <= Len(f)
        <5> HIDE DEF first
        <5> QED
          BY <2>2, <4>1
      <4>3. Min(ends) \in ends
        <5> HIDE DEF ends
        <5>1. \E m \in ends : \A k \in ends : m <= k
          BY <3>2, <4>2, Least
        <5> QED
          BY <5>1 DEF Min
      <4> DEFINE m == Min(ends) + 1
      <4>4. m \in Nat /\ m > 0 /\ Len(f) \in Nat
        <5>1. Min(ends) \in Nat /\ Len(f) \in Nat
          <6>1. Len(f) \in Nat
            BY <2>2
          <6> HIDE DEF ends
          <6> QED
            BY <4>2, <4>3, <6>1
        <5> HIDE DEF ends
        <5> QED
          BY <5>1
      <4>5. \A i \in m .. Len(f) : f[i] \in Lines
        <5> HIDE DEF m
        <5> QED
          BY <2>2, <4>4
      <4>6. SubSeq(f, m, Len(f)) \in Seq(Lines)
        <5> HIDE DEF m
        <5> QED
          BY <4>4, <4>5, SubSeqProperties
      <4> QED
        BY <2>2, <4>6 DEF splitFrontMatter
    <3> QED
      BY <3>1, <3>2
  <2>4. parseScript(IF registered THEN splitFrontMatter(f) ELSE f) \in Seq(Steps)
    BY <2>2, <2>3, ParsedLines
  <2> QED
    BY <1>3, <2>1, <2>4, BegunRight
<1> QED
  BY <1>2, <1>3 DEF RunScript

\* A step that adds a result, and exports an answer or nothing.
LEMMA ScriptContinues ==
    ASSUME RunnerInv, script.pc = "run", Len(script.results) < Len(script.steps),
           NEW r \in {"ok", "failed"}, NEW exports \in BOOLEAN,
           exports <=> r = "ok" /\ Step.kind # "exec",
           script'.results = Append(script.results, r), script'.allOK = (script.allOK /\ r = "ok"),
           script'.exported = IF exports THEN Append(script.exported, Step.var) ELSE script.exported,
           \A f \in {"pc", "steps", "open", "error", "client"} : script'[f] = script[f],
           script' \in ScriptType
    PROVE  RunnerInv'
<1> DEFINE n == Len(script.results) + 1
<1>1. /\ script.results \in Seq({"ok", "failed"}) /\ script.steps \in Seq(Steps)
      /\ script.exported \in Seq(Variables) /\ script.allOK \in BOOLEAN
  BY DEF RunnerInv, ScriptType
<1>2. n \in Nat /\ n \in 1 .. Len(script.steps) /\ Len(script.results) \in Nat /\ Len(script.steps) \in Nat
  BY <1>1
<1>3. /\ Len(script'.results) = n /\ DOMAIN script'.results = 1 .. n
      /\ \A i \in 1 .. n - 1 : script'.results[i] = script.results[i]
      /\ script'.results[n] = r
  BY <1>1
<1>4. script.steps[n] \in Steps /\ Step.var \in Variables
  BY <1>1, <1>2 DEF Step, Variables
<1>5. DOMAIN script.results = 1 .. n - 1
  BY <1>1
<1>6. script'.steps = script.steps /\ script'.pc = "run" /\ script'.error = script.error /\ script'.client = script.client
  OBVIOUS
<1>7. Exported' = IF exports THEN Exported \cup {n} ELSE Exported
  <2>1. Exported' = {i \in 1 .. n : script'.results[i] = "ok" /\ script.steps[i].kind # "exec"}
    BY <1>3, <1>6 DEF Exported
  <2>2. Exported = {i \in 1 .. n - 1 : script.results[i] = "ok" /\ script.steps[i].kind # "exec"}
    BY <1>5 DEF Exported
  <2>3. exports <=> script'.results[n] = "ok" /\ script.steps[n].kind # "exec"
    BY <1>3 DEF Step
  <2> HIDE DEF n
  <2> QED
    BY <1>2, <1>3, <2>1, <2>2, <2>3
<1>8. Exported \subseteq 1 .. n - 1 /\ IsFiniteSet(Exported) /\ n \notin Exported
  <2>1. Exported \subseteq 1 .. n - 1
    BY <1>5 DEF Exported
  <2> HIDE DEF n
  <2>2. IsFiniteSet(1 .. n - 1)
    BY <1>2, FS_Interval
  <2>3. IsFiniteSet(Exported)
    BY <2>1, <2>2, FS_Subset
  <2>4. n \notin 1 .. n - 1
    BY <1>2
  <2> QED
    BY <2>1, <2>3, <2>4
<1>9. ExportsAreRight'
  <2>1. Len(script.exported) = Cardinality(Exported) /\ Len(script.exported) \in Nat
    <3>1. Len(script.exported) \in Nat
      BY <1>1
    <3> QED
      BY <3>1 DEF RunnerInv, ExportsAreRight
  <2>2. CASE ~exports
    <3>1. script'.exported = script.exported /\ Exported' = Exported
      BY <1>7, <2>2
    <3> QED
      BY <1>6, <3>1 DEF RunnerInv, ExportsAreRight
  <2>3. CASE exports
    <3>1. script'.exported = Append(script.exported, Step.var) /\ Exported' = Exported \cup {n}
      BY <1>7, <2>3
    <3>2. Cardinality(Exported \cup {n}) = Cardinality(Exported) + 1
      BY <1>8, FS_AddElement
    <3>3. /\ Len(script'.exported) = Len(script.exported) + 1
          /\ \A i \in 1 .. Len(script.exported) : script'.exported[i] = script.exported[i]
          /\ script'.exported[Len(script.exported) + 1] = Step.var
      BY <1>1, <1>4, <3>1
    <3> HIDE DEF n
    <3>4. ASSUME NEW i \in Exported'
          PROVE  script'.exported[Cardinality({j \in Exported' : j <= i})] = script'.steps[i].var
      <4>1. CASE i = n
        <5>1. {j \in Exported' : j <= i} = Exported \cup {n}
          <6>1. \A j \in Exported \cup {n} : j <= n
            BY <1>2, <1>8
          <6> QED
            BY <3>1, <4>1, <6>1
        <5> QED
          BY <1>6, <2>1, <3>2, <3>3, <4>1, <5>1 DEF Step, n
      <4>2. CASE i # n
        <5>1. i \in Exported
          BY <3>1, <4>2
        <5> DEFINE A == {j \in Exported : j <= i}
        <5>2. {j \in Exported' : j <= i} = A
          BY <1>2, <1>8, <3>1, <5>1
        <5>3. Cardinality(A) \in 1 .. Cardinality(Exported)
          <6>1. A \subseteq Exported /\ i \in A
            BY <1>2, <1>8, <5>1
          <6> HIDE DEF A
          <6>2. IsFiniteSet(A) /\ Cardinality(A) <= Cardinality(Exported)
            BY <1>8, <6>1, FS_Subset
          <6>3. Cardinality(A) \in Nat /\ Cardinality(A) # 0
            BY <6>1, <6>2, FS_CardinalityType, FS_EmptySet
          <6> QED
            BY <2>1, <6>2, <6>3
        <5>4. script.exported[Cardinality(A)] = script.steps[i].var
          BY <5>1 DEF RunnerInv, ExportsAreRight
        <5> HIDE DEF A
        <5> QED
          BY <1>6, <2>1, <3>3, <5>2, <5>3, <5>4
      <4> QED
        BY <4>1, <4>2
    <3> QED
      BY <2>1, <3>1, <3>2, <3>3, <3>4 DEF ExportsAreRight
  <2> QED
    BY <2>2, <2>3
<1>10. script'.allOK => \A i \in DOMAIN script'.results : script'.results[i] = "ok"
  <2> SUFFICES ASSUME script'.allOK, NEW i \in 1 .. n PROVE script'.results[i] = "ok"
    BY <1>3
  <2>1. script.allOK /\ r = "ok"
    BY <1>1
  <2>2. \A j \in 1 .. n - 1 : script.results[j] = "ok"
    BY <1>5, <2>1 DEF RunnerInv
  <2> HIDE DEF n
  <2> QED
    BY <1>2, <1>3, <2>1, <2>2
<1>11. script.client = ""
  BY DEF RunnerInv
<1> HIDE DEF n
<1>12. Len(script'.results) <= Len(script'.steps)
  BY <1>2, <1>3, <1>6
<1>13. script.error = ""
  BY DEF RunnerInv
<1> QED
  BY <1>6, <1>9, <1>10, <1>11, <1>12, <1>13 DEF RunnerInv

LEMMA RunnerStep == RunnerInv /\ [ScriptNext]_script => RunnerInv'
<1> SUFFICES ASSUME RunnerInv, [ScriptNext]_script
             PROVE  RunnerInv'
  OBVIOUS
<1>1. script \in ScriptType
  BY DEF RunnerInv
<1>2. ASSUME script.pc = "run", Len(script.results) < Len(script.steps), NEW r \in {"ok", "failed"}
      PROVE  /\ Result(r) \in ScriptType
             /\ Result(r).results = Append(script.results, r)
             /\ Result(r).allOK = (script.allOK /\ r = "ok")
             /\ Result(r).exported = script.exported
             /\ \A f \in {"pc", "steps", "open", "error", "client"} : Result(r)[f] = script[f]
  <2>1. script.results \in Seq({"ok", "failed"})
    BY <1>1 DEF ScriptType
  <2>2. Append(script.results, r) \in Seq({"ok", "failed"})
    BY <2>1
  <2> DEFINE a == Append(script.results, r)
  <2>3. a \in Seq({"ok", "failed"})
    BY <2>2
  <2> HIDE DEF a
  <2>4. Result(r) = [script EXCEPT !.results = a, !.allOK = @ /\ r = "ok"]
    BY DEF Result, a
  <2>5. Result(r) \in ScriptType
    BY <1>1, <2>3, <2>4 DEF ScriptType
  <2>6. Result(r).results = a
    BY <1>1, <2>4 DEF ScriptType
  <2> QED
    BY <1>1, <2>4, <2>5, <2>6 DEF ScriptType, a
<1>3. CASE RunScript
  BY <1>3, ScriptBegins
<1>4. CASE ExecStep
  <2>1. /\ script.pc = "run" /\ Len(script.results) < Len(script.steps) /\ Step.kind = "exec"
        /\ \E went \in {"ok", "failed"} : script' = Result(went)
    BY <1>4 DEF ExecStep, HasStep
  <2>2. PICK went \in {"ok", "failed"} : script' = Result(went)
    BY <2>1
  <2> QED
    BY <1>2, <2>1, <2>2, ScriptContinues
<1>5. CASE PromptStep
  <2>1. /\ script.pc = "run" /\ Len(script.results) < Len(script.steps) /\ Step.kind # "exec"
    BY <1>5 DEF PromptStep, HasStep
  <2>2. CASE script' = Result("failed")
    BY <1>2, <2>1, <2>2, ScriptContinues
  <2>3. CASE script' = [Result("ok") EXCEPT !.exported = Append(@, Step.var)]
    <3> DEFINE s == Result("ok")
    <3> DEFINE e == Append(script.exported, Step.var)
    <3>1. e \in Seq(Variables)
      <4> DEFINE n == Len(script.results) + 1
      <4>1. script.exported \in Seq(Variables) /\ script.results \in Seq({"ok", "failed"}) /\ script.steps \in Seq(Steps)
        BY <1>1 DEF ScriptType
      <4>2. n \in 1 .. Len(script.steps)
        BY <2>1, <4>1
      <4>3. script.steps[n] \in Steps
        BY <4>1, <4>2
      <4>4. Step.var \in Variables
        BY <4>3 DEF Step, Variables
      <4> QED
        BY <4>1, <4>4
    <3>2. s \in ScriptType /\ s.exported = script.exported
      BY <1>2, <2>1
    <3> HIDE DEF s, e
    <3>3. script' = [s EXCEPT !.exported = e]
      BY <2>3, <3>2 DEF s, e
    <3>4. script' \in ScriptType /\ script'.exported = e
      BY <3>1, <3>2, <3>3 DEF ScriptType
    <3>5. \A f \in {"pc", "steps", "open", "error", "client", "results", "allOK"} : script'[f] = s[f]
      BY <3>2, <3>3 DEF ScriptType
    <3>6. /\ s.results = Append(script.results, "ok") /\ s.allOK = (script.allOK /\ "ok" = "ok")
          /\ \A f \in {"pc", "steps", "open", "error", "client"} : s[f] = script[f]
      BY <1>2, <2>1 DEF s
    <3>7. /\ script'.results = Append(script.results, "ok") /\ script'.allOK = (script.allOK /\ "ok" = "ok")
          /\ \A f \in {"pc", "steps", "open", "error", "client"} : script'[f] = script[f]
      BY <3>5, <3>6
    <3> QED
      BY <2>1, <3>4, <3>7, ScriptContinues DEF e
  <2> QED
    BY <1>5, <2>2, <2>3 DEF PromptStep
<1>6. CASE FinishScript
  <2> DEFINE e == IF script.allOK THEN "" ELSE "steps failed"
  <2>1. /\ script.pc = "run" /\ Len(script.results) = Len(script.steps)
        /\ script' = [Answer(script, e) EXCEPT !.open = 0]
    BY <1>6 DEF FinishScript
  <2>2. /\ script'.pc = "done" /\ script'.open = 0 /\ script'.error = e
        /\ script'.allOK = (script.allOK /\ e = "")
        /\ \A f \in {"steps", "results", "exported", "client"} : script'[f] = script[f]
        /\ script' \in ScriptType
    <3> DEFINE a == script.allOK /\ e = ""
    <3>1. script' = [script EXCEPT !.pc = "done", !.error = e, !.allOK = a, !.open = 0]
      BY <1>1, <2>1 DEF Answer, ScriptType
    <3>2. a \in BOOLEAN /\ e \in {"", "steps failed"}
      OBVIOUS
    <3> HIDE DEF a
    <3>3. script' \in ScriptType
      <4>1. 0 \in Int
        OBVIOUS
      <4> HIDE DEF e
      <4>2. [script EXCEPT !.pc = "done", !.error = e, !.allOK = a, !.open = 0] \in ScriptType
        BY Zenon, <1>1, <3>2, <4>1, ScriptChanges
      <4> QED
        BY <3>1, <4>2
    <3>4. /\ script'.pc = "done" /\ script'.open = 0 /\ script'.error = e /\ script'.allOK = a
          /\ \A f \in {"steps", "results", "exported", "client"} : script'[f] = script[f]
      BY <1>1, <3>1 DEF ScriptType
    <3> QED
      BY <3>3, <3>4 DEF a
  <2>3. Exported' = Exported
    BY <2>2 DEF Exported
  <2>4. ExportsAreRight'
    BY <2>2, <2>3 DEF RunnerInv, ExportsAreRight
  <2>5. script.client = "" /\ script.allOK \in BOOLEAN
    BY <1>1, <2>1 DEF RunnerInv, ScriptType
  <2>6. /\ script'.allOK <=> script'.error = ""
        /\ script'.allOK => script.allOK
    BY <2>2, <2>5
  <2>7. Len(script'.results) = Len(script'.steps) /\ Len(script'.results) <= Len(script'.steps)
    <3>1. script.steps \in Seq(Steps) /\ script'.steps = script.steps /\ script'.results = script.results
      <4> HIDE DEF e
      <4> QED
        BY <1>1, <2>2 DEF ScriptType
    <3>2. Len(script.steps) \in Nat
      BY <3>1
    <3>3. Len(script.results) = Len(script.steps)
      BY <2>1
    <3>4. Len(script'.results) = Len(script'.steps)
      BY Zenon, <3>1, <3>3
    <3>5. \A x \in Nat : x <= x
      OBVIOUS
    <3> QED
      BY Zenon, <3>1, <3>2, <3>3, <3>4, <3>5
  <2>8. script'.allOK => \A i \in DOMAIN script'.results : script'.results[i] = "ok"
    BY <2>2, <2>6 DEF RunnerInv
  <2> HIDE DEF e
  <2> QED
    BY <2>2, <2>4, <2>5, <2>6, <2>7, <2>8 DEF RunnerInv
<1>7. CASE ClientReports
  <2> DEFINE c == IF script.pc = "done" /\ script.allOK THEN "ok" ELSE "error"
  <2>1. /\ script.pc \in {"done", "panic"} /\ script' = [script EXCEPT !.client = c]
    BY <1>7 DEF ClientReports
  <2>2. /\ script'.client = c /\ script' \in ScriptType
        /\ \A f \in {"pc", "steps", "results", "exported", "open", "allOK", "error"} : script'[f] = script[f]
    BY <1>1, <2>1 DEF ScriptType
  <2>3. Exported' = Exported
    BY <2>2 DEF Exported
  <2>4. ExportsAreRight'
    BY <2>2, <2>3 DEF RunnerInv, ExportsAreRight
  <2>5. script'.client = "ok" => script'.pc = "done" /\ script'.allOK
    BY <2>2
  <2> HIDE DEF c
  <2>6. /\ script'.pc = script.pc /\ script'.steps = script.steps /\ script'.results = script.results
        /\ script'.open = script.open /\ script'.allOK = script.allOK /\ script'.error = script.error
    BY <2>2
  <2>7. script'.pc = "done" => /\ script'.open = 0
                               /\ script'.allOK <=> script'.error = ""
                               /\ script'.error \in {"", "steps failed"} => Len(script'.results) = Len(script'.steps)
    BY <2>6 DEF RunnerInv
  <2>8. script'.allOK => \A i \in DOMAIN script'.results : script'.results[i] = "ok"
    BY <2>6 DEF RunnerInv
  <2>9. Len(script'.results) <= Len(script'.steps)
    BY <2>6 DEF RunnerInv
  <2>10. script'.pc # "idle" /\ script'.pc # "run" /\ script' \in ScriptType
    BY <2>1, <2>2, <2>6
  <2> QED
    BY <2>4, <2>5, <2>7, <2>8, <2>9, <2>10 DEF RunnerInv
<1>8. CASE UNCHANGED script
  <2>1. Exported' = Exported
    BY <1>8 DEF Exported
  <2> QED
    BY <1>8, <2>1 DEF RunnerInv, ExportsAreRight
<1> QED
  BY <1>3, <1>4, <1>5, <1>6, <1>7, <1>8 DEF ScriptNext

LEMMA RunnerInit == ScriptInit => RunnerInv
<1> SUFFICES ASSUME ScriptInit PROVE RunnerInv
  OBVIOUS
<1>1. script = NoScript
  BY DEF ScriptInit
<1>2. /\ script.results = <<>> /\ script.steps = <<>> /\ script.exported = <<>>
      /\ script.pc = "idle" /\ script.client = ""
  BY <1>1 DEF NoScript
<1>3. script \in ScriptType
  BY <1>1, NoScriptType
<1> QED
  BY <1>1, <1>2, <1>3, NothingRun DEF RunnerInv

-------------------------------------------------------------------------------
(* The registry.                                                           *)

Trees(tree) ==
    /\ IsFiniteSet(tree.dirs) /\ tree.dirs \cup tree.files \subseteq Seq(FileNames)
    /\ <<>> \in tree.dirs \ tree.files
\* No directory on the way to it excludes the next one.
WayIsOpen(tree, d) == \A n \in 1 .. Len(d) : d[n].stem \notin FrontMatterOf(tree, SubSeq(d, 1, n - 1)).exclude

\* Parent and Last take a path apart.
LEMMA PathParts ==
    ASSUME NEW d \in Seq(FileNames), d # <<>>
    PROVE  /\ Len(d) \in Nat /\ Len(d) > 0 /\ Last(d) = d[Len(d)] /\ Last(d) \in FileNames
           /\ Parent(d) \in Seq(FileNames) /\ Len(Parent(d)) = Len(d) - 1
           /\ \A n \in 1 .. Len(d) - 1 : /\ Parent(d)[n] = d[n]
                                         /\ SubSeq(Parent(d), 1, n - 1) = SubSeq(d, 1, n - 1)
           /\ SubSeq(Parent(d), 1, Len(d) - 1) = Parent(d)
<1>1. Len(d) \in Nat /\ Len(d) > 0
  BY EmptySeq
<1>2. Last(d) = d[Len(d)] /\ d[Len(d)] \in FileNames
  BY <1>1 DEF Last
<1>3. /\ Parent(d) \in Seq(FileNames) /\ Len(Parent(d)) = Len(d) - 1
      /\ \A n \in 1 .. Len(d) - 1 : Parent(d)[n] = d[n]
  <2> DEFINE m == Len(d) - 1
  <2>1. m \in Nat /\ 1 \in Int /\ m \in Int /\ \A i \in 1 .. m : d[i] \in FileNames
    BY <1>1
  <2> HIDE DEF m
  <2>2. /\ SubSeq(d, 1, m) \in Seq(FileNames)
        /\ Len(SubSeq(d, 1, m)) = IF 1 <= m THEN m - 1 + 1 ELSE 0
        /\ \A i \in 1 .. m - 1 + 1 : SubSeq(d, 1, m)[i] = d[1 + i - 1]
    BY <2>1, SubSeqProperties
  <2>3. Len(SubSeq(d, 1, m)) = m /\ \A i \in 1 .. m : SubSeq(d, 1, m)[i] = d[i]
    BY <2>1, <2>2
  <2> QED
    BY <2>2, <2>3 DEF Parent, m
<1>4. ASSUME NEW n \in 1 .. Len(d) - 1
      PROVE  SubSeq(Parent(d), 1, n - 1) = SubSeq(d, 1, n - 1)
  <2>1. n - 1 \in Nat /\ n - 1 <= Len(d) - 1
    BY <1>1
  <2> QED
    BY <1>1, <1>3, <2>1
<1>5. SubSeq(Parent(d), 1, Len(d) - 1) = Parent(d)
  BY <1>1, <1>3
<1> QED
  BY <1>1, <1>2, <1>3, <1>4, <1>5

\* A directory is entered when its parent is, and does not exclude it.
LEMMA EnteredIsOpen ==
    ASSUME NEW tree, Trees(tree), NEW d \in Entered(tree)
    PROVE  WayIsOpen(tree, d)
<1> DEFINE N == Cardinality(tree.dirs)
<1> DEFINE T == SUBSET tree.dirs
<1> DEFINE Next_(l) == {e \in tree.dirs : /\ e # <<>> /\ Parent(e) \in l
                                          /\ Last(e).stem \notin FrontMatterOf(tree, Parent(e)).exclude}
<1> DEFINE step(h) ==
        [n \in 0 .. N |->
            IF n = 0 THEN {<<>>}
            ELSE {e \in tree.dirs : /\ e # <<>> /\ Parent(e) \in h[n - 1]
                                    /\ Last(e).stem \notin FrontMatterOf(tree, Parent(e)).exclude}]
<1> DEFINE F == [p \in Nat \X T |-> Next_(p[2])]
<1>1. N \in Nat
  BY FS_CardinalityType DEF Trees
<1>2. {<<>>} \in T /\ \A l \in T : Next_(l) \in T
  BY DEF Trees
<1>3. F \in [Nat \X T -> T]
  <2> SUFFICES ASSUME NEW p \in Nat \X T PROVE Next_(p[2]) \in T
    OBVIOUS
  <2> HIDE DEF T, Next_
  <2> QED
    BY <1>2
<1>4. \E h : h = step(h)
  <2>1. \E g : Recursive_(g, T, {<<>>}, F, N)
    <3> HIDE DEF F, T, N
    <3> QED
      BY <1>1, <1>2, <1>3, Recursion
  <2>2. PICK g : Recursive_(g, T, {<<>>}, F, N)
    BY <2>1
  <2>3. ASSUME NEW i \in 0 .. N
        PROVE  g[i] = IF i = 0 THEN {<<>>} ELSE Next_(g[i - 1])
    <3>1. g[i] = IF i = 0 THEN {<<>>} ELSE F[<<i, g[i - 1]>>]
      <4> HIDE DEF F, T, N
      <4> QED
        BY <1>1, <2>2 DEF Recursive_
    <3>2. ASSUME i # 0 PROVE F[<<i, g[i - 1]>>] = Next_(g[i - 1])
      <4>1. i - 1 \in 0 .. N /\ i \in Nat
        <5> HIDE DEF N
        <5> QED
          BY <1>1, <3>2
      <4>2. g[i - 1] \in T
        <5> HIDE DEF F, T, N
        <5> QED
          BY <2>2, <4>1 DEF Recursive_
      <4> HIDE DEF T, Next_
      <4> QED
        BY <4>1, <4>2
    <3> HIDE DEF F, Next_
    <3> QED
      BY <3>1, <3>2
  <2>4. g \in [0 .. N -> T]
    BY <2>2 DEF Recursive_
  <2>5. g = [n \in 0 .. N |-> IF n = 0 THEN {<<>>} ELSE Next_(g[n - 1])]
    <3> HIDE DEF T, N, Next_
    <3> QED
      BY <2>3, <2>4
  <2>6. g = step(g)
    BY Zenon, <2>5
  <2> QED
    BY <2>6
<1>5. \E h : h = step(h) /\ Entered(tree) = UNION {h[n] : n \in 0 .. N}
  BY <1>4 DEF Entered
<1>6. PICK h : h = step(h) /\ Entered(tree) = UNION {h[n] : n \in 0 .. N}
  BY <1>5
<1>7. ASSUME NEW i \in 0 .. N PROVE h[i] = IF i = 0 THEN {<<>>} ELSE Next_(h[i - 1])
  <2>1. h[i] = step(h)[i]
    BY <1>6
  <2> QED
    BY <2>1
<1> DEFINE S == {n \in Nat : n \in 0 .. N => \A e \in h[n] : WayIsOpen(tree, e)}
<1>8. 0 \in S
  <2>1. h[0] = {<<>>}
    <3> HIDE DEF N, Next_
    <3> QED
      BY <1>1, <1>7
  <2>2. WayIsOpen(tree, <<>>)
    BY DEF WayIsOpen
  <2> HIDE DEF N
  <2> QED
    BY <2>1, <2>2
<1>9. ASSUME NEW k \in Nat, k \in S PROVE k + 1 \in S
  <2> SUFFICES ASSUME k + 1 \in 0 .. N, NEW e \in h[k + 1] PROVE WayIsOpen(tree, e)
    OBVIOUS
  <2>1. k \in 0 .. N /\ (k + 1) - 1 = k /\ k + 1 # 0
    <3> HIDE DEF N
    <3> QED
      BY <1>1
  <2>2. e \in Next_(h[k])
    <3> HIDE DEF Next_, N
    <3> QED
      BY <1>7, <2>1
  <2>3. /\ e \in Seq(FileNames) /\ e # <<>> /\ WayIsOpen(tree, Parent(e))
        /\ Last(e).stem \notin FrontMatterOf(tree, Parent(e)).exclude
    BY <1>9, <2>1, <2>2 DEF Trees
  <2> SUFFICES ASSUME NEW n \in 1 .. Len(e)
               PROVE  e[n].stem \notin FrontMatterOf(tree, SubSeq(e, 1, n - 1)).exclude
    BY DEF WayIsOpen
  <2>4. CASE n = Len(e)
    BY <2>3, <2>4, PathParts DEF Parent
  <2>5. CASE n # Len(e)
    <3>1. n \in 1 .. Len(e) - 1 /\ n \in 1 .. Len(Parent(e))
      BY <2>3, <2>5, PathParts
    <3>2. Parent(e)[n] = e[n] /\ SubSeq(Parent(e), 1, n - 1) = SubSeq(e, 1, n - 1)
      BY <2>3, <3>1, PathParts
    <3>3. Parent(e)[n].stem \notin FrontMatterOf(tree, SubSeq(Parent(e), 1, n - 1)).exclude
      BY <2>3, <3>1 DEF WayIsOpen
    <3> QED
      BY Zenon, <3>2, <3>3
  <2> QED
    BY <2>4, <2>5
<1>10. Nat \subseteq S
  <2> HIDE DEF S
  <2> QED
    BY <1>8, <1>9, SetInduction
<1> HIDE DEF N
<1>11. PICK n \in 0 .. N : d \in h[n]
  BY <1>6
<1>12. n \in Nat /\ n \in S
  BY <1>1, <1>10
<1> QED
  BY <1>11, <1>12

\* What a script is listed as.
IsListed(tree, e, f) ==
    /\ f \in Seq(FileNames) /\ f # <<>> /\ Lists(tree, f) /\ e.file = f
    /\ e.path \in Seq(FileNames) /\ Len(e.path) = Len(f)
    /\ \A n \in 1 .. Len(f) - 1 : e.path[n] = f[n]
    /\ e.path[Len(f)] = [Last(f) EXCEPT !.dsh = @ - 1]
    /\ SubSeq(e.path, 1, Len(f) - 1) = Parent(f)
    /\ \A n \in 1 .. Len(f) - 1 : SubSeq(e.path, 1, n - 1) = SubSeq(Parent(f), 1, n - 1)
LEMMA ListedAs ==
    ASSUME NEW tree, Trees(tree), NEW e \in scanDir(tree)
    PROVE  \E f \in tree.files : IsListed(tree, e, f)
<1>1. PICK f \in tree.files :
          /\ Lists(tree, f)
          /\ e = [path |-> Append(Parent(f), [Last(f) EXCEPT !.dsh = @ - 1]), file |-> f,
                  enabled |-> FrontMatterOf(tree, Parent(f)).enabled]
  BY DEF scanDir
<1>2. f \in Seq(FileNames) /\ f # <<>>
  BY DEF Trees
<1> DEFINE l == [Last(f) EXCEPT !.dsh = @ - 1]
<1>3. l \in FileNames
  <2>1. Last(f) \in FileNames /\ Last(f).dsh > 0
    BY <1>1, <1>2, PathParts DEF Lists
  <2> QED
    BY <2>1 DEF FileNames
<1>4. e.path = Append(Parent(f), l) /\ e.file = f
  BY <1>1
<1> HIDE DEF l
<1>5. /\ Parent(f) \in Seq(FileNames) /\ Len(Parent(f)) = Len(f) - 1 /\ Len(f) \in Nat /\ Len(f) > 0
      /\ \A n \in 1 .. Len(f) - 1 : Parent(f)[n] = f[n]
  BY <1>2, PathParts
<1>6. /\ e.path \in Seq(FileNames) /\ Len(e.path) = Len(f) /\ e.path[Len(f)] = l
      /\ \A n \in 1 .. Len(f) - 1 : e.path[n] = Parent(f)[n]
  BY <1>3, <1>4, <1>5
<1>7. ASSUME NEW n \in 0 .. Len(f) - 1 PROVE SubSeq(e.path, 1, n) = SubSeq(Parent(f), 1, n)
  BY <1>5, <1>6
<1>8. SubSeq(e.path, 1, Len(f) - 1) = Parent(f)
  <2>1. Len(f) - 1 \in 0 .. Len(f) - 1
    BY <1>5
  <2> QED
    BY <1>2, <1>7, <2>1, PathParts
<1>9. \A n \in 1 .. Len(f) - 1 : SubSeq(e.path, 1, n - 1) = SubSeq(Parent(f), 1, n - 1)
  <2> SUFFICES ASSUME NEW n \in 1 .. Len(f) - 1 PROVE SubSeq(e.path, 1, n - 1) = SubSeq(Parent(f), 1, n - 1)
    OBVIOUS
  <2>1. n - 1 \in 0 .. Len(f) - 1
    BY <1>5
  <2> QED
    BY <1>7, <2>1
<1> QED
  BY <1>1, <1>2, <1>4, <1>5, <1>6, <1>8, <1>9 DEF l, IsListed

LEMMA TreeIsRight ==
    ASSUME NEW tree, Trees(tree)
    PROVE  ListedCanBeRun(tree) /\ ExcludedIsNotListed(tree)
<1>1. ASSUME NEW e \in scanDir(tree), Last(e.path).dsh = 0
      PROVE  ResolveScriptPath(tree, e.path) = e.file
  <2>1. PICK f \in tree.files : IsListed(tree, e, f)
    BY <1>1, ListedAs
  <2>0. /\ f \in Seq(FileNames) /\ f # <<>> /\ e.file = f
        /\ e.path \in Seq(FileNames) /\ Len(e.path) = Len(f)
        /\ \A n \in 1 .. Len(f) - 1 : e.path[n] = f[n]
        /\ e.path[Len(f)] = [Last(f) EXCEPT !.dsh = @ - 1]
    BY <2>1 DEF IsListed
  <2> DEFINE n == Len(f)
  <2> DEFINE p == e.path
  <2>2. /\ n \in Nat /\ n > 0 /\ Last(f) = f[n] /\ f[n] \in FileNames
    BY <2>0, PathParts
  <2>3. /\ p \in Seq(FileNames) /\ Len(p) = n /\ p[n] = [f[n] EXCEPT !.dsh = @ - 1]
        /\ \A i \in 1 .. n - 1 : p[i] = f[i]
    BY <2>0, <2>2
  <2>4. p[n].dsh = 0 /\ p[n] \in FileNames
    <3>1. p # <<>>
      BY <2>2, <2>3, EmptySeq
    <3> HIDE DEF p, n
    <3> QED
      BY <1>1, <2>3, <3>1, PathParts DEF p
  <2>5. f[n].dsh = 1 /\ [p[n] EXCEPT !.dsh = 0] = p[n] /\ [p[n] EXCEPT !.dsh = 1] = f[n]
    <3> HIDE DEF p, n
    <3>1. p[n].dsh = f[n].dsh - 1
      BY <2>2, <2>3 DEF FileNames
    <3>2. f[n].dsh = 1
      BY <2>2, <2>4, <3>1 DEF FileNames
    <3> QED
      BY <2>2, <2>3, <2>4, <3>2 DEF FileNames
  <2> DEFINE bare == [p EXCEPT ![Len(p)].dsh = IF @ > 0 THEN @ - 1 ELSE 0]
  <2> DEFINE with == [bare EXCEPT ![Len(p)].dsh = @ + 1]
  <2> HIDE DEF n, p
  <2>6. bare = [p EXCEPT ![n] = [p[n] EXCEPT !.dsh = 0]]
    <3>1. (IF p[n].dsh > 0 THEN p[n].dsh - 1 ELSE 0) = 0
      BY <2>4
    <3>2. bare = [p EXCEPT ![n] = [p[n] EXCEPT !.dsh = IF p[n].dsh > 0 THEN p[n].dsh - 1 ELSE 0]]
      BY <2>3
    <3> QED
      BY Zenon, <3>1, <3>2
  <2>7. bare = p
    <3>1. bare = [p EXCEPT ![n] = p[n]]
      BY Zenon, <2>5, <2>6
    <3> HIDE DEF bare
    <3>2. bare \in Seq(FileNames) /\ Len(bare) = n /\ \A i \in 1 .. n : bare[i] = p[i]
      BY <2>2, <2>3, <2>4, <3>1
    <3> QED
      BY <2>3, <3>2, SeqEqual
  <2>8. with = [p EXCEPT ![n] = [p[n] EXCEPT !.dsh = p[n].dsh + 1]]
    <3> HIDE DEF bare
    <3> QED
      BY <2>3, <2>7
  <2>9. with = [p EXCEPT ![n] = f[n]]
    <3> HIDE DEF with, bare
    <3>1. p[n].dsh + 1 = 1
      BY <2>4
    <3> QED
      BY Zenon, <2>5, <2>8, <3>1
  <2>10. with = f
    <3> HIDE DEF with, bare
    <3>1. with \in Seq(FileNames) /\ Len(with) = n /\ \A i \in 1 .. n : with[i] = f[i]
      BY <2>2, <2>3, <2>9
    <3> QED
      BY <2>0, <3>1, SeqEqual DEF n
  <2>11. ResolveScriptPath(tree, p) = with
    <3>1. with \in tree.files \cup tree.dirs
      <4> HIDE DEF with, bare
      <4> QED
        BY <2>0, <2>10
    <3> QED
      BY <3>1 DEF ResolveScriptPath
  <2> HIDE DEF with, bare
  <2> QED
    BY <2>0, <2>10, <2>11 DEF p
<1>2. ASSUME NEW e \in scanDir(tree), NEW n \in 1 .. Len(e.path), e.path[n].dsh = 0
      PROVE  e.path[n].stem \notin FrontMatterOf(tree, SubSeq(e.path, 1, n - 1)).exclude
  <2>1. PICK f \in tree.files : IsListed(tree, e, f)
    BY ListedAs
  <2>0. /\ f \in Seq(FileNames) /\ f # <<>> /\ Lists(tree, f)
        /\ e.path \in Seq(FileNames) /\ Len(e.path) = Len(f)
        /\ \A i \in 1 .. Len(f) - 1 : e.path[i] = f[i]
        /\ e.path[Len(f)] = [Last(f) EXCEPT !.dsh = @ - 1]
        /\ SubSeq(e.path, 1, Len(f) - 1) = Parent(f)
        /\ \A i \in 1 .. Len(f) - 1 : SubSeq(e.path, 1, i - 1) = SubSeq(Parent(f), 1, i - 1)
    BY <2>1 DEF IsListed
  <2>2. Len(f) \in Nat /\ Len(f) > 0 /\ Last(f) \in FileNames
    BY <2>0, PathParts
  <2>3. CASE n = Len(f)
    <3>1. e.path[n].stem = Last(f).stem /\ e.path[n].dsh = Last(f).dsh - 1
      BY <2>0, <2>2, <2>3 DEF FileNames
    <3>2. Last(f).dsh = 1
      BY <1>2, <2>2, <3>1 DEF FileNames
    <3>3. Last(f).stem \notin FrontMatterOf(tree, Parent(f)).exclude
      BY <2>0, <3>2 DEF Lists
    <3>4. SubSeq(e.path, 1, n - 1) = Parent(f)
      BY <2>0, <2>3
    <3> QED
      BY Zenon, <3>1, <3>3, <3>4
  <2>4. CASE n # Len(f)
    <3>1. n \in 1 .. Len(f) - 1 /\ n \in 1 .. Len(Parent(f))
      BY <1>2, <2>0, <2>2, <2>4, PathParts
    <3>2. WayIsOpen(tree, Parent(f))
      BY <2>0, EnteredIsOpen DEF Lists
    <3>3. Parent(f)[n].stem \notin FrontMatterOf(tree, SubSeq(Parent(f), 1, n - 1)).exclude
      BY <3>1, <3>2 DEF WayIsOpen
    <3>4. e.path[n] = Parent(f)[n] /\ SubSeq(e.path, 1, n - 1) = SubSeq(Parent(f), 1, n - 1)
      BY <2>0, <3>1, PathParts
    <3> QED
      BY Zenon, <3>3, <3>4
  <2> QED
    BY <2>3, <2>4
<1> QED
  BY <1>1, <1>2 DEF ListedCanBeRun, ExcludedIsNotListed

LEMMA TreesAreRight == EveryTreeIsRight
<1> SUFFICES ASSUME NEW tree \in ScriptTrees
             PROVE  ListedCanBeRun(tree) /\ ExcludedIsNotListed(tree)
  BY DEF EveryTreeIsRight
<1>1. Trees(tree)
  BY ScriptsAssumption DEF Trees
<1> QED
  BY <1>1, TreeIsRight

-------------------------------------------------------------------------------
(* The parser.                                                             *)

\* What TrimSpace leaves does not end with a blank.
LEMMA Trimmed ==
    ASSUME NEW s \in Seq(STRING)
    PROVE  /\ TrimSpace(s) \in Seq(STRING)
           /\ TrimSpace(s) # <<>> => TrimSpace(s)[Len(TrimSpace(s))] # Blank
<1> DEFINE N == {i \in DOMAIN s : s[i] # Blank}
<1>1. CASE N = {}
  BY <1>1 DEF TrimSpace
<1>2. CASE N # {}
  <2> DEFINE m == Min(N)
  <2> DEFINE n == Max(N)
  <2>1. Len(s) \in Nat /\ N \subseteq 1 .. Len(s)
    OBVIOUS
  <2>2. m \in N /\ n \in N /\ m <= n
    <3>1. N \in SUBSET Nat /\ N \in SUBSET (0 .. Len(s))
      BY <2>1
    <3> HIDE DEF N
    <3> QED
      BY <1>2, <2>1, <3>1, MinOf, MaxOf
  <2>3. TrimSpace(s) = SubSeq(s, m, n)
    BY <1>2 DEF TrimSpace
  <2>4. m \in 1 .. Len(s) /\ n \in 1 .. Len(s) /\ s[n] # Blank
    <3> HIDE DEF m, n
    <3> QED
      BY <2>1, <2>2
  <2> HIDE DEF m, n, N
  <2>5. m \in Int /\ n \in Int /\ \A i \in m .. n : s[i] \in STRING
    BY <2>1, <2>4
  <2>6. /\ SubSeq(s, m, n) \in Seq(STRING)
        /\ Len(SubSeq(s, m, n)) = IF m <= n THEN n - m + 1 ELSE 0
        /\ \A i \in 1 .. n - m + 1 : SubSeq(s, m, n)[i] = s[m + i - 1]
    BY <2>5, SubSeqProperties
  <2>7. Len(SubSeq(s, m, n)) = n - m + 1 /\ n - m + 1 \in 1 .. n - m + 1 /\ m + (n - m + 1) - 1 = n
    BY <2>2, <2>4, <2>5, <2>6
  <2>8. SubSeq(s, m, n)[n - m + 1] = s[n]
    BY <2>6, <2>7
  <2> QED
    BY <2>3, <2>4, <2>6, <2>7, <2>8
<1> QED
  BY <1>1, <1>2

\* It leaves alone what neither begins nor ends with a blank.
LEMMA TrimmedIs ==
    ASSUME NEW s \in Seq(STRING), s # <<>>, s[1] # Blank, s[Len(s)] # Blank
    PROVE  TrimSpace(s) = s
<1> DEFINE N == {i \in DOMAIN s : s[i] # Blank}
<1>1. Len(s) \in Nat /\ Len(s) > 0
  BY EmptySeq
<1>2. N \subseteq 1 .. Len(s) /\ 1 \in N /\ Len(s) \in N
  BY <1>1
<1>3. Min(N) = 1 /\ Max(N) = Len(s) /\ N # {}
  <2> HIDE DEF N
  <2>1. N \in SUBSET Int /\ (\A k \in N : 1 <= k) /\ (\A k \in N : k <= Len(s)) /\ N # {}
    BY <1>1, <1>2
  <2> QED
    BY <1>2, <2>1, Minimum, Maximum
<1>4. TrimSpace(s) = SubSeq(s, Min(N), Max(N))
  BY <1>3 DEF TrimSpace
<1> HIDE DEF N
<1>5. TrimSpace(s) = SubSeq(s, 1, Len(s))
  BY Zenon, <1>3, <1>4
<1> QED
  BY <1>1, <1>5

\* A character is escaped when the one before is a backslash that is not.
LEMMA EscapedIs ==
    ASSUME NEW s \in Seq(STRING), NEW i \in 1 .. Len(s)
    PROVE  Escaped(s)[i] = (i > 2 /\ s[i - 1] = Backslash /\ ~Escaped(s)[i - 1])
<1> DEFINE n == Len(s)
<1> DEFINE step(h) == [k \in 0 .. n |-> k > 2 /\ s[k - 1] = Backslash /\ ~h[k - 1]]
<1> DEFINE F == [p \in Nat \X BOOLEAN |-> p[1] > 2 /\ s[p[1] - 1] = Backslash /\ ~p[2]]
<1>1. n \in Nat
  OBVIOUS
<1>2. F \in [Nat \X BOOLEAN -> BOOLEAN]
  OBVIOUS
<1>3. \E h : h = step(h)
  <2>1. \E g : Recursive_(g, BOOLEAN, FALSE, F, n)
    <3> HIDE DEF F, n
    <3> QED
      BY <1>1, <1>2, Recursion
  <2>2. PICK g : Recursive_(g, BOOLEAN, FALSE, F, n)
    BY <2>1
  <2>3. g \in [0 .. n -> BOOLEAN] /\ g[0] = FALSE /\ \A k \in 1 .. n : g[k] = F[<<k, g[k - 1]>>]
    BY <2>2 DEF Recursive_
  <2>4. ASSUME NEW k \in 0 .. n
        PROVE  g[k] = (k > 2 /\ s[k - 1] = Backslash /\ ~g[k - 1])
    <3>1. CASE k = 0
      <4>1. ~(k > 2)
        BY <3>1
      <4> HIDE DEF F
      <4> QED
        BY <2>3, <3>1, <4>1
    <3>2. CASE k # 0
      <4>1. k \in 1 .. n /\ k - 1 \in 0 .. n /\ k \in Nat
        BY <1>1, <3>2
      <4>2. g[k - 1] \in BOOLEAN
        <5> HIDE DEF F, n
        <5> QED
          BY <2>3, <4>1
      <4>3. F[<<k, g[k - 1]>>] = (k > 2 /\ s[k - 1] = Backslash /\ ~g[k - 1])
        <5> HIDE DEF n
        <5> QED
          BY <4>1, <4>2
      <4> HIDE DEF F, n
      <4> QED
        BY <2>3, <4>1, <4>3
    <3> QED
      BY <3>1, <3>2
  <2>5. g = step(g)
    <3> HIDE DEF n
    <3>1. g = [k \in 0 .. n |-> g[k]]
      BY <2>3
    <3> QED
      BY <2>4, <3>1
  <2> QED
    BY <2>5
<1>4. \E h : h = step(h) /\ Escaped(s) = h
  BY <1>3 DEF Escaped
<1>5. PICK h : h = step(h) /\ Escaped(s) = h
  BY <1>4
<1>6. h[i] = step(h)[i] /\ i \in 0 .. n
  <2>1. h[i] = step(h)[i]
    <3> HIDE DEF step
    <3> QED
      BY <1>5
  <2>2. i \in 0 .. n
    BY <1>1
  <2> QED
    BY <2>1, <2>2
<1>7. h[i] = (i > 2 /\ s[i - 1] = Backslash /\ ~h[i - 1])
  BY <1>6
<1> QED
  BY <1>5, <1>7

\* The arms exclude each other.
LEMMA Arms ==
    ASSUME NEW p \in Int, NEW n \in Int, NEW c, NEW a, NEW b, NEW d, NEW q, NEW k, q # k
    PROVE  (CASE p > n -> p [] p <= n /\ c = q -> a [] p <= n /\ c = k -> b [] OTHER -> d)
               = IF p > n THEN p ELSE IF c = q THEN a ELSE IF c = k THEN b ELSE d
OBVIOUS

LEMMA TwoCharacters == Quote # Backslash /\ Quote # Blank
BY DEF Quote, Backslash, Blank

\* The end of a quoted string, sought from a position on: two characters before the end
\* of the text stop it, and before them its value follows from the next two.
LEMMA EndIs ==
    ASSUME NEW t \in Seq(STRING), NEW from \in 1 .. Len(t) + 2
    PROVE  \E end : /\ EndOfQuoted(t, from) = end[from]
                    /\ \A p \in 1 .. Len(t) :
                         end[p] = IF t[p] = Quote
                                  THEN IF p < Len(t) /\ t[p + 1] = Quote THEN end[p + 1] ELSE p + 1
                                  ELSE IF t[p] = Backslash THEN end[p + 2] ELSE end[p + 1]
<1> DEFINE n == Len(t)
<1> DEFINE step(h) ==
        [p \in 1 .. n + 2 |->
            CASE p > n -> p
              [] p <= n /\ t[p] = Quote -> IF p < n /\ t[p + 1] = Quote THEN h[p + 1] ELSE p + 1
              [] p <= n /\ t[p] = Backslash -> h[p + 2]
              [] OTHER -> h[p + 1]]
<1> DEFINE Val(p, a, b) ==
        IF p > n THEN p
        ELSE IF t[p] = Quote THEN IF p < n /\ t[p + 1] = Quote THEN a ELSE p + 1
        ELSE IF t[p] = Backslash THEN b ELSE a
<1> DEFINE T == Int \X Int
<1> DEFINE F == [p \in Nat \X T |-> <<Val(n + 2 - p[1], p[2][1], p[2][2]), p[2][1]>>]
<1>1. n \in Nat
  OBVIOUS
<1>2. ASSUME NEW p \in Int, NEW a \in Int, NEW b \in Int
      PROVE  Val(p, a, b) \in Int
  OBVIOUS
<1>3. F \in [Nat \X T -> T]
  <2> SUFFICES ASSUME NEW p \in Nat \X T
               PROVE  <<Val(n + 2 - p[1], p[2][1], p[2][2]), p[2][1]>> \in T
    OBVIOUS
  <2>1. p[1] \in Nat /\ p[2] \in T /\ p[2][1] \in Int /\ p[2][2] \in Int
    OBVIOUS
  <2>2. n + 2 - p[1] \in Int
    BY <1>1, <2>1
  <2> HIDE DEF Val, n
  <2> QED
    BY <1>2, <2>1, <2>2
<1>4. \E h : h = step(h)
  <2>1. \E g : Recursive_(g, T, <<n + 2, 0>>, F, n + 1)
    <3>1. <<n + 2, 0>> \in T /\ n + 1 \in Nat
      BY <1>1
    <3> HIDE DEF F, T, n
    <3> QED
      BY <1>3, <3>1, Recursion
  <2>2. PICK g : Recursive_(g, T, <<n + 2, 0>>, F, n + 1)
    BY <2>1
  <2> HIDE DEF n
  <2>3. /\ \A k \in 0 .. n + 1 : g[k] \in T
        /\ g[0] = <<n + 2, 0>>
        /\ \A k \in 1 .. n + 1 : g[k] = F[<<k, g[k - 1]>>]
    <3> HIDE DEF F, T
    <3> QED
      BY <2>2 DEF Recursive_
  <2>4. \A k \in 1 .. n + 1 : g[k] = <<Val(n + 2 - k, g[k - 1][1], g[k - 1][2]), g[k - 1][1]>>
    <3> SUFFICES ASSUME NEW k \in 1 .. n + 1
                 PROVE  F[<<k, g[k - 1]>>] = <<Val(n + 2 - k, g[k - 1][1], g[k - 1][2]), g[k - 1][1]>>
      BY <2>3
    <3>1. k \in Nat /\ k - 1 \in 0 .. n + 1
      BY <1>1
    <3>2. g[k - 1] \in T
      BY <2>3, <3>1
    <3> HIDE DEF T, Val
    <3> QED
      BY <3>1, <3>2
  <2> DEFINE e == [p \in 1 .. n + 2 |-> g[n + 2 - p][1]]
  <2>5. ASSUME NEW p \in 1 .. n + 2
        PROVE  e[p] = CASE p > n -> p
                        [] p <= n /\ t[p] = Quote -> IF p < n /\ t[p + 1] = Quote THEN e[p + 1] ELSE p + 1
                        [] p <= n /\ t[p] = Backslash -> e[p + 2]
                        [] OTHER -> e[p + 1]
    <3>1. e[p] = g[n + 2 - p][1]
      OBVIOUS
    <3>2. CASE p = n + 2
      <4>1. n + 2 - p = 0 /\ p > n
        BY <1>1, <3>2
      <4>2. e[p] = p
        BY <2>3, <3>1, <3>2, <4>1
      <4> HIDE DEF e
      <4> QED
        BY <1>1, <4>1, <4>2, Arms, TwoCharacters
    <3>3. CASE p # n + 2
      <4> DEFINE k == n + 2 - p
      <4>1. k \in 1 .. n + 1 /\ n + 2 - k = p /\ n + 2 - (p + 1) = k - 1 /\ p \in Int /\ p + 1 \in 1 .. n + 2
        BY <1>1, <3>3
      <4>2. e[p] = Val(p, g[k - 1][1], g[k - 1][2]) /\ e[p + 1] = g[k - 1][1]
        <5>1. g[k] = <<Val(n + 2 - k, g[k - 1][1], g[k - 1][2]), g[k - 1][1]>>
          BY <2>4, <4>1
        <5>2. g[k][1] = Val(p, g[k - 1][1], g[k - 1][2])
          <6> HIDE DEF Val, k
          <6>1. g[k][1] = Val(n + 2 - k, g[k - 1][1], g[k - 1][2])
            BY <5>1
          <6> QED
            BY Zenon, <4>1, <6>1
        <5> HIDE DEF Val
        <5> QED
          BY <3>1, <4>1, <5>2
      <4>3. ASSUME p <= n
            PROVE  e[p + 2] = g[k - 1][2]
        <5>1. k - 1 \in 1 .. n + 1 /\ p + 2 \in 1 .. n + 2 /\ n + 2 - (p + 2) = (k - 1) - 1
          BY <1>1, <4>1, <4>3
        <5>2. g[k - 1] = <<Val(n + 2 - (k - 1), g[(k - 1) - 1][1], g[(k - 1) - 1][2]), g[(k - 1) - 1][1]>>
          BY <2>4, <5>1
        <5>3. g[k - 1][2] = g[(k - 1) - 1][1]
          <6> HIDE DEF Val, k
          <6> QED
            BY <5>2
        <5>4. e[p + 2] = g[n + 2 - (p + 2)][1]
          BY <5>1
        <5> HIDE DEF k, e
        <5> QED
          BY Zenon, <5>1, <5>3, <5>4
      <4> HIDE DEF e, k
      <4>4. e[p] = IF p > n THEN p
                   ELSE IF t[p] = Quote THEN IF p < n /\ t[p + 1] = Quote THEN e[p + 1] ELSE p + 1
                   ELSE IF t[p] = Backslash THEN e[p + 2] ELSE e[p + 1]
        BY <1>1, <4>1, <4>2, <4>3
      <4> DEFINE a == IF p < n /\ t[p + 1] = Quote THEN e[p + 1] ELSE p + 1
      <4> DEFINE c == CASE p > n -> p [] p <= n /\ t[p] = Quote -> a
                        [] p <= n /\ t[p] = Backslash -> e[p + 2] [] OTHER -> e[p + 1]
      <4>5. n \in Int
        BY <1>1
      <4>6. c = IF p > n THEN p ELSE IF t[p] = Quote THEN a ELSE IF t[p] = Backslash THEN e[p + 2] ELSE e[p + 1]
        <5> DEFINE x == t[p]
        <5> DEFINE b == e[p + 2]
        <5> DEFINE d == e[p + 1]
        <5> HIDE DEF a, b, d, x
        <5>1. (CASE p > n -> p [] p <= n /\ x = Quote -> a [] p <= n /\ x = Backslash -> b [] OTHER -> d)
                  = IF p > n THEN p ELSE IF x = Quote THEN a ELSE IF x = Backslash THEN b ELSE d
          <6>1. p \in Int /\ Quote # Backslash
            BY <4>1, TwoCharacters
          <6>2. CASE p > n
            BY <6>1, <6>2, <4>5
          <6>3. CASE p <= n /\ x = Quote
            BY <6>1, <6>3, <4>5
          <6>4. CASE p <= n /\ x = Backslash
            BY <6>1, <6>4, <4>5
          <6>5. CASE p <= n /\ x # Quote /\ x # Backslash
            BY <6>1, <6>5, <4>5
          <6> QED
            BY <6>1, <6>2, <6>3, <6>4, <6>5, <4>5
        <5> QED
          BY Zenon, <5>1 DEF b, d, x
      <4>7. e[p] = c
        <5> HIDE DEF c
        <5> QED
          BY Zenon, <4>4, <4>6
      <4> QED
        BY Zenon, <4>7
    <3> QED
      BY <3>2, <3>3
  <2>6. e = step(e)
    <3>1. e = [p \in 1 .. n + 2 |-> e[p]]
      OBVIOUS
    <3> HIDE DEF e
    <3> QED
      BY <2>5, <3>1
  <2> HIDE DEF e
  <2> QED
    BY <2>6
<1>5. \E h : h = step(h) /\ EndOfQuoted(t, from) = h[from]
  BY <1>4 DEF EndOfQuoted
<1>6. PICK h : h = step(h) /\ EndOfQuoted(t, from) = h[from]
  BY <1>5
<1>7. ASSUME NEW p \in 1 .. n
      PROVE  h[p] = IF t[p] = Quote THEN IF p < n /\ t[p + 1] = Quote THEN h[p + 1] ELSE p + 1
                    ELSE IF t[p] = Backslash THEN h[p + 2] ELSE h[p + 1]
  <2>1. h[p] = step(h)[p]
    <3> HIDE DEF step
    <3> QED
      BY <1>6
  <2>2. p \in 1 .. n + 2 /\ p <= n /\ ~(p > n)
    BY <1>1
  <2> QED
    BY <2>1, <2>2 DEF Quote, Backslash
<1> QED
  BY <1>6, <1>7

\* The end lies behind the closing quote: s is what stands in t behind its first a
\* characters, c the closing quote of s, and no second quote follows it.
LEMMA EndOfString ==
    ASSUME NEW t \in Seq(STRING), NEW a \in Nat, NEW s \in Seq(STRING),
           Len(s) = Len(t) - a, \A i \in 1 .. Len(s) : s[i] = t[a + i],
           NEW c \in Closing(s), \A k \in Closing(s) : c <= k, c > 2, s[2] # Backslash,
           c = Len(s) \/ s[c + 1] # Quote
    PROVE  EndOfQuoted(t, a + 3) = a + c + 1
<1> DEFINE n == Len(t)
<1> DEFINE esc == Escaped(s)
<1>1. n \in Nat /\ Len(s) \in Nat /\ n = a + Len(s)
  OBVIOUS
<1>2. c \in 3 .. Len(s) /\ s[c] = Quote /\ ~esc[c]
  BY <1>1 DEF Closing
<1>3. \A i \in 1 .. Len(s) : esc[i] = (i > 2 /\ s[i - 1] = Backslash /\ ~esc[i - 1])
  BY EscapedIs
<1>4. ASSUME NEW p \in 2 .. c - 1, ~esc[p]
      PROVE  s[p] # Quote
  <2>1. p \in 2 .. Len(s) /\ ~(c <= p)
    BY <1>1, <1>2
  <2>2. p \notin Closing(s)
    BY <2>1
  <2> QED
    BY <1>4, <2>1, <2>2 DEF Closing
<1> HIDE DEF esc
<1>5. a + 3 \in 1 .. Len(t) + 2
  BY <1>1, <1>2
<1>6. PICK end : /\ EndOfQuoted(t, a + 3) = end[a + 3]
                 /\ \A p \in 1 .. n :
                      end[p] = IF t[p] = Quote
                               THEN IF p < n /\ t[p + 1] = Quote THEN end[p + 1] ELSE p + 1
                               ELSE IF t[p] = Backslash THEN end[p + 2] ELSE end[p + 1]
  BY <1>5, EndIs
<1> HIDE DEF n
<1> DEFINE S == {k \in Nat : \A p \in 3 .. c : c - p <= k /\ ~esc[p] => end[a + p] = a + c + 1}
<1>7. 0 \in S
  <2> SUFFICES ASSUME NEW p \in 3 .. c, c - p <= 0 PROVE end[a + p] = a + c + 1
    OBVIOUS
  <2>1. p = c /\ a + p \in 1 .. n /\ a + p \in Nat
    BY <1>1, <1>2
  <2>2. t[a + p] = Quote
    BY <1>2, <2>1
  <2>3. ~(a + p < n /\ t[a + p + 1] = Quote)
    <3> SUFFICES ASSUME a + p < n PROVE t[a + p + 1] # Quote
      OBVIOUS
    <3>1. c + 1 \in 1 .. Len(s) /\ a + (c + 1) = a + p + 1 /\ c # Len(s)
      BY <1>1, <1>2, <2>1
    <3>2. s[c + 1] = t[a + (c + 1)]
      BY <3>1
    <3> QED
      BY <3>1, <3>2
  <2>4. end[a + p] = a + p + 1
    BY <1>6, <2>1, <2>2, <2>3
  <2> QED
    BY <2>1, <2>4
<1>8. ASSUME NEW k \in Nat, k \in S PROVE k + 1 \in S
  <2> SUFFICES ASSUME NEW p \in 3 .. c, c - p <= k + 1, ~esc[p] PROVE end[a + p] = a + c + 1
    OBVIOUS
  <2>1. CASE c - p <= k
    BY <1>8, <2>1
  <2>2. CASE ~(c - p <= k)
    <3>1. p \in 2 .. c - 1 /\ p + 1 \in 3 .. c /\ c - (p + 1) <= k /\ p \in Nat /\ c \in Nat
      BY <1>1, <1>2, <2>2
    <3>2. p \in 1 .. Len(s) /\ p + 1 \in 1 .. Len(s) /\ (p + 1) - 1 = p /\ p + 1 > 2
      BY <1>1, <1>2, <3>1
    <3>3. a + p \in 1 .. n /\ t[a + p] = s[p] /\ s[p] # Quote
      BY <1>1, <1>4, <3>1, <3>2
    <3>4. end[a + p] = IF s[p] = Backslash THEN end[a + p + 2] ELSE end[a + p + 1]
      BY <1>6, <3>3
    <3>5. esc[p + 1] = (s[p] = Backslash)
      <4>1. esc[p + 1] = (p + 1 > 2 /\ s[(p + 1) - 1] = Backslash /\ ~esc[(p + 1) - 1])
        BY <1>3, <3>2
      <4>2. esc[p + 1] = (p + 1 > 2 /\ s[p] = Backslash /\ ~esc[p])
        BY Zenon, <3>2, <4>1
      <4> QED
        BY Zenon, <3>2, <4>2
    <3>6. CASE s[p] # Backslash
      <4>1. ~esc[p + 1]
        BY <3>5, <3>6
      <4>2. end[a + (p + 1)] = a + c + 1
        BY <1>8, <3>1, <4>1
      <4>3. a + (p + 1) = a + p + 1
        BY <3>1
      <4> QED
        BY <3>4, <3>6, <4>2, <4>3
    <3>7. CASE s[p] = Backslash
      <4>1. esc[p + 1]
        BY <3>5, <3>7
      <4>2. p + 1 # c
        BY <1>2, <4>1
      <4>3. p + 2 \in 3 .. c /\ c - (p + 2) <= k /\ p + 2 \in 1 .. Len(s) /\ (p + 2) - 1 = p + 1
        BY <1>1, <1>2, <3>1, <4>2
      <4>4. esc[p + 2] = (p + 2 > 2 /\ s[(p + 2) - 1] = Backslash /\ ~esc[(p + 2) - 1])
        BY <1>3, <4>3
      <4>5. esc[p + 2] = (p + 2 > 2 /\ s[p + 1] = Backslash /\ ~esc[p + 1])
        BY Zenon, <4>3, <4>4
      <4>6. ~esc[p + 2]
        BY Zenon, <4>1, <4>5
      <4>7. end[a + (p + 2)] = a + c + 1
        BY <1>8, <4>3, <4>6
      <4>8. a + (p + 2) = a + p + 2
        BY <3>1
      <4> QED
        BY <3>4, <3>7, <4>7, <4>8
    <3> QED
      BY <3>6, <3>7
  <2> QED
    BY <2>1, <2>2
<1>9. Nat \subseteq S
  <2> HIDE DEF S
  <2> QED
    BY <1>7, <1>8, SetInduction
<1>10. ~esc[3]
  <2>1. 3 \in 1 .. Len(s) /\ 3 - 1 = 2
    BY <1>1, <1>2
  <2>2. esc[3] = (3 > 2 /\ s[3 - 1] = Backslash /\ ~esc[3 - 1])
    BY <1>3, <2>1
  <2>3. esc[3] = (3 > 2 /\ s[2] = Backslash /\ ~esc[2])
    BY Zenon, <2>1, <2>2
  <2> QED
    BY Zenon, <2>3
<1>11. c - 3 \in S /\ 3 \in 3 .. c /\ c - 3 <= c - 3
  <2>1. c - 3 \in Nat /\ 3 \in 3 .. c /\ c - 3 <= c - 3
    BY <1>1, <1>2
  <2>2. c - 3 \in S
    <3> HIDE DEF S
    <3> QED
      BY <1>9, <2>1
  <2> QED
    BY <2>1, <2>2
<1>12. end[a + 3] = a + c + 1
  BY <1>10, <1>11
<1> QED
  BY <1>6, <1>12

\* The end of a text.
LEMMA EndOfText ==
    ASSUME NEW t \in Seq(STRING), NEW idx \in 1 .. Len(t)
    PROVE  /\ SubSeq(t, idx, Len(t)) \in Seq(STRING) /\ SubSeq(t, idx, Len(t)) # <<>>
           /\ Len(SubSeq(t, idx, Len(t))) = Len(t) - (idx - 1)
           /\ \A i \in 1 .. Len(SubSeq(t, idx, Len(t))) : SubSeq(t, idx, Len(t))[i] = t[(idx - 1) + i]
           /\ \A m \in 1 .. Len(t) - (idx - 1) :
                 SubSeq(SubSeq(t, idx, Len(t)), m, Len(t) - (idx - 1)) = SubSeq(t, (idx - 1) + m, Len(t))
<1> DEFINE n == Len(t)
<1> DEFINE s == SubSeq(t, idx, n)
<1>1. n \in Nat /\ idx \in Int /\ n \in Int /\ idx <= n /\ idx > 0
  OBVIOUS
<1>2. \A i \in idx .. n : t[i] \in STRING
  <2> SUFFICES ASSUME NEW i \in idx .. n PROVE t[i] \in STRING
    OBVIOUS
  <2>1. i \in 1 .. Len(t)
    BY <1>1
  <2> QED
    BY <2>1
<1>3. /\ s \in Seq(STRING)
      /\ Len(s) = IF idx <= n THEN n - idx + 1 ELSE 0
      /\ \A i \in 1 .. n - idx + 1 : s[i] = t[idx + i - 1]
  <2> HIDE DEF n
  <2> QED
    BY <1>1, <1>2, SubSeqProperties
<1>4. ASSUME NEW m \in 1 .. n - (idx - 1)
      PROVE  SubSeq(s, m, n - (idx - 1)) = SubSeq(t, (idx - 1) + m, n)
  <2> DEFINE l == n - (idx - 1)
  <2>1. /\ n \in 1 .. n /\ m \in 1 .. n - idx + 1 /\ l \in 1 .. n - idx + 1
        /\ idx + m - 1 = (idx - 1) + m /\ idx + l - 1 = n
    BY <1>1
  <2>2. SubSeq(SubSeq(t, idx, n), m, l) = SubSeq(t, idx + m - 1, idx + l - 1)
    <3> HIDE DEF l
    <3> QED
      BY <2>1, SubSeqOfSubSeq
  <2> QED
    BY <2>1, <2>2
<1> HIDE DEF n, s
<1>5. Len(s) = n - (idx - 1)
  BY <1>1, <1>3
<1>6. ASSUME NEW i \in 1 .. Len(s)
      PROVE  s[i] = t[(idx - 1) + i]
  <2>1. i \in 1 .. n - idx + 1 /\ (idx - 1) + i = idx + i - 1
    BY <1>1, <1>3
  <2> QED
    BY <1>3, <2>1
<1>7. s # <<>>
  <2>1. Len(s) > 0
    BY <1>1, <1>5
  <2> QED
    BY <2>1
<1> QED
  BY <1>3, <1>4, <1>5, <1>6, <1>7 DEF n, s

\* What TrimSpace leaves, from its first quote on, is left alone by TrimSpace.
LEMMA FromQuote ==
    ASSUME NEW x \in Seq(STRING), NEW t, t = TrimSpace(x), NEW idx, {i \in DOMAIN t : t[i] = Quote} # {},
           idx = Min({i \in DOMAIN t : t[i] = Quote}), NEW s, s = SubSeq(t, idx, Len(t))
    PROVE  /\ t \in Seq(STRING) /\ idx \in 1 .. Len(t) /\ s \in Seq(STRING)
           /\ Len(s) = Len(t) - (idx - 1) /\ \A i \in 1 .. Len(s) : s[i] = t[(idx - 1) + i]
           /\ TrimSpace(s) = s
<1>1. t \in Seq(STRING) /\ (t # <<>> => t[Len(t)] # Blank)
  BY Trimmed
<1> DEFINE quotes == {i \in DOMAIN t : t[i] = Quote}
<1>2. Len(t) \in Nat /\ DOMAIN t = 1 .. Len(t)
  BY <1>1
<1>3. quotes \in SUBSET Nat /\ quotes \subseteq 1 .. Len(t)
  BY <1>2
<1>4. idx \in quotes
  <2> HIDE DEF quotes
  <2>1. quotes # {} /\ idx = Min(quotes)
    BY DEF quotes
  <2> QED
    BY <1>3, <2>1, MinOf
<1>5. idx \in 1 .. Len(t) /\ t[idx] = Quote
  BY <1>3, <1>4
<1>7. /\ s \in Seq(STRING) /\ s # <<>>
      /\ Len(s) = Len(t) - (idx - 1) /\ \A i \in 1 .. Len(s) : s[i] = t[(idx - 1) + i]
  BY <1>1, <1>5, EndOfText
<1>9. 1 \in 1 .. Len(s) /\ Len(s) \in 1 .. Len(s) /\ (idx - 1) + 1 = idx /\ (idx - 1) + Len(s) = Len(t)
  <2>1. Len(t) \in Nat /\ idx \in Nat /\ idx > 0 /\ idx <= Len(t)
    BY <1>2, <1>5
  <2> QED
    BY <1>7, <2>1
<1>10. s[1] = Quote /\ s[Len(s)] = t[Len(t)]
  <2>1. s[1] = t[(idx - 1) + 1] /\ s[Len(s)] = t[(idx - 1) + Len(s)]
    BY <1>7, <1>9
  <2> QED
    BY <1>5, <1>9, <2>1
<1>11. t # <<>>
  BY <1>5
<1>12. TrimSpace(s) = s
  BY <1>1, <1>7, <1>10, <1>11, TrimmedIs, TwoCharacters
<1> QED
  BY <1>1, <1>5, <1>7, <1>12

LEMMA RestIsRight == EveryRestIsRight
<1> SUFFICES ASSUME NEW x \in Texts
             PROVE  RestIsWhatFollows(x)
  BY DEF EveryRestIsRight
<1> DEFINE q == extractFirstQuoted(x)
<1> DEFINE t == TrimSpace(x)
<1> DEFINE quotes == {i \in DOMAIN t : t[i] = Quote}
<1> DEFINE idx == Min(quotes)
<1> DEFINE s == SubSeq(t, idx, Len(t))
<1> DEFINE c == Min(Closing(s))
<1> DEFINE p == extractQuotedString(s)
<1> DEFINE end == EndOfQuoted(t, idx + 2)
<1> SUFFICES ASSUME q.ok, c > 2, s[2] # Backslash, c = Len(s) \/ s[c + 1] # Quote
             PROVE  ~q.panic /\ q.rest = TrimSpace(SubSeq(s, c + 1, Len(s)))
  BY DEF RestIsWhatFollows
<1>1. q = IF quotes = {} \/ ~p.ok THEN ParseError
          ELSE [p EXCEPT !.panic = end > Len(t) + 1,
                         !.rest = IF end > Len(t) THEN <<>> ELSE TrimSpace(SubSeq(t, end, Len(t)))]
  BY DEF extractFirstQuoted
<1>2. ParseError.ok = FALSE
  BY DEF ParseError
<1>3. quotes # {} /\ p.ok
  BY <1>1, <1>2
<1>4. /\ t \in Seq(STRING) /\ idx \in 1 .. Len(t) /\ s \in Seq(STRING)
      /\ Len(s) = Len(t) - (idx - 1) /\ \A i \in 1 .. Len(s) : s[i] = t[(idx - 1) + i]
      /\ TrimSpace(s) = s
  <2>1. x \in Seq(STRING)
    BY ScriptsAssumption
  <2> HIDE DEF t, s
  <2> QED
    BY <1>3, <2>1, FromQuote DEF t, s
<1>5. /\ Closing(s) # {}
      /\ \E v : p = [ok |-> TRUE, panic |-> FALSE, rest |-> <<>>, val |-> v]
  <2> DEFINE u == TrimSpace(s)
  <2> DEFINE Kept(i) == u[i] # Backslash \/ Escaped(u)[i]
  <2> DEFINE keep == SelectSeq([i \in 1 .. Min(Closing(u)) - 2 |-> i + 1], Kept)
  <2> DEFINE v == [k \in DOMAIN keep |-> u[keep[k]]]
  <2> DEFINE bad == Len(u) < 2 \/ u[1] # Quote \/ Closing(u) = {}
  <2>1. p = IF bad THEN ParseError ELSE [ok |-> TRUE, panic |-> FALSE, rest |-> <<>>, val |-> v]
    BY DEF extractQuotedString
  <2> HIDE DEF v, bad, p
  <2>2. ~bad
    BY <1>2, <1>3, <2>1
  <2>3. p = [ok |-> TRUE, panic |-> FALSE, rest |-> <<>>, val |-> v]
    BY <2>1, <2>2
  <2>4. Closing(s) # {}
    <3> HIDE DEF s
    <3> QED
      BY Zenon, <1>4, <2>2 DEF bad
  <2> QED
    BY <2>3, <2>4
<1> HIDE DEF q, t, quotes, idx, s, p
<1>6. c \in Closing(s) /\ (\A k \in Closing(s) : c <= k) /\ c \in 2 .. Len(s)
  <2> DEFINE C == Closing(s)
  <2>1. C \in SUBSET Nat /\ C \subseteq 2 .. Len(s)
    BY <1>4 DEF Closing
  <2>2. C # {}
    BY <1>5
  <2> HIDE DEF C
  <2>3. Min(C) \in C /\ \A k \in C : Min(C) <= k
    BY <2>1, <2>2, MinOf
  <2> QED
    BY <2>1, <2>3 DEF C
<1> HIDE DEF c
<1>7. end = (idx - 1) + c + 1
  <2>1. idx - 1 \in Nat /\ idx + 2 = (idx - 1) + 3
    BY <1>4
  <2>2. EndOfQuoted(t, (idx - 1) + 3) = (idx - 1) + c + 1
    BY <1>4, <1>6, <2>1, EndOfString
  <2> QED
    BY <2>1, <2>2
<1> HIDE DEF end
<1>8. /\ q.panic = (end > Len(t) + 1)
      /\ q.rest = IF end > Len(t) THEN <<>> ELSE TrimSpace(SubSeq(t, end, Len(t)))
  <2> DEFINE rest == IF end > Len(t) THEN <<>> ELSE TrimSpace(SubSeq(t, end, Len(t)))
  <2> DEFINE panic == end > Len(t) + 1
  <2>1. q = [p EXCEPT !.panic = panic, !.rest = rest]
    BY <1>1, <1>3
  <2> HIDE DEF rest, panic
  <2>2. q.panic = panic /\ q.rest = rest
    BY <1>5, <2>1
  <2> QED
    BY <2>2 DEF rest, panic
<1>9. end \in Nat /\ Len(t) \in Nat /\ end <= Len(t) + 1 /\ c \in Nat /\ Len(s) \in Nat
  BY <1>4, <1>6, <1>7
<1>10. ~q.panic
  <2>1. ~(end > Len(t) + 1)
    BY <1>9
  <2> QED
    BY <1>8, <2>1
<1>11. CASE c = Len(s)
  <2>1. end > Len(t) /\ c + 1 \in Int /\ Len(s) \in Int /\ Len(s) < c + 1
    BY <1>4, <1>7, <1>9, <1>11
  <2>2. SubSeq(s, c + 1, Len(s)) = <<>>
    BY <2>1, SubSeqEmpty
  <2>3. TrimSpace(<<>>) = <<>>
    BY DEF TrimSpace
  <2>4. q.rest = <<>>
    BY <1>8, <2>1
  <2> QED
    BY Zenon, <1>10, <2>2, <2>3, <2>4
<1>12. CASE c # Len(s)
  <2> DEFINE n == Len(t)
  <2> DEFINE l == Len(s)
  <2>1. n \in Nat /\ l \in Nat /\ c \in Nat /\ idx \in Nat /\ l = n - (idx - 1) /\ 2 <= c /\ c <= l /\ idx > 0
    BY <1>4, <1>6, <1>9
  <2> HIDE DEF n, l
  <2>2. c + 1 \in 1 .. n - (idx - 1) /\ (idx - 1) + (c + 1) = (idx - 1) + c + 1 /\ ~((idx - 1) + c + 1 > n)
    BY <1>12, <2>1 DEF l
  <2>3. SubSeq(s, c + 1, Len(s)) = SubSeq(t, end, Len(t)) /\ ~(end > Len(t))
    <3>1. SubSeq(SubSeq(t, idx, n), c + 1, n - (idx - 1)) = SubSeq(t, (idx - 1) + (c + 1), n)
      BY <1>4, <2>2, EndOfText DEF n
    <3> QED
      BY Zenon, <1>7, <2>1, <2>2, <3>1 DEF s, n, l
  <2>4. q.rest = TrimSpace(SubSeq(t, end, Len(t)))
    BY <1>8, <2>3
  <2> QED
    BY Zenon, <1>10, <2>3, <2>4
<1> QED
  BY <1>11, <1>12

\* Reading, listing and running scripts, for every text, tree and script file.
THEOREM ScriptIsReportedHolds == ScriptInit /\ [][ScriptNext]_script => []ScriptIsReported
<1>1. RunnerInv => ScriptIsReported
  <2> SUFFICES ASSUME RunnerInv PROVE ScriptIsReported
    OBVIOUS
  <2>1. script.client = "ok" => \A i \in DOMAIN script.results : script.results[i] = "ok"
    BY DEF RunnerInv
  <2> QED
    BY <2>1, RestIsRight, TreesAreRight DEF RunnerInv, ExportsAreRight, ScriptIsReported
<1> QED
  BY <1>1, RunnerInit, RunnerStep, PTL

-------------------------------------------------------------------------------
(* The commands, tools and enum values of plugins.                         *)

\* Paths of at most a service and a method differ if a part that both have does.
LEMMA PathsDiffer ==
    ASSUME NEW a, NEW b, NEW c, NEW d
    PROVE  /\ a # b => <<a>> \o <<>> # <<b>> \o <<>> /\ <<a>> \o <<>> # <<b>> \o <<d>>
                       /\ <<a>> \o <<c>> # <<b>> \o <<>> /\ <<a>> \o <<c>> # <<b>> \o <<d>>
           /\ c # d => <<>> \o <<c>> # <<>> \o <<d>> /\ <<a>> \o <<c>> # <<a>> \o <<d>>
<1> DEFINE S == {a, b, c, d}
<1>1. <<>> \in Seq(S) /\ \A x \in S : <<x>> \in Seq(S) /\ Len(<<x>>) = 1 /\ <<x>>[1] = x
  OBVIOUS
<1>2. ASSUME NEW x \in S, NEW s \in Seq(S)
      PROVE  (<<x>> \o s)[1] = x /\ (s # <<>> => (<<x>> \o s)[2] = s[1])
  <2>1. Len(s) \in Nat /\ (s # <<>> => 1 \in 1 .. Len(s))
    BY <1>2
  <2>2. \A i \in 1 .. 1 + Len(s) : (<<x>> \o s)[i] = IF i <= 1 THEN <<x>>[i] ELSE s[i - 1]
    BY <1>1, <1>2
  <2> QED
    BY <1>1, <2>1, <2>2
<1>3. a \in S /\ b \in S /\ c \in S /\ d \in S
  OBVIOUS
<1>4. ASSUME NEW x \in S PROVE <<>> \o <<x>> = <<x>>
  BY <1>1, <1>4
<1> HIDE DEF S
<1>5. ASSUME a # b, NEW s \in {<<>>, <<c>>}, NEW t \in {<<>>, <<d>>} PROVE <<a>> \o s # <<b>> \o t
  BY <1>1, <1>2, <1>3, <1>5
<1>6. ASSUME c # d PROVE <<>> \o <<c>> # <<>> \o <<d>> /\ <<a>> \o <<c>> # <<a>> \o <<d>>
  <2>1. <<c>>[1] = c /\ <<d>>[1] = d /\ <<c>> # <<>> /\ <<d>> # <<>>
    OBVIOUS
  <2>2. (<<a>> \o <<c>>)[2] = c /\ (<<a>> \o <<d>>)[2] = d
    BY <1>1, <1>2, <1>3, <2>1
  <2> QED
    BY <1>3, <1>4, <1>6, <2>1, <2>2
<1> QED
  BY <1>5, <1>6

LEMMA MethodsHaveCommands ==
    ASSUME NEW services \in ServiceSets,
           \A i, j \in ServiceIds(services) : i # j => services[i].short # services[j].short,
           \A m, n \in MethodsOf(services) : m # n /\ m[1] = n[1] =>
               camelToKebab(services[m[1]].methods[m[2]]) # camelToKebab(services[n[1]].methods[n[2]]),
           NEW m \in MethodsOf(services), NEW n \in MethodsOf(services), m # n
    PROVE  CommandPath(services, m[1], m[2]) # CommandPath(services, n[1], n[2])
<1>1. /\ m[1] \in ServiceIds(services) /\ m[2] \in DOMAIN services[m[1]].methods /\ m = <<m[1], m[2]>>
      /\ n[1] \in ServiceIds(services) /\ n[2] \in DOMAIN services[n[1]].methods /\ n = <<n[1], n[2]>>
  BY DEF MethodsOf
<1> DEFINE a == services[m[1]].short
<1> DEFINE b == services[n[1]].short
<1> DEFINE c == camelToKebab(services[m[1]].methods[m[2]])
<1> DEFINE d == camelToKebab(services[n[1]].methods[n[2]])
<1> DEFINE one == Cardinality(ServiceIds(services)) = 1
<1> DEFINE p == Len(services[m[1]].methods) = 1
<1> DEFINE q == Len(services[n[1]].methods) = 1
<1>2. /\ CommandPath(services, m[1], m[2]) = (IF one THEN <<>> ELSE <<a>>) \o (IF p THEN <<>> ELSE <<c>>)
      /\ CommandPath(services, n[1], n[2]) = (IF one THEN <<>> ELSE <<b>>) \o (IF q THEN <<>> ELSE <<d>>)
  BY Zenon DEF CommandPath
<1>3. CASE m[1] = n[1]
  <2>1. m[2] # n[2] /\ p = q /\ a = b /\ c # d
    BY <1>1, <1>3
  <2>2. ~p
    <3>1. services[m[1]].methods \in Seq(Range(services[m[1]].methods))
      BY <1>1, CommandsAssumption DEF ServiceIds
    <3>2. Len(services[m[1]].methods) \in Nat
          /\ DOMAIN services[m[1]].methods = 1 .. Len(services[m[1]].methods)
      BY <3>1
    <3> QED
      BY <1>1, <1>3, <2>1, <3>2
  <2> HIDE DEF a, b, c, d, one, p, q
  <2> QED
    BY <1>2, <2>1, <2>2, PathsDiffer
<1>4. CASE m[1] # n[1]
  <2>1. a # b
    BY <1>1, <1>4
  <2>2. ~one
    <3>1. IsFiniteSet(ServiceIds(services))
      <4>1. services \in Seq(Range(services))
        BY CommandsAssumption
      <4>2. DOMAIN services = 1 .. Len(services) /\ Len(services) \in Nat
        BY <4>1
      <4>3. IsFiniteSet(DOMAIN services)
        BY <4>2, FS_Interval
      <4>4. ServiceIds(services) \in SUBSET DOMAIN services
        BY DEF ServiceIds
      <4> QED
        BY <4>3, <4>4, FS_Subset
    <3>2. ASSUME one PROVE \E x : ServiceIds(services) = {x}
      BY <3>1, <3>2, FS_Singleton
    <3> QED
      BY <1>1, <1>4, <3>2
  <2> HIDE DEF a, b, c, d, one, p, q
  <2> QED
    BY <1>2, <2>1, <2>2, PathsDiffer
<1> QED
  BY <1>3, <1>4

LEMMA MethodsHaveTools ==
    ASSUME NEW services \in ServiceSets,
           \A m, n \in MethodsOf(services) : m # n =>
               services[m[1]].methods[m[2]] # services[n[1]].methods[n[2]],
           NEW m \in MethodsOf(services)
    PROVE  ToolTarget(services, services[m[1]].methods[m[2]]) = m
<1>1. {n \in MethodsOf(services) : services[n[1]].methods[n[2]] = services[m[1]].methods[m[2]]} = {m}
  OBVIOUS
<1>2. m[1] = m[1] /\ m[2] <= m[2]
  <2>1. m[1] \in ServiceIds(services) /\ m[2] \in DOMAIN services[m[1]].methods
    BY DEF MethodsOf
  <2>2. services[m[1]].methods \in Seq(Range(services[m[1]].methods))
    BY <2>1, CommandsAssumption DEF ServiceIds
  <2> QED
    BY <2>1, <2>2
<1>3. (CHOOSE x \in {m} : \A n \in {m} : n[1] < x[1] \/ (n[1] = x[1] /\ n[2] <= x[2])) = m
  BY <1>2
<1> QED
  BY <1>1, <1>3 DEF ToolTarget

\* Each method is reached by a command and by a tool of its own, in any plugin.
THEOREM EveryMethodHasItsCommandHolds == EveryMethodHasItsCommand
  BY MethodsHaveCommands, MethodsHaveTools DEF EveryMethodHasItsCommand

\* The short name of an enum's value that the command line offers is sent in full.
THEOREM EveryEnumResolvesHolds == EveryEnumResolves
<1> SUFFICES ASSUME NEW values \in EnumSets, NEW v \in values,
                    NEW typed, typed = stripEnumPrefix(v, <<"P">>),
                    typed = v \/ typed \notin values
             PROVE  resolveEnumValue(typed, values, <<"P">>) = v
  BY DEF EveryEnumResolves
<1>1. CASE typed = v
  BY <1>1 DEF resolveEnumValue
<1>2. CASE typed # v
  <2>1. v \in Seq(Range(v)) /\ Len(v) \in Nat
    BY CommandsAssumption
  <2>2. Len(v) > 1 /\ IsPrefix(<<"P">>, v) /\ typed = SubSeq(v, 2, Len(v))
    BY <1>2, <2>1 DEF stripEnumPrefix
  <2>3. v[1] = "P"
    BY <2>1, <2>2 DEF IsPrefix
  <2>4. <<"P">> \o typed = v
    BY <2>1, <2>2, <2>3
  <2>5. typed \notin values
    BY <1>2
  <2> QED
    BY <2>4, <2>5 DEF resolveEnumValue
<1> QED
  BY <1>1, <1>2

================================================================================
