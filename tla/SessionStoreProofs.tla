-------------------------- MODULE SessionStoreProofs --------------------------
(***************************************************************************)
(* Theorems about sessions and the shells their commands run in.           *)
(***************************************************************************)
EXTENDS SessionStore, TLAPS

USE SessionAssumption

Pcs == {"idle", "ensure", "lock", "read", "close"}
Lines == [cmd : Cmds, kind : {"line", "delim"}]

\* A call that runs commands has one, and past ensureShell it has a shell.
CallOK(t) ==
    /\ pc[t] \in {"ensure", "lock", "read"} => call[t].todo # <<>>
    /\ pc[t] \in {"lock", "read"} => call[t].sh \in Shells

\* LiveShellsAreOwned, and what makes it last: a session's shell was started for it, so
\* that a shell which has not been started yet is nobody's.
Owned ==
    /\ \A h \in alive : home[h] \in Sessions /\ shell[home[h]] = h
    /\ \A h \in alive : home[h] \in finalized => Closing(home[h])
    /\ \A s \in Sessions : shell[s] # NoShell => home[shell[s]] = s

OwnInv == TypeOK /\ (\A t \in Threads : CallOK(t)) /\ Owned

-------------------------------------------------------------------------------
(* Types.                                                                  *)

LEMMA NoCallType == NoCall \in CallType
  <1>1. AnySession \in Sessions BY DEF AnySession
  <1>2. <<>> \in Seq(Cmds) OBVIOUS
  <1> QED BY <1>1, <1>2 DEF NoCall, CallType

LEMMA CallTypes ==
    ASSUME NEW c \in CallType
    PROVE  /\ \A h \in Shells : [c EXCEPT !.sh = h] \in CallType /\ [c EXCEPT !.sh = h].todo = c.todo
           /\ \A n \in Cmds : /\ [c EXCEPT !.got = @ \cup {n}] \in CallType
                              /\ [c EXCEPT !.got = @ \cup {n}].todo = c.todo
                              /\ [c EXCEPT !.got = @ \cup {n}].sh = c.sh
           /\ c.todo # <<>> => /\ [c EXCEPT !.todo = Tail(@), !.got = {}] \in CallType
                               /\ [c EXCEPT !.todo = Tail(@), !.got = {}].todo = Tail(c.todo)
  <1>1. \A h \in Shells : [c EXCEPT !.sh = h] \in CallType /\ [c EXCEPT !.sh = h].todo = c.todo
    BY DEF CallType
  <1>2. ASSUME NEW n \in Cmds
        PROVE  [c EXCEPT !.got = @ \cup {n}] \in CallType /\ [c EXCEPT !.got = @ \cup {n}].todo = c.todo
               /\ [c EXCEPT !.got = @ \cup {n}].sh = c.sh
    BY DEF CallType
  <1>3. ASSUME c.todo # <<>>
        PROVE  /\ [c EXCEPT !.todo = Tail(@), !.got = {}] \in CallType
               /\ [c EXCEPT !.todo = Tail(@), !.got = {}].todo = Tail(c.todo)
    <2>1. Tail(c.todo) \in Seq(Cmds) BY <1>3 DEF CallType
    <2> QED BY <2>1 DEF CallType
  <1> QED BY <1>1, <1>2, <1>3

LEMMA QueueTypes ==
    ASSUME TypeOK, NEW h \in Shells
    PROVE  /\ inq[h] \in Seq(Cmds) /\ outq[h] \in Seq(Lines)
           /\ inq[h] # <<>> => Head(inq[h]) \in Cmds /\ Tail(inq[h]) \in Seq(Cmds)
           /\ outq[h] # <<>> => Head(outq[h]) \in Lines /\ Tail(outq[h]) \in Seq(Lines)
           /\ \A n \in Cmds : line(n) \in Lines /\ delim(n) \in Lines
           /\ [outq EXCEPT ![h] = Tail(@)] \in [Shells -> Seq(Lines)] \/ outq[h] = <<>>
  <1>1. outq \in [Shells -> Seq(Lines)] /\ inq[h] \in Seq(Cmds) BY DEF TypeOK, Lines
  <1>2. outq[h] \in Seq(Lines) BY <1>1
  <1> DEFINE L == Lines
  <1>3. outq[h] \in Seq(L) BY <1>2
  <1> HIDE DEF L
  <1>4. outq[h] # <<>> => Head(outq[h]) \in L /\ Tail(outq[h]) \in Seq(L) BY <1>3
  <1>5. inq[h] # <<>> => Head(inq[h]) \in Cmds /\ Tail(inq[h]) \in Seq(Cmds) BY <1>1
  <1>6. \A n \in Cmds : line(n) \in Lines /\ delim(n) \in Lines BY DEF line, delim, Lines
  <1> USE DEF L
  <1>7. [outq EXCEPT ![h] = Tail(@)] \in [Shells -> Seq(Lines)] \/ outq[h] = <<>> BY <1>1, <1>4
  <1> QED BY <1>1, <1>2, <1>4, <1>5, <1>6, <1>7

LEMMA InitOwn == Init => OwnInv
  <1> SUFFICES ASSUME Init PROVE OwnInv
    OBVIOUS
  <1>1. TypeOK
    <2>1. call \in [Threads -> CallType] BY NoCallType DEF Init
    <2>2. /\ cmds \in Seq(Kinds) /\ inq \in [Shells -> Seq(Cmds)]
          /\ outq \in [Shells -> Seq([cmd : Cmds, kind : {"line", "delim"}])]
      BY DEF Init
    <2> QED BY <2>1, <2>2 DEF Init, TypeOK
  <1>2. (\A t \in Threads : CallOK(t)) /\ Owned
    BY DEF Init, CallOK, Owned
  <1> QED BY <1>1, <1>2 DEF OwnInv

\* What NextCommand leaves of a call that runs a command.
LEMMA NextCommandCall ==
    ASSUME TypeOK, NEW t \in Threads, CallOK(t), NextCommand(t)
    PROVE  \E l \in {"idle", "lock"}, c \in CallType :
               /\ pc' = [pc EXCEPT ![t] = l] /\ call' = [call EXCEPT ![t] = c]
               /\ l = "lock" => c = [call[t] EXCEPT !.todo = Tail(@), !.got = {}]
                                /\ Len(call[t].todo) > 1
               /\ l = "idle" => c = NoCall
  <1>1. CASE Len(call[t].todo) > 1
    <2> DEFINE c == [call[t] EXCEPT !.todo = Tail(@), !.got = {}]
    <2>1. call[t] \in CallType /\ call[t].todo # <<>> BY <1>1 DEF TypeOK
    <2> c \in CallType BY Zenon, <2>1, CallTypes
    <2>2. call' = [call EXCEPT ![t] = c] /\ pc' = [pc EXCEPT ![t] = "lock"]
      BY <1>1 DEF NextCommand, Goto
    <2> WITNESS "lock" \in {"idle", "lock"}, c \in CallType
    <2> QED BY <1>1, <2>2
  <1>2. CASE ~(Len(call[t].todo) > 1)
    <2> NoCall \in CallType BY NoCallType
    <2> WITNESS "idle" \in {"idle", "lock"}, NoCall \in CallType
    <2> QED BY <1>2 DEF NextCommand, Return, Goto
  <1> QED BY <1>1, <1>2

\* A step that changes a call, and no session and no shell's owner.
LEMMA CallChanges ==
    ASSUME OwnInv, NEW t \in Threads, NEW l \in Pcs \ {"close"}, NEW c \in CallType,
           pc[t] # "close",
           pc' = [pc EXCEPT ![t] = l], call' = [call EXCEPT ![t] = c],
           l \in {"ensure", "lock", "read"} => c.todo # <<>>,
           l \in {"lock", "read"} => c.sh \in Shells,
           UNCHANGED <<known, finalized, shell, home, alive>>
    PROVE  /\ pc' \in [Threads -> Pcs] /\ call' \in [Threads -> CallType]
           /\ (\A u \in Threads : CallOK(u))' /\ Owned'
  <1>1. pc' \in [Threads -> Pcs] /\ call' \in [Threads -> CallType]
    BY DEF OwnInv, TypeOK, Pcs
  <1>2. \A u \in Threads : /\ pc'[u] = IF u = t THEN l ELSE pc[u]
                           /\ call'[u] = IF u = t THEN c ELSE call[u]
    BY DEF OwnInv, TypeOK
  <1>3. (\A u \in Threads : CallOK(u))' BY <1>2 DEF OwnInv, CallOK
  <1>4. \A s : Closing(s) => Closing(s)' BY <1>2 DEF Closing
  <1>5. Owned' BY <1>4 DEF OwnInv, Owned
  <1> QED BY <1>1, <1>3, <1>5

\* The same, when the thread leaves the shell.
LEMMA CallEnds ==
    ASSUME OwnInv, NEW t \in Threads, pc[t] \in {"lock", "read"}, NextCommand(t) \/ Return(t),
           UNCHANGED <<known, finalized, shell, home, alive>>
    PROVE  /\ pc' \in [Threads -> Pcs] /\ call' \in [Threads -> CallType]
           /\ (\A u \in Threads : CallOK(u))' /\ Owned'
  <1>1. CASE NextCommand(t)
    <2>1. TypeOK /\ CallOK(t) /\ call[t] \in CallType /\ call[t].sh \in Shells
      BY DEF OwnInv, CallOK, TypeOK
    <2>2. PICK l \in {"idle", "lock"}, c \in CallType :
               /\ pc' = [pc EXCEPT ![t] = l] /\ call' = [call EXCEPT ![t] = c]
               /\ l = "lock" => c = [call[t] EXCEPT !.todo = Tail(@), !.got = {}]
                                /\ Len(call[t].todo) > 1
      BY Zenon, <1>1, <2>1, NextCommandCall
    <2>3. ASSUME l = "lock" PROVE c.todo # <<>> /\ c.sh = call[t].sh
      <3>1. call[t].todo \in Seq(Cmds) /\ Len(call[t].todo) > 1 BY <2>1, <2>2, <2>3 DEF CallType
      <3> DEFINE q == call[t].todo
      <3>q. q \in Seq(Cmds) /\ Len(q) > 1 BY <3>1
      <3> HIDE DEF q
      <3>2. Len(Tail(q)) = Len(q) - 1 BY <3>q
      <3>t. Len(Tail(q)) > 0 BY <3>q, <3>2
      <3>3. Tail(q) # <<>> BY <3>t
      <3> USE DEF q
      <3>4. c = [call[t] EXCEPT !.todo = Tail(@), !.got = {}] BY <2>2, <2>3
      <3> QED BY <2>1, <3>3, <3>4 DEF CallType
    <2> QED BY <2>1, <2>2, <2>3, CallChanges DEF Pcs
  <1>2. CASE Return(t)
    <2>1. pc' = [pc EXCEPT ![t] = "idle"] /\ call' = [call EXCEPT ![t] = NoCall]
      BY <1>2 DEF Return, Goto
    <2> QED BY <2>1, NoCallType, CallChanges DEF Pcs
  <1> QED BY <1>1, <1>2

LEMMA OwnStep == OwnInv /\ [Next]_vars => OwnInv'
  <1> SUFFICES ASSUME OwnInv, [Next]_vars PROVE OwnInv'
    OBVIOUS
  <1> TypeOK /\ (\A t \in Threads : CallOK(t)) /\ Owned
    BY DEF OwnInv
  <1>1. ASSUME NEW t \in Threads, NEW s \in Sessions, Connect(t, s) PROVE OwnInv'
    <2>1. TypeOK' BY <1>1 DEF Connect, TypeOK, locks, shells
    <2>2. (\A u \in Threads : CallOK(u))' BY <1>1 DEF Connect, CallOK
    <2>3. Owned' BY <1>1 DEF Connect, Owned, Closing, shells
    <2> QED BY <2>1, <2>2, <2>3 DEF OwnInv
  <1>2. ASSUME NEW t \in Threads, NEW s \in Sessions, NEW op \in {"exec", "stream", "script"},
               ResolveSession(t, s, op)
        PROVE  OwnInv'
    <2> DEFINE n == Len(cmds)
               m == Commands(op)
               todo == [i \in 1 .. m |-> n + i]
               c == [NoCall EXCEPT !.op = op, !.sess = s, !.todo = todo]
    <2>1. n \in Nat /\ m \in 1 .. 2 /\ n + m <= MaxCmds
      BY <1>2 DEF ResolveSession, Commands, TypeOK
    <2>2. todo \in Seq(Cmds) /\ todo # <<>>
      <3>1. \A i \in 1 .. m : n + i \in Cmds BY <2>1 DEF Cmds
      <3>2. todo \in [1 .. m -> Cmds] BY <3>1
      <3> HIDE DEF todo
      <3>3. todo \in Seq(Cmds) BY <2>1, <3>2
      <3>4. DOMAIN todo = 1 .. m BY <3>2
      <3>5. Len(todo) = m BY <2>1, <3>3, <3>4
      <3> QED BY <2>1, <3>3, <3>5
    <2>3. c \in CallType /\ c.todo = todo
      <3> HIDE DEF todo
      <3> QED BY <2>2, NoCallType DEF CallType
    <2>4. pc' = [pc EXCEPT ![t] = "ensure"] /\ call' = [call EXCEPT ![t] = c] /\ pc[t] = "idle"
      BY <1>2 DEF ResolveSession, Goto
    <2>5. UNCHANGED <<store, locks, home, alive, inq, outq, abandoned>>
      BY <1>2 DEF ResolveSession
    <2>6. cmds' \in Seq(Kinds)
      <3>1. PICK ks \in [1 .. m -> Kinds] : cmds' = cmds \o ks BY <1>2 DEF ResolveSession
      <3>2. ks \in Seq(Kinds) BY <2>1
      <3> QED BY <3>1, <3>2 DEF TypeOK
    <2> HIDE DEF c
    <2>7. /\ pc' \in [Threads -> Pcs] /\ call' \in [Threads -> CallType]
          /\ (\A u \in Threads : CallOK(u))' /\ Owned'
      BY <2>2, <2>3, <2>4, <2>5, CallChanges DEF Pcs, store
    <2> QED BY <2>5, <2>6, <2>7 DEF OwnInv, TypeOK, Pcs, store, locks
  <1>3. ASSUME NEW t \in Threads, NEW s \in Sessions, Finalize(t, s) PROVE OwnInv'
    <2> DEFINE c == [NoCall EXCEPT !.op = "finalize", !.sess = s]
    <2>1. c \in CallType /\ c.sess = s BY NoCallType DEF CallType
    <2>2. pc' = [pc EXCEPT ![t] = "close"] /\ call' = [call EXCEPT ![t] = c]
      BY <1>3 DEF Finalize, Goto
    <2> HIDE DEF c
    <2>3. TypeOK'
      <3>1. known' \subseteq Sessions /\ finalized' \subseteq known' BY <1>3 DEF Finalize, TypeOK
      <3>2. pc' \in [Threads -> Pcs] /\ call' \in [Threads -> CallType] BY <2>1, <2>2 DEF TypeOK, Pcs
      <3>3. storeMu' \in Threads \cup {Free} /\ sessMu' \in [Sessions -> Threads \cup {Free}]
        BY <1>3 DEF Finalize, TypeOK
      <3> QED BY <1>3, <3>1, <3>2, <3>3 DEF Finalize, TypeOK, Pcs, shells
    <2>4. (\A u \in Threads : CallOK(u))' BY <2>2 DEF CallOK, TypeOK
    <2>5. \A r : Closing(r) => Closing(r)' BY <1>3, <2>2 DEF Finalize, Closing, TypeOK
    <2>6. Closing(s)' BY <2>1, <2>2 DEF Closing, TypeOK
    <2>7. Owned' BY <1>3, <2>5, <2>6 DEF Finalize, Owned, shells
    <2> QED BY <2>3, <2>4, <2>7 DEF OwnInv
  <1>4. ASSUME NEW t \in Threads, ensureShell(t) PROVE OwnInv'
    <2> DEFINE s == call[t].sess
    <2>0. /\ pc[t] = "ensure" /\ call[t] \in CallType /\ call[t].todo # <<>> /\ s \in Sessions
          /\ UNCHANGED <<known, finalized, callbackURL, locks, inq, outq, cmds, abandoned>>
      BY <1>4 DEF ensureShell, TypeOK, CallType, CallOK
    <2>1. CASE Return(t) /\ UNCHANGED <<home, alive, shell>>
      <3>1. pc' = [pc EXCEPT ![t] = "idle"] /\ call' = [call EXCEPT ![t] = NoCall]
        BY <2>1 DEF Return, Goto
      <3>2. /\ pc' \in [Threads -> Pcs] /\ call' \in [Threads -> CallType]
            /\ (\A u \in Threads : CallOK(u))' /\ Owned'
        BY <2>0, <2>1, <3>1, NoCallType, CallChanges DEF Pcs
      <3> QED BY <2>0, <2>1, <3>2 DEF OwnInv, TypeOK, Pcs, locks
    <2> DEFINE c(h) == [call[t] EXCEPT !.sh = h]
    <2>2. CASE /\ shell[s] # NoShell /\ call' = [call EXCEPT ![t] = c(shell[s])]
               /\ Goto(t, "lock") /\ UNCHANGED <<home, alive, shell>>
      <3>1. shell[s] \in Shells BY <2>0, <2>2 DEF TypeOK
      <3>2. /\ c(shell[s]) \in CallType /\ c(shell[s]).todo = call[t].todo /\ c(shell[s]).sh = shell[s]
        BY Zenon, <2>0, <3>1, CallTypes DEF CallType
      <3> HIDE DEF c
      <3>3. /\ pc' \in [Threads -> Pcs] /\ call' \in [Threads -> CallType]
            /\ (\A u \in Threads : CallOK(u))' /\ Owned'
        BY <2>0, <2>2, <3>1, <3>2, CallChanges DEF Pcs, Goto
      <3> QED BY <2>0, <2>2, <3>3 DEF OwnInv, TypeOK, Pcs, locks
    <2>3. CASE s \notin finalized /\ shell[s] = NoShell /\ NewShell(t, s) /\ Goto(t, "lock")
      <3>1. PICK h \in Shells :
               /\ home[h] = NoSession /\ home' = [home EXCEPT ![h] = s] /\ alive' = alive \cup {h}
               /\ shell' = [shell EXCEPT ![s] = h] /\ call' = [call EXCEPT ![t] = c(h)]
        BY <2>3 DEF NewShell
      <3>2. c(h) \in CallType /\ c(h).todo = call[t].todo /\ c(h).sh = h
        BY Zenon, <2>0, CallTypes DEF CallType
      <3>3. pc' = [pc EXCEPT ![t] = "lock"] BY <2>3 DEF Goto
      <3> HIDE DEF c
      <3>4. TypeOK' BY <2>0, <3>1, <3>2, <3>3 DEF TypeOK, locks
      <3>5. (\A u \in Threads : CallOK(u))' BY <2>0, <3>1, <3>2, <3>3 DEF CallOK, TypeOK
      <3>6. \A r : Closing(r) => Closing(r)' BY <2>0, <3>1, <3>3 DEF Closing, TypeOK
      <3>7. Owned' BY <2>0, <2>3, <3>1, <3>6 DEF Owned, TypeOK
      <3> QED BY <3>4, <3>5, <3>7 DEF OwnInv
    <2> QED BY <1>4, <2>1, <2>2, <2>3 DEF ensureShell
  <1>5. ASSUME NEW t \in Threads, closeShell(t) PROVE OwnInv'
    <2> DEFINE s == call[t].sess
    <2>0. /\ pc[t] = "close" /\ s \in Sessions /\ alive' = alive \ {shell[s]}
          /\ shell' = [shell EXCEPT ![s] = NoShell]
          /\ UNCHANGED <<known, finalized, callbackURL, shMu, home, inq, outq, cmds, abandoned>>
      BY <1>5 DEF closeShell, TypeOK, CallType
    <2>1. pc' = [pc EXCEPT ![t] = "idle"] /\ call' = [call EXCEPT ![t] = NoCall]
      BY <1>5 DEF closeShell, Return, Goto
    <2>2. TypeOK' BY ZenonT(60), <1>5, <2>0, <2>1, NoCallType DEF closeShell, TypeOK
    <2>3. (\A u \in Threads : CallOK(u))' BY <2>1 DEF CallOK, TypeOK
    <2>4. \A r : Closing(r) /\ r # s => Closing(r)' BY <2>1 DEF Closing, TypeOK
    <2>5. Owned' BY <2>0, <2>4 DEF Owned, TypeOK
    <2> QED BY <2>2, <2>3, <2>5 DEF OwnInv
  <1>6. ASSUME NEW t \in Threads, WriteCommand(t) PROVE OwnInv'
    <2> DEFINE h == call[t].sh
    <2>0. /\ pc[t] = "lock" /\ h \in Shells /\ call[t] \in CallType /\ call[t].todo # <<>>
          /\ UNCHANGED <<store, storeMu, sessMu, home, alive, outq, cmds, abandoned>>
      BY <1>6 DEF WriteCommand, TypeOK, CallOK
    <2>1. CASE /\ inq' = [inq EXCEPT ![h] = Append(@, current(t))] /\ shMu' = [shMu EXCEPT ![h] = t]
               /\ Goto(t, "read") /\ UNCHANGED call
      <3>1. current(t) \in Cmds BY <2>0 DEF current, CallType
      <3>2. inq' \in [Shells -> Seq(Cmds)] /\ shMu' \in [Shells -> Threads \cup {Free}]
        BY <2>0, <2>1, <3>1 DEF TypeOK
      <3>3. call' = [call EXCEPT ![t] = call[t]] /\ pc' = [pc EXCEPT ![t] = "read"]
        BY <2>1 DEF TypeOK, Goto
      <3>4. /\ pc' \in [Threads -> Pcs] /\ call' \in [Threads -> CallType]
            /\ (\A u \in Threads : CallOK(u))' /\ Owned'
        BY <2>0, <3>3, CallChanges DEF Pcs, store
      <3> QED BY <2>0, <3>2, <3>4 DEF OwnInv, TypeOK, Pcs, store
    <2>2. CASE NextCommand(t) /\ UNCHANGED <<inq, shMu>>
      <3>1. (\A u \in Threads : CallOK(u))' /\ Owned' /\ pc' \in [Threads -> Pcs] /\ call' \in [Threads -> CallType]
        BY <2>0, <2>2, CallEnds DEF store
      <3> QED BY <2>0, <2>2, <3>1 DEF OwnInv, TypeOK, Pcs, store
    <2> QED BY <1>6, <2>1, <2>2 DEF WriteCommand
  <1>7. ASSUME NEW t \in Threads, ReadLine(t) PROVE OwnInv'
    <2> DEFINE h == call[t].sh
    <2>0. /\ pc[t] = "read" /\ h \in Shells /\ call[t] \in CallType /\ call[t].todo # <<>>
          /\ outq[h] # <<>> /\ outq' = [outq EXCEPT ![h] = Tail(@)]
          /\ UNCHANGED <<store, storeMu, sessMu, home, alive, inq, cmds>>
      BY <1>7 DEF ReadLine, TypeOK, CallOK
    <2>1. outq' \in [Shells -> Seq(Lines)] /\ Head(outq[h]).cmd \in Cmds
      BY <2>0, QueueTypes DEF Lines
    <2>2. CASE /\ call' = [call EXCEPT ![t].got = @ \cup {Head(outq[h]).cmd}]
               /\ UNCHANGED <<shMu, abandoned, pc>>
      <3> DEFINE c == [call[t] EXCEPT !.got = @ \cup {Head(outq[h]).cmd}]
      <3>1. c \in CallType /\ c.todo = call[t].todo /\ c.sh = call[t].sh
        BY Zenon, <2>0, <2>1, CallTypes
      <3>2. call' = [call EXCEPT ![t] = c] /\ pc' = [pc EXCEPT ![t] = "read"]
        BY <2>0, <2>2 DEF TypeOK
      <3> HIDE DEF c
      <3>3. /\ pc' \in [Threads -> Pcs] /\ call' \in [Threads -> CallType]
            /\ (\A u \in Threads : CallOK(u))' /\ Owned'
        BY <2>0, <3>1, <3>2, CallChanges DEF Pcs, store
      <3> QED BY <2>0, <2>1, <2>2, <3>3 DEF OwnInv, TypeOK, Pcs, Lines, store
    <2>3. CASE Release(t) /\ abandoned' = abandoned \cup {current(t)} /\ Return(t)
      <3>1. current(t) \in Cmds BY <2>0 DEF current, CallType
      <3>2. /\ pc' \in [Threads -> Pcs] /\ call' \in [Threads -> CallType]
            /\ (\A u \in Threads : CallOK(u))' /\ Owned'
        BY <2>0, <2>3, CallEnds DEF store
      <3> QED BY <2>0, <2>1, <2>3, <3>1, <3>2 DEF OwnInv, TypeOK, Pcs, Lines, Release, store
    <2> QED BY <1>7, <2>2, <2>3 DEF ReadLine
  <1>8. ASSUME NEW t \in Threads, ReadDelimiter(t) \/ ReadEOF(t) PROVE OwnInv'
    <2> DEFINE h == call[t].sh
    <2>0. /\ pc[t] = "read" /\ h \in Shells /\ Release(t) /\ NextCommand(t)
          /\ \/ outq' = outq
             \/ outq[h] # <<>> /\ outq' = [outq EXCEPT ![h] = Tail(@)]
          /\ UNCHANGED <<store, storeMu, sessMu, home, alive, inq, cmds, abandoned>>
      BY <1>8 DEF ReadDelimiter, ReadEOF, CallOK, shells
    <2>1. outq' \in [Shells -> Seq(Lines)]
      <3>1. outq \in [Shells -> Seq(Lines)] BY DEF TypeOK, Lines
      <3>2. outq[h] # <<>> => Tail(outq[h]) \in Seq(Lines) BY <2>0, QueueTypes
      <3> HIDE DEF h
      <3> QED BY <2>0, <3>1, <3>2
    <2>2. /\ pc' \in [Threads -> Pcs] /\ call' \in [Threads -> CallType]
          /\ (\A u \in Threads : CallOK(u))' /\ Owned'
      BY <2>0, CallEnds DEF store
    <2> QED BY <2>0, <2>1, <2>2 DEF OwnInv, TypeOK, Pcs, Lines, Release, store
  <1>9. ASSUME NEW h \in Shells, RunCommand(h) PROVE OwnInv'
    <2> DEFINE c == Head(inq[h])
    <2>0. /\ inq[h] # <<>> /\ inq[h] \in Seq(Cmds) /\ c \in Cmds
          /\ outq[h] \in Seq(Lines) /\ line(c) \in Lines /\ delim(c) \in Lines
          /\ UNCHANGED <<store, locks, home, cmds, abandoned, pc, call>>
      BY <1>9, QueueTypes DEF RunCommand
    <2>1. /\ inq' \in [Shells -> Seq(Cmds)] /\ outq' \in [Shells -> Seq(Lines)]
          /\ alive' \in {alive, alive \ {h}}
      <3>1. CASE outq' = [outq EXCEPT ![h] = @ \o <<line(c), delim(c)>>]
                 /\ inq' = [inq EXCEPT ![h] = Tail(@)] /\ UNCHANGED alive
        <4>1. <<line(c), delim(c)>> \in Seq(Lines) BY <2>0
        <4>2. outq[h] \o <<line(c), delim(c)>> \in Seq(Lines) BY <2>0, <4>1
        <4>3. Tail(inq[h]) \in Seq(Cmds) BY <2>0
        <4> QED BY <3>1, <4>2, <4>3 DEF TypeOK, Lines
      <3>2. CASE outq' = [outq EXCEPT ![h] = Append(@, line(c))] /\ inq' = [inq EXCEPT ![h] = <<>>]
                 /\ alive' = alive \ {h}
        <4>1. Append(outq[h], line(c)) \in Seq(Lines) /\ <<>> \in Seq(Cmds) BY <2>0
        <4> QED BY <3>2, <4>1 DEF TypeOK, Lines
      <3>3. CASE outq' = [outq EXCEPT ![h] = Append(@, line(c))]
                 /\ inq' = [inq EXCEPT ![h] = Tail(@)] /\ UNCHANGED alive
        <4>1. Append(outq[h], line(c)) \in Seq(Lines) /\ Tail(inq[h]) \in Seq(Cmds) BY <2>0
        <4> QED BY <3>3, <4>1 DEF TypeOK, Lines
      <3> QED BY <1>9, <3>1, <3>2, <3>3 DEF RunCommand
    <2> QED BY <2>0, <2>1 DEF OwnInv, TypeOK, CallOK, Owned, Closing, Lines, store, locks
  <1>10. CASE UNCHANGED vars
    BY <1>10 DEF OwnInv, TypeOK, CallOK, Owned, Closing, vars, store, locks, shells
  <1> QED BY <1>1, <1>2, <1>3, <1>4, <1>5, <1>6, <1>7, <1>8, <1>9, <1>10 DEF Next, Request, Steps

\* However connections, commands, scripts and FinalizeSession race, with any number of
\* threads, sessions and shells: each live bash is the one shell of a session that is not
\* finalized, or is just being finalized (ensureShell, closeShell).
THEOREM LiveShellsAreOwnedHolds == Spec => []LiveShellsAreOwned
  <1>1. OwnInv => LiveShellsAreOwned BY DEF OwnInv, Owned, LiveShellsAreOwned
  <1> QED BY InitOwn, OwnStep, <1>1, PTL DEF Spec

\* No command runs in a session once FinalizeSession has returned, however many were
\* waiting for its shell (closeShell kills it before it returns).
THEOREM NoCommandAfterFinalizeHolds == Spec => NoCommandAfterFinalize
  <1>1. ASSUME OwnInv, [Next]_vars, NEW h \in Shells, inq[h] # <<>>, Len(outq'[h]) > Len(outq[h])
        PROVE  home[h] \notin finalized \/ Closing(home[h])
    <2>1. outq[h] \in Seq(Lines) BY Zenon, <1>1 DEF OwnInv, TypeOK, Lines
    <2>2. h \in alive
      <3>1. outq'[h] # outq[h] BY <1>1, <2>1
      <3>2. ASSUME NEW t \in Threads, NEW g \in Shells, outq[g] # <<>>, outq' = [outq EXCEPT ![g] = Tail(@)]
            PROVE  FALSE
        <4>1. outq'[h] = Tail(outq[h]) /\ outq[h] # <<>> BY <3>1, <3>2, <1>1 DEF OwnInv, TypeOK
        <4> QED BY <1>1, <2>1, <4>1
      <3>3. ASSUME NEW g \in Shells, RunCommand(g) PROVE g = h
        BY <3>1, <3>3, <1>1 DEF RunCommand, OwnInv, TypeOK
      <3>4. ASSUME NEW t \in Threads, ReadLine(t) \/ ReadDelimiter(t) PROVE FALSE
        BY <1>1, <3>2, <3>4 DEF ReadLine, ReadDelimiter, OwnInv, CallOK
      <3> QED BY ZenonT(60), <1>1, <3>1, <3>3, <3>4
          DEF Next, vars, shells, store, locks, Request, Steps, Connect, Finalize, ResolveSession,
              ensureShell, closeShell, WriteCommand, ReadEOF, RunCommand
    <2> QED BY <1>1, <2>2 DEF OwnInv, Owned
  <1>2. OwnInv /\ [Next]_vars =>
           \A h \in Shells : inq[h] # <<>> /\ Len(outq'[h]) > Len(outq[h])
                               => home[h] \notin finalized \/ Closing(home[h])
    BY <1>1
  <1> QED BY InitOwn, OwnStep, <1>2, PTL DEF Spec, NoCommandAfterFinalize

-------------------------------------------------------------------------------
(* What comes out of a shell.                                              *)

\* Of the commands of one call: they are the thread's own, numbered already, and nobody
\* gave up waiting for one.
CallOut(t) ==
    /\ pc[t] \in {"ensure", "lock"} => call[t].got = {}
    /\ pc[t] = "read" => /\ shMu[call[t].sh] = t
                         /\ call[t].got \subseteq {current(t)} \cup abandoned
    /\ pc[t] \in {"idle", "close"} => call[t].todo = <<>>
    /\ \A i \in 1 .. Len(call[t].todo) :
          call[t].todo[i] \in 1 .. Len(cmds) /\ call[t].todo[i] \notin abandoned
\* No command is issued twice.
IssuedOnce ==
    \A t, u \in Threads : \A i \in 1 .. Len(call[t].todo), j \in 1 .. Len(call[u].todo) :
        call[t].todo[i] = call[u].todo[j] => t = u /\ i = j
\* The holder of a shell's lock is reading that shell.
HolderReads(h) == shMu[h] \in Threads => pc[shMu[h]] = "read" /\ call[shMu[h]].sh = h
\* Command c belongs to whoever holds shell h, or was abandoned.
Expected(h, c) == c \in abandoned \/ (shMu[h] \in Threads /\ c = current(shMu[h]))
\* Of a shell: what is on its way in it is expected; a command is there once, before or
\* after it was run, and its delimiter ends its output.
ShellOut(h) ==
    /\ HolderReads(h)
    /\ \A i \in 1 .. Len(inq[h]) : Expected(h, inq[h][i])
    /\ \A i \in 1 .. Len(outq[h]) : Expected(h, outq[h][i].cmd)
    /\ \A i, j \in 1 .. Len(inq[h]) : inq[h][i] = inq[h][j] => i = j
    /\ \A i \in 1 .. Len(inq[h]), j \in 1 .. Len(outq[h]) : inq[h][i] # outq[h][j].cmd
    /\ \A i, j \in 1 .. Len(outq[h]) : i < j /\ outq[h][i].kind = "delim" => outq[h][j].cmd # outq[h][i].cmd
    /\ shMu[h] # Free /\ h \notin alive => inq[h] = <<>>
OutInv ==
    /\ abandoned \subseteq 1 .. Len(cmds)
    /\ (\A t \in Threads : CallOut(t)) /\ IssuedOnce
    /\ \A h \in Shells : ShellOut(h)

LEMMA InitOut == Init => OutInv
  BY DEF Init, OutInv, CallOut, IssuedOnce, ShellOut, HolderReads, Expected, NoCall

\* A step by which one thread goes on to l with call c, what is left of its commands,
\* keeps what is said of calls.
LEMMA CallShrinks ==
    ASSUME OwnInv, OutInv, NEW t \in Threads, NEW l \in Pcs, NEW c \in CallType, NEW d \in {0, 1},
           \A u \in Threads : /\ pc'[u] = IF u = t THEN l ELSE pc[u]
                              /\ call'[u] = IF u = t THEN c ELSE call[u],
           \A i \in 1 .. Len(c.todo) : i + d \in 1 .. Len(call[t].todo) /\ c.todo[i] = call[t].todo[i + d],
           \A u \in Threads : u # t /\ pc[u] = "read" => shMu'[call[u].sh] = u,
           l \in {"ensure", "lock"} => c.got = {},
           l = "read" => shMu'[c.sh] = t /\ c.got \subseteq {Head(c.todo)} \cup abandoned,
           l \in {"idle", "close"} => c.todo = <<>>,
           \/ abandoned' = abandoned
           \/ /\ pc[t] = "read" /\ call[t].todo # <<>>
              /\ abandoned' = abandoned \cup {current(t)} /\ c.todo = <<>>,
           cmds' = cmds
    PROVE  abandoned' \subseteq 1 .. Len(cmds') /\ (\A u \in Threads : CallOut(u))' /\ IssuedOnce'
  <1> DEFINE N == 1 .. Len(cmds)
  <1> DEFINE off(u) == IF u = t THEN d ELSE 0
  <1>0. abandoned \subseteq N /\ (\A u \in Threads : CallOut(u)) /\ IssuedOnce
    BY DEF OutInv
  <1>1. \A u \in Threads : call[u] \in CallType /\ Len(call[u].todo) \in Nat /\ Len(c.todo) \in Nat
    BY DEF OwnInv, TypeOK, CallType
  <1>2. ASSUME NEW u \in Threads, NEW i \in 1 .. Len(call'[u].todo)
        PROVE  i + off(u) \in 1 .. Len(call[u].todo) /\ call'[u].todo[i] = call[u].todo[i + off(u)]
    BY <1>1
  <1>3. IssuedOnce'
    <2> SUFFICES ASSUME NEW u \in Threads, NEW v \in Threads, NEW i \in 1 .. Len(call'[u].todo),
                        NEW j \in 1 .. Len(call'[v].todo), call'[u].todo[i] = call'[v].todo[j]
                 PROVE  u = v /\ i = j
      BY DEF IssuedOnce
    <2>1. call[u].todo[i + off(u)] = call[v].todo[j + off(v)] BY <1>2
    <2>2. u = v /\ i + off(u) = j + off(v)
      <3>1. i + off(u) \in 1 .. Len(call[u].todo) /\ j + off(v) \in 1 .. Len(call[v].todo) BY <1>2
      <3> HIDE DEF off
      <3> QED BY SMTT(30), <1>0, <2>1, <3>1 DEF IssuedOnce
    <2>3. i \in Nat /\ j \in Nat /\ off(u) \in Nat /\ off(u) = off(v) BY <1>1, <2>2
    <2> QED BY <2>2, <2>3
  <1>current. call[t].todo # <<>> => 1 \in 1 .. Len(call[t].todo) /\ current(t) = call[t].todo[1]
    BY <1>1 DEF current, CallType
  <1>4. abandoned' \subseteq 1 .. Len(cmds')
    <2>1. call[t].todo # <<>> => current(t) \in N BY <1>0, <1>current DEF CallOut
    <2> QED BY ZenonT(60), <1>0, <2>1
  <1>5. ASSUME NEW u \in Threads, NEW i \in 1 .. Len(call'[u].todo)
        PROVE  call'[u].todo[i] \in N /\ call'[u].todo[i] \notin abandoned'
    <2> DEFINE n == call[u].todo[i + off(u)]
    <2>1. n \in N /\ n \notin abandoned BY <1>0, <1>2, <1>5 DEF CallOut
    <2>2. CASE abandoned' = abandoned BY SMTT(30), <1>2, <1>5, <2>1, <2>2
    <2>3. CASE abandoned' # abandoned
      <3>1. u # t BY <1>1, <1>5, <2>3
      <3>2. n # current(t) BY <1>0, <1>2, <1>5, <1>current, <2>3, <3>1 DEF IssuedOnce
      <3> QED BY SMTT(30), <1>2, <1>5, <2>1, <3>2
    <2> QED BY <2>2, <2>3
  <1>6. (\A u \in Threads : CallOut(u))'
    BY SMTT(30), <1>0, <1>1, <1>5 DEF CallOut, current
  <1> QED BY <1>3, <1>4, <1>6

\* A shell whose queues and whose holder a step leaves alone.
LEMMA ShellKeeps ==
    ASSUME OwnInv, NEW h \in Shells, ShellOut(h), abandoned \subseteq abandoned',
           inq'[h] = inq[h], outq'[h] = outq[h], shMu'[h] = shMu[h],
           shMu[h] \in Threads => pc'[shMu[h]] = pc[shMu[h]] /\ call'[shMu[h]] = call[shMu[h]],
           shMu[h] # Free /\ h \notin alive' => h \notin alive
    PROVE  ShellOut(h)'
  <1>1. \A c : Expected(h, c) => Expected(h, c)' BY DEF Expected, current
  <1>2. HolderReads(h)' BY DEF ShellOut, HolderReads
  <1> QED BY <1>1, <1>2 DEF ShellOut

\* The steps of a thread that has no shell's lock, and gets none.
LEMMA OutsideShell ==
    ASSUME OwnInv, OutInv, NEW t \in Threads, NEW l \in Pcs \ {"read"}, NEW c \in CallType, pc[t] # "read",
           pc' = [pc EXCEPT ![t] = l], call' = [call EXCEPT ![t] = c],
           \/ c.todo = <<>>
           \/ c.todo = call[t].todo
           \/ call[t].todo # <<>> /\ c.todo = Tail(call[t].todo),
           l \in {"ensure", "lock"} => c.got = {},
           l \in {"idle", "close"} => c.todo = <<>>,
           \A h \in Shells : shMu[h] # Free /\ h \notin alive' => h \notin alive,
           UNCHANGED <<shMu, inq, outq, cmds, abandoned>>
    PROVE  OutInv'
  <1>1. \A u \in Threads : /\ pc'[u] = IF u = t THEN l ELSE pc[u]
                           /\ call'[u] = IF u = t THEN c ELSE call[u]
    BY DEF OwnInv, TypeOK
  <1>2. PICK d \in {0, 1} : \A i \in 1 .. Len(c.todo) :
           i + d \in 1 .. Len(call[t].todo) /\ c.todo[i] = call[t].todo[i + d]
    <2>1. call[t].todo \in Seq(Cmds) BY DEF OwnInv, TypeOK, CallType
    <2>2. CASE c.todo = <<>> BY <2>2
    <2>3. CASE c.todo = call[t].todo
      <3>1. \A i \in 1 .. Len(c.todo) : i + 0 \in 1 .. Len(call[t].todo) /\ c.todo[i] = call[t].todo[i + 0]
        BY <2>1, <2>3
      <3> QED BY <3>1
    <2>4. CASE call[t].todo # <<>> /\ c.todo = Tail(call[t].todo)
      <3> DEFINE q == call[t].todo
      <3>1. q \in Seq(Cmds) /\ q # <<>> BY <2>1, <2>4
      <3> HIDE DEF q
      <3>2. \A i \in 1 .. Len(Tail(q)) : i + 1 \in 1 .. Len(q) /\ Tail(q)[i] = q[i + 1] BY <3>1
      <3> QED BY <2>4, <3>2 DEF q
    <2> QED BY <2>2, <2>3, <2>4
  <1>3. \A u \in Threads : pc[u] = "read" => shMu'[call[u].sh] = u BY DEF OutInv, CallOut
  <1>4. abandoned' \subseteq 1 .. Len(cmds') /\ (\A u \in Threads : CallOut(u))' /\ IssuedOnce'
    BY SMTT(30), <1>1, <1>2, <1>3, CallShrinks
  <1>5. ASSUME NEW h \in Shells PROVE ShellOut(h)'
    <2>1. ShellOut(h) /\ shMu[h] # t BY DEF OutInv, ShellOut, HolderReads
    <2> QED BY <1>1, <2>1, ShellKeeps
  <1> QED BY <1>4, <1>5 DEF OutInv

\* Taking the first line of a shell's output.
LEMMA TakesLine ==
    ASSUME OwnInv, NEW h \in Shells, ShellOut(h), outq[h] # <<>>
    PROVE  /\ 1 \in 1 .. Len(outq[h]) /\ Head(outq[h]) = outq[h][1]
           /\ LET q == Tail(outq[h]) IN
              /\ \A i \in 1 .. Len(q) : i + 1 \in 1 .. Len(outq[h]) /\ q[i] = outq[h][i + 1]
              /\ \A i \in 1 .. Len(inq[h]), j \in 1 .. Len(q) : inq[h][i] # q[j].cmd
              /\ \A i, j \in 1 .. Len(q) : i < j /\ q[i].kind = "delim" => q[j].cmd # q[i].cmd
  <1> DEFINE o == outq[h]
  <1>1. o \in Seq(Lines) /\ o # <<>> BY QueueTypes DEF OwnInv
  <1>2. /\ \A i \in 1 .. Len(inq[h]), j \in 1 .. Len(o) : inq[h][i] # o[j].cmd
        /\ \A i, j \in 1 .. Len(o) : i < j /\ o[i].kind = "delim" => o[j].cmd # o[i].cmd
    BY DEF ShellOut
  <1> HIDE DEF o
  <1>3. PICK q : q = Tail(o) OBVIOUS
  <1>4. 1 \in 1 .. Len(o) /\ Head(o) = o[1] BY <1>1
  <1>5. \A i \in 1 .. Len(q) : i + 1 \in 1 .. Len(o) /\ q[i] = o[i + 1]
    <2>1. \A i \in 1 .. Len(Tail(o)) : i + 1 \in 1 .. Len(o) /\ Tail(o)[i] = o[i + 1]
      <3> DEFINE L == Lines
      <3>1. o \in Seq(L) /\ o # <<>> BY <1>1
      <3> HIDE DEF L
      <3> QED BY <3>1
    <2> QED BY <1>3, <2>1
  <1>6. \A i \in 1 .. Len(inq[h]), j \in 1 .. Len(q) : inq[h][i] # q[j].cmd BY <1>2, <1>5
  <1>7. ASSUME NEW i \in 1 .. Len(q), NEW j \in 1 .. Len(q), i < j, q[i].kind = "delim"
        PROVE  q[j].cmd # q[i].cmd
    <2>1. Len(q) \in Nat BY <1>1, <1>3
    <2>2. i + 1 < j + 1 BY <1>7, <2>1
    <2> QED BY SMTT(30), <1>2, <1>5, <1>7, <2>2
  <1> QED BY <1>3, <1>4, <1>5, <1>6, <1>7 DEF o

\* The holder of a shell's lock leaves the shell, in which it expects nothing any more.
LEMMA LeavesShell ==
    ASSUME OwnInv, OutInv, NEW t \in Threads, NEW h \in Shells, pc[t] = "read", h = call[t].sh,
           Release(t), NextCommand(t) \/ Return(t),
           \/ abandoned' = abandoned
           \/ abandoned' = abandoned \cup {current(t)} /\ Return(t),
           \A i \in 1 .. Len(inq[h]) : inq[h][i] \in abandoned',
           \A i \in 1 .. Len(outq'[h]) : outq'[h][i].cmd \in abandoned',
           \/ outq' = outq
           \/ outq[h] # <<>> /\ outq' = [outq EXCEPT ![h] = Tail(@)],
           UNCHANGED <<inq, alive, cmds>>
    PROVE  OutInv'
  <1>0. TypeOK /\ CallOK(t) /\ call[t] \in CallType /\ call[t].todo # <<>> /\ ShellOut(h) /\ shMu[h] = t
    BY ZenonT(60) DEF OwnInv, OutInv, CallOut, CallOK, TypeOK
  <1>1. PICK l \in {"idle", "lock"}, c \in CallType :
           /\ pc' = [pc EXCEPT ![t] = l] /\ call' = [call EXCEPT ![t] = c]
           /\ l = "lock" => /\ c = [call[t] EXCEPT !.todo = Tail(@), !.got = {}]
                            /\ Len(call[t].todo) > 1 /\ abandoned' = abandoned
           /\ l = "idle" => c = NoCall
    <2>1. CASE NextCommand(t) /\ abandoned' = abandoned
      <3>1. PICK l \in {"idle", "lock"}, c \in CallType :
               /\ pc' = [pc EXCEPT ![t] = l] /\ call' = [call EXCEPT ![t] = c]
               /\ l = "lock" => c = [call[t] EXCEPT !.todo = Tail(@), !.got = {}]
                                /\ Len(call[t].todo) > 1
               /\ l = "idle" => c = NoCall
        BY Zenon, <1>0, <2>1, NextCommandCall
      <3> WITNESS l \in {"idle", "lock"}, c \in CallType
      <3> QED BY <2>1, <3>1
    <2>2. CASE Return(t)
      <3> NoCall \in CallType BY NoCallType
      <3> WITNESS "idle" \in {"idle", "lock"}, NoCall \in CallType
      <3> QED BY <2>2 DEF Return, Goto
    <2> QED BY <2>1, <2>2
  <1>2. \A u \in Threads : /\ pc'[u] = IF u = t THEN l ELSE pc[u]
                           /\ call'[u] = IF u = t THEN c ELSE call[u]
    BY <1>0, <1>1 DEF TypeOK
  <1>3. \A g \in Shells : /\ shMu'[g] = IF g = h THEN Free ELSE shMu[g]
                          /\ g # h => outq'[g] = outq[g]
    BY <1>0 DEF TypeOK, Release
  <1>4. l = "idle" => c.todo = <<>> BY <1>1 DEF NoCall
  <1>5. l = "lock" => c.todo = Tail(call[t].todo) /\ c.got = {} BY ZenonT(60), <1>0, <1>1, CallTypes DEF CallType
  <1>6. \A i \in 1 .. Len(c.todo) : i + 1 \in 1 .. Len(call[t].todo) /\ c.todo[i] = call[t].todo[i + 1]
    <2>1. CASE l = "idle" BY <1>4, <2>1
    <2>2. CASE l = "lock"
      <3> DEFINE q == call[t].todo
      <3>1. q \in Seq(Cmds) /\ q # <<>> BY <1>0 DEF CallType
      <3> HIDE DEF q
      <3>2. \A i \in 1 .. Len(Tail(q)) : i + 1 \in 1 .. Len(q) /\ Tail(q)[i] = q[i + 1] BY <3>1
      <3> QED BY <1>5, <2>2, <3>2 DEF q
    <2> QED BY <2>1, <2>2
  <1>7. abandoned' \subseteq 1 .. Len(cmds') /\ (\A u \in Threads : CallOut(u))' /\ IssuedOnce'
    <2>1. \A u \in Threads : u # t /\ pc[u] = "read" => shMu'[call[u].sh] = u
      BY <1>0, <1>3 DEF OwnInv, OutInv, CallOut, CallOK
    <2>2. \/ abandoned' = abandoned
          \/ abandoned' = abandoned \cup {current(t)} /\ c.todo = <<>>
      BY SMTT(30), <1>1, <1>4
    <2> QED BY SMTT(30), <1>0, <1>1, <1>2, <1>4, <1>5, <1>6, <2>1, <2>2, CallShrinks DEF Pcs
  <1>8. ShellOut(h)'
    <2>1. HolderReads(h)' BY <1>3 DEF HolderReads
    <2>2. \A n \in abandoned' : Expected(h, n)' BY SMTT(30) DEF Expected
    <2>3. /\ \A i, j \in 1 .. Len(inq[h]) : inq[h][i] = inq[h][j] => i = j
          /\ \A i \in 1 .. Len(inq[h]), j \in 1 .. Len(outq'[h]) : inq[h][i] # outq'[h][j].cmd
          /\ \A i, j \in 1 .. Len(outq'[h]) : i < j /\ outq'[h][i].kind = "delim" => outq'[h][j].cmd # outq'[h][i].cmd
      <3>1. CASE outq' = outq BY <1>0, <3>1 DEF ShellOut
      <3>2. CASE outq[h] # <<>> /\ outq' = [outq EXCEPT ![h] = Tail(@)]
        <4>1. outq'[h] = Tail(outq[h]) BY <1>0, <3>2 DEF TypeOK
        <4>2. \A i, j \in 1 .. Len(inq[h]) : inq[h][i] = inq[h][j] => i = j BY <1>0 DEF ShellOut
        <4> DEFINE q == Tail(outq[h])
        <4>3. /\ \A i \in 1 .. Len(inq[h]), j \in 1 .. Len(q) : inq[h][i] # q[j].cmd
              /\ \A i, j \in 1 .. Len(q) : i < j /\ q[i].kind = "delim" => q[j].cmd # q[i].cmd
          BY <1>0, <3>2, TakesLine
        <4> HIDE DEF q
        <4>4. outq'[h] = q BY <4>1 DEF q
        <4> QED BY ZenonT(60), <4>2, <4>3, <4>4
      <3> QED BY SMTT(30), <3>1, <3>2
    <2>4. (\A i \in 1 .. Len(inq[h]) : Expected(h, inq[h][i]))' BY <2>2
    <2>5. (\A i \in 1 .. Len(outq[h]) : Expected(h, outq[h][i].cmd))' BY <2>2
    <2>6. shMu'[h] = Free BY <1>3
    <2> QED BY <2>1, <2>3, <2>4, <2>5, <2>6 DEF ShellOut
  <1>9. ASSUME NEW g \in Shells, g # h PROVE ShellOut(g)'
    <2>1. ShellOut(g) BY DEF OutInv
    <2>2. shMu[g] # t BY <1>9, <2>1 DEF ShellOut, HolderReads
    <2> QED BY <1>2, <1>3, <1>9, <2>1, <2>2, ShellKeeps
  <1> QED BY <1>7, <1>8, <1>9 DEF OutInv

LEMMA OutStep == OwnInv /\ OutInv /\ [Next]_vars => OutInv'
  <1> SUFFICES ASSUME OwnInv, OutInv, [Next]_vars PROVE OutInv'
    OBVIOUS
  <1> TypeOK /\ (\A t \in Threads : CallOK(t) /\ CallOut(t))
    BY DEF OwnInv, OutInv
  <1>1. ASSUME NEW t \in Threads, NEW s \in Sessions, Connect(t, s) PROVE OutInv'
    BY <1>1 DEF Connect, OutInv, CallOut, current, IssuedOnce, ShellOut, HolderReads, Expected, locks, shells
  <1>2. ASSUME NEW t \in Threads, NEW s \in Sessions, NEW op \in {"exec", "stream", "script"},
               ResolveSession(t, s, op)
        PROVE  OutInv'
    <2> DEFINE n == Len(cmds)
               m == Commands(op)
               todo == [i \in 1 .. m |-> n + i]
               c == [NoCall EXCEPT !.op = op, !.sess = s, !.todo = todo]
    <2>1. n \in Nat /\ m \in 1 .. 2
      BY <1>2 DEF ResolveSession, Commands, TypeOK
    <2>2. /\ pc' = [pc EXCEPT ![t] = "ensure"] /\ call' = [call EXCEPT ![t] = c] /\ pc[t] = "idle"
          /\ UNCHANGED <<shMu, inq, outq, alive, abandoned>>
      BY <1>2 DEF ResolveSession, Goto, locks
    <2>3. c.todo = todo /\ c.got = {} BY DEF NoCall
    <2>4. Len(todo) = m /\ \A i \in 1 .. m : todo[i] = n + i
      <3>1. todo \in [1 .. m -> Nat] BY <2>1
      <3>2. \A i \in 1 .. m : todo[i] = n + i OBVIOUS
      <3> HIDE DEF todo
      <3>3. todo \in Seq(Nat) /\ DOMAIN todo = 1 .. m BY <2>1, <3>1
      <3> QED BY <2>1, <3>2, <3>3
    <2>5. Len(cmds') = n + m
      <3>1. PICK ks \in [1 .. m -> Kinds] : cmds' = cmds \o ks BY <1>2 DEF ResolveSession
      <3>2. ks \in Seq(Kinds) /\ DOMAIN ks = 1 .. m BY <2>1, <3>1
      <3>3. Len(ks) = m BY <2>1, <3>2
      <3> QED BY <2>1, <3>1, <3>2, <3>3 DEF TypeOK
    <2> HIDE DEF c, todo, m
    <2>6. \A u \in Threads : /\ pc'[u] = IF u = t THEN "ensure" ELSE pc[u]
                             /\ call'[u] = IF u = t THEN c ELSE call[u]
      BY <2>2 DEF TypeOK
    <2>7. ASSUME NEW u \in Threads, u # t, NEW i \in 1 .. Len(call[u].todo)
          PROVE  call[u].todo[i] \in 1 .. n /\ call[u].todo[i] \notin abandoned
      BY <2>7 DEF CallOut
    <2>8. abandoned \subseteq 1 .. n /\ IssuedOnce BY DEF OutInv
    <2>9. abandoned' \subseteq 1 .. Len(cmds') BY <2>1, <2>2, <2>5, <2>8
    <2>10. (\A u \in Threads : CallOut(u))'
      <3> SUFFICES ASSUME NEW u \in Threads PROVE CallOut(u)'
        OBVIOUS
      <3>1. CASE u = t
        <4>1. \A i \in 1 .. Len(call'[t].todo) :
                 call'[t].todo[i] \in 1 .. Len(cmds') /\ call'[t].todo[i] \notin abandoned'
          BY SMTT(30), <2>1, <2>2, <2>3, <2>4, <2>5, <2>6, <2>8
        <4> QED BY <2>3, <2>6, <3>1, <4>1 DEF CallOut
      <3>2. CASE u # t
        <4>1. \A i \in 1 .. Len(call'[u].todo) :
                 call'[u].todo[i] \in 1 .. Len(cmds') /\ call'[u].todo[i] \notin abandoned'
          BY SMTT(30), <2>1, <2>2, <2>5, <2>6, <2>7, <3>2
        <4> QED BY <2>2, <2>6, <3>2, <4>1 DEF CallOut, current
      <3> QED BY <3>1, <3>2
    <2>11. IssuedOnce'
      <3> SUFFICES ASSUME NEW u \in Threads, NEW v \in Threads, NEW i \in 1 .. Len(call'[u].todo),
                          NEW j \in 1 .. Len(call'[v].todo), call'[u].todo[i] = call'[v].todo[j]
                   PROVE  u = v /\ i = j
        BY DEF IssuedOnce
      <3>1. CASE u = t /\ v = t BY SMTT(30), <2>1, <2>3, <2>4, <2>6, <3>1
      <3>2. CASE u # t /\ v # t BY SMTT(30), <2>6, <2>8, <3>2 DEF IssuedOnce
      <3>new. \A k \in 1 .. Len(call'[t].todo) : call'[t].todo[k] \notin 1 .. n
        BY SMTT(30), <2>1, <2>3, <2>4, <2>6
      <3>3. CASE u = t /\ v # t BY SMTT(30), <2>6, <2>7, <3>new, <3>3
      <3>4. CASE u # t /\ v = t BY SMTT(30), <2>6, <2>7, <3>new, <3>4
      <3> QED BY <3>1, <3>2, <3>3, <3>4
    <2>12. ASSUME NEW h \in Shells PROVE ShellOut(h)'
      <3>1. ShellOut(h) /\ shMu[h] # t BY <2>2 DEF OutInv, ShellOut, HolderReads
      <3> QED BY <2>2, <2>6, <3>1, ShellKeeps
    <2> QED BY <2>9, <2>10, <2>11, <2>12 DEF OutInv
  <1>3. ASSUME NEW t \in Threads, NEW s \in Sessions, Finalize(t, s) PROVE OutInv'
    <2> DEFINE c == [NoCall EXCEPT !.op = "finalize", !.sess = s]
    <2>1. c \in CallType /\ c.todo = <<>> BY NoCallType DEF CallType, NoCall
    <2>2. pc' = [pc EXCEPT ![t] = "close"] /\ call' = [call EXCEPT ![t] = c] /\ pc[t] = "idle"
      BY <1>3 DEF Finalize, Goto
    <2> HIDE DEF c
    <2> QED BY <1>3, <2>1, <2>2, OutsideShell DEF Finalize, Pcs, shells
  <1>4. ASSUME NEW t \in Threads, ensureShell(t) PROVE OutInv'
    <2> DEFINE c(h) == [call[t] EXCEPT !.sh = h]
    <2>0. /\ pc[t] = "ensure" /\ call[t] \in CallType /\ call[t].got = {} /\ alive \subseteq alive'
          /\ UNCHANGED <<shMu, inq, outq, cmds, abandoned>>
      BY <1>4 DEF ensureShell, NewShell, TypeOK, CallOut, locks
    <2>1. CASE Return(t)
      <3>1. pc' = [pc EXCEPT ![t] = "idle"] /\ call' = [call EXCEPT ![t] = NoCall] /\ NoCall.todo = <<>>
        BY <2>1 DEF Return, Goto, NoCall
      <3> QED BY <2>0, <3>1, NoCallType, OutsideShell DEF Pcs
    <2>2. CASE Goto(t, "lock") /\ \E h \in Shells : call' = [call EXCEPT ![t] = c(h)]
      <3>1. PICK h \in Shells : call' = [call EXCEPT ![t] = c(h)] BY <2>2
      <3>2. c(h) \in CallType /\ c(h).todo = call[t].todo /\ c(h).got = {}
        BY Zenon, <2>0, CallTypes DEF CallType
      <3>3. pc' = [pc EXCEPT ![t] = "lock"] BY <2>2 DEF Goto
      <3> HIDE DEF c
      <3> QED BY <2>0, <3>1, <3>2, <3>3, OutsideShell DEF Pcs
    <2>3. call[t].sess \in Sessions BY <2>0 DEF CallType
    <2> QED BY <1>4, <2>1, <2>2, <2>3 DEF ensureShell, NewShell, TypeOK
  <1>5. ASSUME NEW t \in Threads, closeShell(t) PROVE OutInv'
    <2> DEFINE s == call[t].sess
    <2>1. /\ pc[t] = "close" /\ alive' = alive \ {shell[s]} /\ (shell[s] # NoShell => shMu[shell[s]] = Free)
          /\ UNCHANGED <<shMu, inq, outq, cmds, abandoned>>
      BY <1>5 DEF closeShell
    <2>2. pc' = [pc EXCEPT ![t] = "idle"] /\ call' = [call EXCEPT ![t] = NoCall] /\ NoCall.todo = <<>>
      BY <1>5 DEF closeShell, Return, Goto, NoCall
    <2> QED BY <2>1, <2>2, NoCallType, OutsideShell DEF Pcs
  <1>6. ASSUME NEW t \in Threads, WriteCommand(t) PROVE OutInv'
    <2>h. PICK h \in Shells : h = call[t].sh BY <1>6 DEF WriteCommand, CallOK
    <2>0. /\ pc[t] = "lock" /\ call[t] \in CallType /\ call[t].todo # <<>>
          /\ call[t].got = {} /\ shMu[h] = Free
          /\ UNCHANGED <<alive, outq, cmds, abandoned>>
      BY <1>6, <2>h DEF WriteCommand, TypeOK, CallOK, CallOut
    <2>1. CASE /\ h \in alive /\ inq' = [inq EXCEPT ![h] = Append(@, current(t))]
               /\ shMu' = [shMu EXCEPT ![h] = t] /\ Goto(t, "read") /\ UNCHANGED call
      <3>1. \A u \in Threads : /\ pc'[u] = IF u = t THEN "read" ELSE pc[u]
                               /\ call'[u] = IF u = t THEN call[t] ELSE call[u]
        BY <2>1 DEF TypeOK, Goto
      <3>2. \A g \in Shells : /\ shMu'[g] = IF g = h THEN t ELSE shMu[g]
                              /\ g # h => inq'[g] = inq[g]
        BY <2>1 DEF TypeOK
      <3>3. abandoned' \subseteq 1 .. Len(cmds') /\ (\A u \in Threads : CallOut(u))' /\ IssuedOnce'
        <4>1. \A u \in Threads : u # t /\ pc[u] = "read" => shMu'[call[u].sh] = u
          BY <2>0, <3>2 DEF CallOut, CallOK
        <4>2. \A i \in 1 .. Len(call[t].todo) : i + 0 \in 1 .. Len(call[t].todo)
                                                /\ call[t].todo[i] = call[t].todo[i + 0]
          BY <2>0 DEF CallType
        <4> QED BY <2>h, <2>0, <3>1, <3>2, <4>1, <4>2, CallShrinks DEF Pcs
      <3>4. ShellOut(h)'
        <4> DEFINE n == current(t)
                   q == inq[h]
        <4>1. q \in Seq(Cmds) /\ n \in Cmds /\ 1 \in 1 .. Len(call[t].todo) /\ n = call[t].todo[1]
          BY <2>0, QueueTypes DEF current, CallType
        <4>2. n \notin abandoned BY <4>1 DEF CallOut
        <4>3. /\ \A i \in 1 .. Len(q) : q[i] \in abandoned
              /\ \A i \in 1 .. Len(outq[h]) : outq[h][i].cmd \in abandoned
              /\ \A i, j \in 1 .. Len(q) : q[i] = q[j] => i = j
              /\ \A i \in 1 .. Len(q), j \in 1 .. Len(outq[h]) : q[i] # outq[h][j].cmd
              /\ \A i, j \in 1 .. Len(outq[h]) :
                    i < j /\ outq[h][i].kind = "delim" => outq[h][j].cmd # outq[h][i].cmd
          BY <2>0 DEF OutInv, ShellOut, Expected
        <4>4. /\ shMu'[h] = t /\ outq'[h] = outq[h] /\ pc'[t] = "read" /\ current(t)' = n /\ call'[t].sh = h
              /\ h \in alive' /\ abandoned' = abandoned
          BY <2>h, <2>0, <2>1, <3>1, <3>2 DEF current
        <4>5. inq'[h] = Append(q, n) BY <2>1 DEF TypeOK
        <4> HIDE DEF n, q
        <4>6. /\ Len(inq'[h]) = Len(q) + 1 /\ Len(q) \in Nat
              /\ \A i \in 1 .. Len(inq'[h]) : inq'[h][i] = IF i = Len(q) + 1 THEN n ELSE q[i]
          BY <4>1, <4>5
        <4>7. HolderReads(h)' BY <4>4 DEF HolderReads
        <4>8. \A c \in abandoned \cup {n} : Expected(h, c)' BY <4>4 DEF Expected
        <4> DEFINE q2 == inq'[h]
        <4>9. \A i \in 1 .. Len(q2) :
                 \/ i \in 1 .. Len(q) /\ q2[i] = q[i]
                 \/ i = Len(q) + 1 /\ q2[i] = n
          BY <4>6
        <4>10. \A i \in 1 .. Len(q2) : q2[i] \in abandoned \cup {n} BY <4>3, <4>9
        <4>11. \A i, j \in 1 .. Len(q2) : q2[i] = q2[j] => i = j BY <4>2, <4>3, <4>9
        <4>12. \A i \in 1 .. Len(q2), j \in 1 .. Len(outq[h]) : q2[i] # outq[h][j].cmd
          BY SMTT(30), <4>2, <4>3, <4>9
        <4>13. (\A i \in 1 .. Len(inq[h]) : Expected(h, inq[h][i]))' BY <4>8, <4>10
        <4>14. (\A i \in 1 .. Len(outq[h]) : Expected(h, outq[h][i].cmd))' BY <4>3, <4>4, <4>8
        <4> QED BY <4>3, <4>4, <4>7, <4>11, <4>12, <4>13, <4>14 DEF ShellOut
      <3>5. ASSUME NEW g \in Shells, g # h PROVE ShellOut(g)'
        <4>1. ShellOut(g) /\ shMu[g] # t BY <2>0 DEF OutInv, ShellOut, HolderReads
        <4> QED BY <2>0, <3>1, <3>2, <3>5, <4>1, ShellKeeps
      <3> QED BY <3>3, <3>4, <3>5 DEF OutInv
    <2>2. CASE NextCommand(t) /\ UNCHANGED <<inq, shMu>>
      <3>1. PICK l \in {"idle", "lock"}, c \in CallType :
               /\ pc' = [pc EXCEPT ![t] = l] /\ call' = [call EXCEPT ![t] = c]
               /\ l = "lock" => c = [call[t] EXCEPT !.todo = Tail(@), !.got = {}]
                                /\ Len(call[t].todo) > 1
               /\ l = "idle" => c = NoCall
        BY Zenon, <2>0, <2>2, NextCommandCall
      <3>2. l = "idle" => c.todo = <<>> BY <3>1 DEF NoCall
      <3>3. l = "lock" => c.todo = Tail(call[t].todo) /\ c.got = {} BY ZenonT(60), <2>0, <3>1, CallTypes DEF CallType
      <3> QED BY <2>0, <2>2, <3>1, <3>2, <3>3, OutsideShell DEF Pcs
    <2> QED BY <1>6, <2>h, <2>1, <2>2 DEF WriteCommand
  <1>7. ASSUME NEW t \in Threads, ReadLine(t) PROVE OutInv'
    <2>h. PICK h \in Shells : h = call[t].sh BY <1>7 DEF ReadLine, CallOK
    <2>o. PICK o : o = outq'[h] OBVIOUS
    <2>0. /\ pc[t] = "read" /\ shMu[h] = t /\ call[t] \in CallType /\ call[t].todo # <<>>
          /\ outq[h] # <<>> /\ o = Tail(outq[h]) /\ outq' = [outq EXCEPT ![h] = Tail(@)]
          /\ ShellOut(h) /\ UNCHANGED <<inq, alive, cmds>>
      BY <1>7, <2>h, <2>o DEF ReadLine, TypeOK, CallOK, CallOut, OutInv
    <2>1. /\ 1 \in 1 .. Len(outq[h]) /\ Head(outq[h]) = outq[h][1]
          /\ \A i \in 1 .. Len(o) : i + 1 \in 1 .. Len(outq[h]) /\ o[i] = outq[h][i + 1]
          /\ \A i \in 1 .. Len(inq[h]), j \in 1 .. Len(o) : inq[h][i] # o[j].cmd
          /\ \A i, j \in 1 .. Len(o) : i < j /\ o[i].kind = "delim" => o[j].cmd # o[i].cmd
      <3>1. outq[h] # <<>> /\ o = Tail(outq[h]) /\ ShellOut(h) BY <2>0
      <3> DEFINE q == Tail(outq[h])
      <3>2. /\ 1 \in 1 .. Len(outq[h]) /\ Head(outq[h]) = outq[h][1]
            /\ \A i \in 1 .. Len(q) : i + 1 \in 1 .. Len(outq[h]) /\ q[i] = outq[h][i + 1]
            /\ \A i \in 1 .. Len(inq[h]), j \in 1 .. Len(q) : inq[h][i] # q[j].cmd
            /\ \A i, j \in 1 .. Len(q) : i < j /\ q[i].kind = "delim" => q[j].cmd # q[i].cmd
        BY Zenon, <3>1, TakesLine
      <3>3. o = q BY <3>1
      <3> HIDE DEF q
      <3> QED BY <3>2, <3>3
    <2>2. /\ \A i \in 1 .. Len(inq[h]) : inq[h][i] \in abandoned \cup {current(t)}
          /\ \A i \in 1 .. Len(outq[h]) : outq[h][i].cmd \in abandoned \cup {current(t)}
      BY <2>0 DEF ShellOut, Expected
    <2>3. \A i \in 1 .. Len(o) : o[i].cmd \in abandoned \cup {current(t)} BY <2>1, <2>2
    <2>4. CASE /\ call' = [call EXCEPT ![t].got = @ \cup {Head(outq[h]).cmd}]
               /\ UNCHANGED <<shMu, abandoned, pc>>
      <3> DEFINE c == [call[t] EXCEPT !.got = @ \cup {outq[h][1].cmd}]
      <3>1. outq[h][1].cmd \in Cmds BY <2>0, <2>1, QueueTypes DEF Lines
      <3>2. c \in CallType /\ c.todo = call[t].todo /\ c.sh = h BY Zenon, <2>h, <2>0, <3>1, CallTypes
      <3>3. c.got = call[t].got \cup {outq[h][1].cmd} BY <2>0 DEF CallType
      <3>4. call' = [call EXCEPT ![t] = c] BY <2>1, <2>4 DEF TypeOK
      <3> HIDE DEF c
      <3>5. \A u \in Threads : /\ pc'[u] = IF u = t THEN "read" ELSE pc[u]
                               /\ call'[u] = IF u = t THEN c ELSE call[u]
        BY <2>0, <2>4, <3>4 DEF TypeOK
      <3>6. c.got \subseteq {Head(c.todo)} \cup abandoned
        <4>1. outq[h][1].cmd \in abandoned \cup {current(t)} BY <2>1, <2>2
        <4>2. call[t].got \subseteq {current(t)} \cup abandoned BY <2>0 DEF CallOut
        <4> QED BY <3>2, <3>3, <4>1, <4>2 DEF current
      <3>7. abandoned' \subseteq 1 .. Len(cmds') /\ (\A u \in Threads : CallOut(u))' /\ IssuedOnce'
        <4>1. \A u \in Threads : u # t /\ pc[u] = "read" => shMu'[call[u].sh] = u
          BY <2>4 DEF CallOut
        <4>2. \A i \in 1 .. Len(c.todo) : i + 0 \in 1 .. Len(call[t].todo) /\ c.todo[i] = call[t].todo[i + 0]
          BY <2>0, <3>2 DEF CallType
        <4>3. shMu'[c.sh] = t /\ abandoned' = abandoned /\ cmds' = cmds BY <2>0, <2>4, <3>2
        <4> QED BY <3>2, <3>5, <3>6, <4>1, <4>2, <4>3, CallShrinks DEF Pcs
      <3>8. \A u \in Threads : current(u)' = current(u) /\ call'[u].sh = call[u].sh
        BY <2>h, <3>2, <3>5 DEF current
      <3>9. ShellOut(h)'
        <4>1. HolderReads(h)' BY <2>0, <2>4, <3>5, <3>8 DEF ShellOut, HolderReads
        <4>2. \A n \in abandoned \cup {current(t)} : Expected(h, n)'
          BY <2>0, <2>4, <3>8 DEF Expected
        <4>3. (\A i \in 1 .. Len(inq[h]) : Expected(h, inq[h][i]))' BY <2>0, <2>2, <4>2
        <4>4. (\A i \in 1 .. Len(outq[h]) : Expected(h, outq[h][i].cmd))' BY <2>o, <2>3, <4>2
        <4>5. \A i, j \in 1 .. Len(inq[h]) : inq[h][i] = inq[h][j] => i = j BY <2>0 DEF ShellOut
        <4>6. shMu[h] # Free /\ h \notin alive => inq[h] = <<>> BY <2>0 DEF ShellOut
        <4> QED BY <2>o, <2>0, <2>1, <2>4, <4>1, <4>3, <4>4, <4>5, <4>6 DEF ShellOut
      <3>10. ASSUME NEW g \in Shells, g # h PROVE ShellOut(g)'
        <4>1. ShellOut(g) BY DEF OutInv
        <4>2. shMu[g] # t BY <2>h, <3>10, <4>1 DEF ShellOut, HolderReads
        <4>3. outq'[g] = outq[g] BY SMTT(30), <2>0, <3>10 DEF TypeOK
        <4> QED BY <2>0, <2>4, <3>5, <4>1, <4>2, <4>3, ShellKeeps
      <3> QED BY <3>7, <3>9, <3>10 DEF OutInv
    <2>5. CASE Release(t) /\ abandoned' = abandoned \cup {current(t)} /\ Return(t)
      <3>1. \A i \in 1 .. Len(outq'[h]) : outq'[h][i].cmd \in abandoned' BY <2>o, <2>3, <2>5
      <3> QED BY <2>h, <2>0, <2>2, <2>5, <3>1, LeavesShell
    <2> QED BY <1>7, <2>h, <2>4, <2>5 DEF ReadLine
  <1>8. ASSUME NEW t \in Threads, ReadDelimiter(t) PROVE OutInv'
    <2>h. PICK h \in Shells : h = call[t].sh BY <1>8 DEF ReadDelimiter, CallOK
    <2>o. PICK o : o = outq'[h] OBVIOUS
    <2>0. /\ pc[t] = "read" /\ shMu[h] = t
          /\ outq[h] # <<>> /\ o = Tail(outq[h]) /\ outq' = [outq EXCEPT ![h] = Tail(@)]
          /\ Head(outq[h]) = delim(current(t)) /\ Release(t) /\ NextCommand(t)
          /\ ShellOut(h) /\ UNCHANGED <<inq, alive, cmds, abandoned>>
      BY <1>8, <2>h, <2>o DEF ReadDelimiter, TypeOK, CallOut, OutInv
    <2>1. /\ 1 \in 1 .. Len(outq[h]) /\ Head(outq[h]) = outq[h][1]
          /\ \A i \in 1 .. Len(o) : i + 1 \in 1 .. Len(outq[h]) /\ o[i] = outq[h][i + 1]
      BY <2>0, TakesLine
    <2>2. /\ \A i \in 1 .. Len(inq[h]) : inq[h][i] \in abandoned \cup {current(t)}
          /\ \A i \in 1 .. Len(outq[h]) : outq[h][i].cmd \in abandoned \cup {current(t)}
      BY <2>0 DEF ShellOut, Expected
    <2>3. outq[h][1].kind = "delim" /\ outq[h][1].cmd = current(t) BY <2>0, <2>1 DEF delim
    \* The delimiter is the last of the command's output, and what is left was abandoned.
    <2>4. \A i \in 1 .. Len(inq[h]) : inq[h][i] \in abandoned
      BY <2>0, <2>1, <2>2, <2>3 DEF ShellOut
    <2>5. ASSUME NEW i \in 1 .. Len(o) PROVE o[i].cmd \in abandoned
      <3>1. outq[h] \in Seq(Lines) BY QueueTypes
      <3>2. 1 < i + 1 /\ i + 1 \in 1 .. Len(outq[h]) /\ o[i] = outq[h][i + 1] BY <2>1, <3>1
      <3>3. outq[h][i + 1].cmd # current(t) BY <2>0, <2>1, <2>3, <3>2 DEF ShellOut
      <3> QED BY <2>2, <3>2, <3>3
    <2>6. /\ \A i \in 1 .. Len(inq[h]) : inq[h][i] \in abandoned'
          /\ \A i \in 1 .. Len(outq'[h]) : outq'[h][i].cmd \in abandoned'
      BY <2>o, <2>0, <2>4, <2>5
    <2> QED BY <2>h, <2>0, <2>6, LeavesShell
  <1>9. ASSUME NEW t \in Threads, ReadEOF(t) PROVE OutInv'
    <2>h. PICK h \in Shells : h = call[t].sh BY <1>9 DEF ReadEOF, CallOK
    <2>0. /\ pc[t] = "read" /\ shMu[h] = t /\ outq[h] = <<>> /\ h \notin alive
          /\ Release(t) /\ NextCommand(t) /\ UNCHANGED <<inq, outq, alive, cmds, abandoned>>
      BY <1>9, <2>h DEF ReadEOF, CallOut, shells
    <2>1. inq[h] = <<>> BY <2>0 DEF OutInv, ShellOut
    <2>2. /\ \A i \in 1 .. Len(inq[h]) : inq[h][i] \in abandoned'
          /\ \A i \in 1 .. Len(outq'[h]) : outq'[h][i].cmd \in abandoned'
      BY <2>0, <2>1
    <2> QED BY <2>h, <2>0, <2>2, LeavesShell
  <1>10. ASSUME NEW h \in Shells, RunCommand(h) PROVE OutInv'
    <2>0. /\ h \in alive /\ inq[h] # <<>> /\ inq[h] \in Seq(Cmds) /\ outq[h] \in Seq(Lines)
          /\ UNCHANGED <<shMu, cmds, abandoned, pc, call>>
      BY <1>10, QueueTypes DEF RunCommand, locks
    <2>1. abandoned' \subseteq 1 .. Len(cmds') /\ (\A t \in Threads : CallOut(t))' /\ IssuedOnce'
      BY <2>0 DEF OutInv, CallOut, current, IssuedOnce
    <2>2. ShellOut(h)'
      <3>c. PICK c : c = Head(inq[h]) OBVIOUS
      <3>q. PICK q \in Seq(Cmds) : q = inq[h] BY <2>0
      <3>o. PICK o \in Seq(Lines) : o = outq[h] BY <2>0
      <3>0. HolderReads(h)' /\ \A n : Expected(h, n) => Expected(h, n)'
        BY <2>0 DEF OutInv, ShellOut, HolderReads, Expected, current
      <3>1. /\ \A i \in 1 .. Len(q) : Expected(h, q[i])
            /\ \A i \in 1 .. Len(o) : Expected(h, o[i].cmd)
            /\ \A i, j \in 1 .. Len(q) : q[i] = q[j] => i = j
            /\ \A i \in 1 .. Len(q), j \in 1 .. Len(o) : q[i] # o[j].cmd
            /\ \A i, j \in 1 .. Len(o) : i < j /\ o[i].kind = "delim" => o[j].cmd # o[i].cmd
        BY <3>q, <3>o DEF OutInv, ShellOut
      <3>2. 1 \in 1 .. Len(q) /\ c = q[1] BY <2>0, <3>c, <3>q
      <3>3. line(c).cmd = c /\ line(c).kind = "line" /\ delim(c).cmd = c BY DEF line, delim
      <3>4. line(c) \in Lines /\ delim(c) \in Lines BY <2>0, <3>c, QueueTypes
      <3>5. CASE /\ outq' = [outq EXCEPT ![h] = @ \o <<line(c), delim(c)>>]
                 /\ inq' = [inq EXCEPT ![h] = Tail(@)] /\ UNCHANGED alive
        <4>q. PICK q2 : q2 = Tail(q) OBVIOUS
        <4>o. PICK o2 : o2 = o \o <<line(c), delim(c)>> OBVIOUS
        <4>1. inq'[h] = q2 /\ outq'[h] = o2 BY <3>5, <3>q, <3>o, <4>q, <4>o DEF TypeOK
        <4>2. \A i \in 1 .. Len(q2) : i + 1 \in 1 .. Len(q) /\ i + 1 # 1 /\ q2[i] = q[i + 1]
          BY <2>0, <3>q, <4>q
        <4>3. \A i \in 1 .. Len(o2) :
                 \/ i \in 1 .. Len(o) /\ o2[i] = o[i]
                 \/ i = Len(o) + 1 /\ o2[i] = line(c)
                 \/ i = Len(o) + 2 /\ o2[i] = delim(c)
          BY <3>4, <4>o
        <4>4. \A i \in 1 .. Len(q2) : Expected(h, q2[i]) BY <3>1, <4>2
        <4>5. \A i \in 1 .. Len(o2) : Expected(h, o2[i].cmd) BY <3>1, <3>2, <3>3, <4>3
        <4>6. \A i, j \in 1 .. Len(q2) : q2[i] = q2[j] => i = j
          <5> SUFFICES ASSUME NEW i \in 1 .. Len(q2), NEW j \in 1 .. Len(q2), q2[i] = q2[j] PROVE i = j
            OBVIOUS
          <5>1. i + 1 = j + 1 BY <3>1, <4>2
          <5>2. Len(q2) \in Nat BY <2>0, <3>q, <4>q
          <5> QED BY <5>1, <5>2
        <4>7. \A i \in 1 .. Len(q2), j \in 1 .. Len(o2) : q2[i] # o2[j].cmd
          <5>1. \A i \in 1 .. Len(q2) : q2[i] # c /\ \A j \in 1 .. Len(o) : q2[i] # o[j].cmd
            BY SMTT(30), <3>1, <3>2, <4>2
          <5> QED BY <3>3, <4>3, <5>1
        <4>8. \A i, j \in 1 .. Len(o2) : i < j /\ o2[i].kind = "delim" => o2[j].cmd # o2[i].cmd
          <5>1. Len(o) \in Nat OBVIOUS
          <5> QED BY SMTT(30), <3>1, <3>2, <3>3, <4>3, <5>1
        <4>9. (\A i \in 1 .. Len(inq[h]) : Expected(h, inq[h][i]))' BY <3>0, <4>1, <4>4
        <4>10. (\A i \in 1 .. Len(outq[h]) : Expected(h, outq[h][i].cmd))' BY <3>0, <4>1, <4>5
        <4>11. h \in alive' BY <2>0, <3>5
        <4> QED BY <3>0, <4>1, <4>6, <4>7, <4>8, <4>9, <4>10, <4>11 DEF ShellOut
      <3>6. CASE /\ outq' = [outq EXCEPT ![h] = Append(@, line(c))] /\ inq' = [inq EXCEPT ![h] = <<>>]
        <4>o. PICK o2 : o2 = Append(o, line(c)) OBVIOUS
        <4>1. inq'[h] = <<>> /\ outq'[h] = o2 BY <3>6, <3>o, <4>o DEF TypeOK
        <4>2. \A i \in 1 .. Len(o2) :
                 \/ i \in 1 .. Len(o) /\ o2[i] = o[i]
                 \/ i = Len(o) + 1 /\ o2[i] = line(c)
          BY <3>4, <4>o
        <4>3. \A i \in 1 .. Len(o2) : Expected(h, o2[i].cmd) BY <3>1, <3>2, <3>3, <4>2
        <4>4. \A i, j \in 1 .. Len(o2) : i < j /\ o2[i].kind = "delim" => o2[j].cmd # o2[i].cmd
          <5>1. Len(o) \in Nat OBVIOUS
          <5> QED BY SMTT(30), <3>1, <3>2, <3>3, <4>2, <5>1
        <4>5. (\A i \in 1 .. Len(outq[h]) : Expected(h, outq[h][i].cmd))' BY <3>0, <4>1, <4>3
        <4> QED BY <3>0, <4>1, <4>4, <4>5 DEF ShellOut
      <3>7. CASE /\ outq' = [outq EXCEPT ![h] = Append(@, line(c))]
                 /\ inq' = [inq EXCEPT ![h] = Tail(@)] /\ UNCHANGED alive
        <4>q. PICK q2 : q2 = Tail(q) OBVIOUS
        <4>o. PICK o2 : o2 = Append(o, line(c)) OBVIOUS
        <4>1. inq'[h] = q2 /\ outq'[h] = o2 BY <3>7, <3>q, <3>o, <4>q, <4>o DEF TypeOK
        <4>2. \A i \in 1 .. Len(q2) : i + 1 \in 1 .. Len(q) /\ i + 1 # 1 /\ q2[i] = q[i + 1]
          BY <2>0, <3>q, <4>q
        <4>3. \A i \in 1 .. Len(o2) :
                 \/ i \in 1 .. Len(o) /\ o2[i] = o[i]
                 \/ i = Len(o) + 1 /\ o2[i] = line(c)
          BY <3>4, <4>o
        <4>4. \A i \in 1 .. Len(q2) : Expected(h, q2[i]) BY <3>1, <4>2
        <4>5. \A i \in 1 .. Len(o2) : Expected(h, o2[i].cmd) BY <3>1, <3>2, <3>3, <4>3
        <4>6. \A i, j \in 1 .. Len(q2) : q2[i] = q2[j] => i = j
          <5> SUFFICES ASSUME NEW i \in 1 .. Len(q2), NEW j \in 1 .. Len(q2), q2[i] = q2[j] PROVE i = j
            OBVIOUS
          <5>1. i + 1 = j + 1 BY <3>1, <4>2
          <5>2. Len(q2) \in Nat BY <2>0, <3>q, <4>q
          <5> QED BY <5>1, <5>2
        <4>7. \A i \in 1 .. Len(q2), j \in 1 .. Len(o2) : q2[i] # o2[j].cmd
          <5>1. \A i \in 1 .. Len(q2) : q2[i] # c /\ \A j \in 1 .. Len(o) : q2[i] # o[j].cmd
            BY SMTT(30), <3>1, <3>2, <4>2
          <5> QED BY <3>3, <4>3, <5>1
        <4>8. \A i, j \in 1 .. Len(o2) : i < j /\ o2[i].kind = "delim" => o2[j].cmd # o2[i].cmd
          <5>1. Len(o) \in Nat OBVIOUS
          <5> QED BY SMTT(30), <3>1, <3>2, <3>3, <4>3, <5>1
        <4>9. (\A i \in 1 .. Len(inq[h]) : Expected(h, inq[h][i]))' BY <3>0, <4>1, <4>4
        <4>10. (\A i \in 1 .. Len(outq[h]) : Expected(h, outq[h][i].cmd))' BY <3>0, <4>1, <4>5
        <4>11. h \in alive' BY <2>0, <3>7
        <4> QED BY <3>0, <4>1, <4>6, <4>7, <4>8, <4>9, <4>10, <4>11 DEF ShellOut
      <3> QED BY <1>10, <3>c, <3>5, <3>6, <3>7 DEF RunCommand
    <2>3. ASSUME NEW g \in Shells, g # h PROVE ShellOut(g)'
      <3>1. ShellOut(g) BY DEF OutInv
      <3>2. /\ inq'[g] = inq[g] /\ outq'[g] = outq[g] /\ (g \notin alive' => g \notin alive)
        BY <1>10, <2>3 DEF RunCommand, TypeOK
      <3> QED BY <2>0, <3>1, <3>2, ShellKeeps
    <2> QED BY <2>1, <2>2, <2>3 DEF OutInv
  <1>11. CASE UNCHANGED vars
    <2>0. UNCHANGED <<inq, outq, alive, shMu, cmds, abandoned, pc, call>>
      BY <1>11 DEF vars, locks, shells
    <2>1. (\A t \in Threads : CallOut(t))' BY <2>0 DEF OutInv, CallOut, current
    <2>2. IssuedOnce' BY <2>0 DEF OutInv, IssuedOnce
    <2>3. (\A h \in Shells : ShellOut(h))'
      BY <2>0 DEF OutInv, ShellOut, HolderReads, Expected, current
    <2> QED BY <2>0, <2>1, <2>2, <2>3 DEF OutInv
  <1> QED BY <1>1, <1>2, <1>3, <1>4, <1>5, <1>6, <1>7, <1>8, <1>9, <1>10, <1>11 DEF Next, Request, Steps

\* What a command's reader takes for its output is its own, whichever commands and scripts
\* wait for the shell, and however many streams were given up before: only what is left
\* over of those comes before it (shellSession.Exec and ExecStream).
THEOREM OwnOutputHolds == Spec => []OwnOutput
  <1>1. OutInv => OwnOutput BY DEF OutInv, CallOut, OwnOutput
  <1> QED BY InitOwn, OwnStep, InitOut, OutStep, <1>1, PTL DEF Spec
===============================================================================
