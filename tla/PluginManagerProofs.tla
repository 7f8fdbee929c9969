-------------------------- MODULE PluginManagerProofs --------------------------
(***************************************************************************)
(* Proofs about the supervisors, for every set of slots, every number of   *)
(* relaunches and every choice of faults, and about PluginManager, for any *)
(* plugins, dependencies, callers, slots and failures.                     *)
(*                                                                         *)
(* With any number of calls in progress at a time: PInv follows a plugin's *)
(* slot from the loadPlugin that launches it to the map of supervisors and *)
(* to the thread that stops it; one of them has it at a time.  It implies  *)
(* StopOnce and NoUnsupervisedProcess.  DownInv adds what the loop of      *)
(* Shutdown has left behind, for ShutdownKillsAll.                         *)
(***************************************************************************)
EXTENDS PluginManager, FiniteSetTheorems, TLAPS

-------------------------------------------------------------------------------
(* The supervisors.  The lemmas show that each step keeps SupTypeOK and    *)
(* SupInv.  A step of slot s changes proc, cur, mon and stop at s only, so *)
(* that SlotInv of every other slot carries over (OtherSlots).             *)

IInv == SupTypeOK /\ SupInv

\* What a step of slot s leaves alone.
OnlySlot(s) ==
    \A r \in Slots \ {s} :
        /\ proc'[r] = proc[r] /\ cur'[r] = cur[r]
        /\ mon'[r] = mon[r] /\ stop'[r] = stop[r]
        /\ r \in reaped' <=> r \in reaped

LEMMA OtherSlots ==
    ASSUME IInv, NEW s \in Slots, OnlySlot(s), SlotInv(s)'
    PROVE  SupInv'
<1> SUFFICES ASSUME NEW r \in Slots, r # s PROVE SlotInv(r)'
  BY DEF SupInv
<1>1. SlotInv(r)
  BY DEF IInv, SupInv
<1>2. /\ proc'[r] = proc[r] /\ cur'[r] = cur[r]
      /\ mon'[r] = mon[r] /\ stop'[r] = stop[r]
      /\ r \in reaped' <=> r \in reaped
  BY DEF OnlySlot
<1>3. QED
  BY <1>1, <1>2 DEF SlotInv, Retrying, NoSuccessor, Running

\* Killing a process keeps the type of proc, the other processes, and whatever
\* a process that was not running was.
LEMMA KillSlot ==
    ASSUME SupTypeOK, NEW s \in Slots, NEW g \in Gens, proc' = Kill(s, g)
    PROVE  /\ proc' \in [Slots -> [Gens -> ProcState]]
           /\ proc'[s][g] = IF proc[s][g] = "running" THEN "killed" ELSE proc[s][g]
           /\ \A h \in Gens \ {g} : proc'[s][h] = proc[s][h]
           /\ \A r \in Slots \ {s} : proc'[r] = proc[r]
BY DEF Kill, SupTypeOK, ProcState

LEMMA StepStart ==
    ASSUME IInv, NEW s \in Slots, Start(s)
    PROVE  IInv'
<1>1. SupTypeOK'
  BY DEF IInv, SupTypeOK, Start, ProcState
<1>2. OnlySlot(s)
  BY DEF IInv, SupTypeOK, Start, OnlySlot
<1>3. SlotInv(s)'
  <2>1. SlotInv(s) /\ 0 \in Gens /\ cur[s] \in Gens
    BY SupervisorAssumption DEF IInv, SupInv, Gens, SupTypeOK
  <2>2. /\ proc'[s][0] = "running"
        /\ \A g \in Gens \ {0} : proc'[s][g] = proc[s][g]
    BY <2>1 DEF Start, IInv, SupTypeOK
  <2>3. mon[s] = "none" /\ cur[s] = 0
    BY <2>1, SupervisorAssumption DEF SlotInv, Start, Gens
  <2>4. UNCHANGED <<cur, reaped, mon, stop>>
    BY DEF Start
  <2>5. QED
    BY <2>1, <2>2, <2>3, <2>4, SupervisorAssumption
       DEF SlotInv, NoSuccessor, Running, Gens, Retrying
<1>4. QED
  BY <1>1, <1>2, <1>3, OtherSlots DEF IInv

LEMMA StepAdopt ==
    ASSUME IInv, NEW s \in Slots, startAdopt(s)
    PROVE  IInv'
<1>1. SupTypeOK'
  BY DEF IInv, SupTypeOK, startAdopt, MonState
<1>2. OnlySlot(s)
  BY DEF IInv, SupTypeOK, startAdopt, OnlySlot
<1>3. SlotInv(s)'
  <2>1. SlotInv(s) /\ cur[s] \in Gens /\ mon'[s] \in MonState
    BY <1>1 DEF IInv, SupInv, SupTypeOK
  <2>2. QED
    BY <2>1 DEF startAdopt, SlotInv, NoSuccessor, Running, Retrying, IInv, SupTypeOK
<1>4. QED
  BY <1>1, <1>2, <1>3, OtherSlots DEF IInv

LEMMA StepContext ==
    ASSUME IInv, NEW s \in Slots, ContextDone(s)
    PROVE  IInv'
<1>1. SupTypeOK'
  BY DEF IInv, SupTypeOK, ContextDone
<1>2. OnlySlot(s)
  BY DEF IInv, SupTypeOK, ContextDone, OnlySlot
<1>3. SlotInv(s)'
  <2>1. SlotInv(s) /\ cur[s] \in Gens /\ mon'[s] \in MonState
    BY <1>1 DEF IInv, SupInv, SupTypeOK
  <2>2. QED
    BY <2>1 DEF ContextDone, SlotInv, NoSuccessor, Running, Retrying, IInv, SupTypeOK
<1>4. QED
  BY <1>1, <1>2, <1>3, OtherSlots DEF IInv

LEMMA StepExit ==
    ASSUME IInv, NEW s \in Slots, NEW g \in Gens, Exit(s, g)
    PROVE  IInv'
<1>1. SupTypeOK'
  BY DEF IInv, SupTypeOK, Exit, ProcState
<1>2. OnlySlot(s)
  BY DEF IInv, SupTypeOK, Exit, OnlySlot
<1>3. SlotInv(s)'
  <2>1. SlotInv(s) /\ cur[s] \in Gens
    BY DEF IInv, SupInv, SupTypeOK
  <2>2. PICK st \in {"ok", "crashed"} : proc' = [proc EXCEPT ![s][g] = st]
    BY DEF Exit
  <2>3. /\ proc'[s][g] = st
        /\ \A h \in Gens \ {g} : proc'[s][h] = proc[s][h]
    BY <2>2 DEF IInv, SupTypeOK
  <2>4. Running(s, g) /\ UNCHANGED <<cur, reaped, mon, stop>>
    BY DEF Exit
  <2>5. 0 \in Gens /\ cur[s] \in Nat /\ \A h \in Gens : h \in Nat
    BY <2>1, SupervisorAssumption DEF Gens
  <2>6. QED
    BY <2>1, <2>2, <2>3, <2>4, <2>5
       DEF SlotInv, NoSuccessor, Running, Retrying
<1>4. QED
  BY <1>1, <1>2, <1>3, OtherSlots DEF IInv

LEMMA StepWait ==
    ASSUME IInv, NEW s \in Slots, MonitorWait(s)
    PROVE  IInv'
<1>1. SupTypeOK'
  BY DEF IInv, SupTypeOK, MonitorWait, MonState
<1>2. OnlySlot(s)
  BY DEF IInv, SupTypeOK, MonitorWait, OnlySlot
<1>3. SlotInv(s)'
  <2>1. SlotInv(s) /\ cur[s] \in Gens /\ proc[s][cur[s]] \in ProcState
    BY DEF IInv, SupInv, SupTypeOK
  <2>2. /\ mon[s] = "wait" /\ ~Running(s, cur[s]) /\ s \in reaped'
        /\ UNCHANGED <<proc, cur, stop>>
    BY DEF MonitorWait
  <2>3. CASE Crashed(s)
    <3>1. mon'[s] = "backoff" /\ s \notin reaped /\ stop[s] # "returned"
      BY <2>3 DEF MonitorWait, IInv, SupTypeOK, Crashed, stopped
    <3>2. proc[s][cur[s]] \in {"crashed", "killed"}
      BY <2>1, <2>2, <2>3 DEF Crashed, SlotInv, Running, ProcState
    <3>3. QED
      BY <2>1, <2>2, <3>1, <3>2 DEF SlotInv, NoSuccessor, Running, Retrying
  <2>4. CASE ~Crashed(s)
    <3>1. mon'[s] = "done"
      BY <2>4 DEF MonitorWait, IInv, SupTypeOK
    <3>2. QED
      BY <2>1, <2>2, <3>1 DEF SlotInv, NoSuccessor, Running, Retrying
  <2>5. QED
    BY <2>3, <2>4
<1>4. QED
  BY <1>1, <1>2, <1>3, OtherSlots DEF IInv

LEMMA StepBackoff ==
    ASSUME IInv, NEW s \in Slots, MonitorBackoff(s)
    PROVE  IInv'
<1>1. SupTypeOK'
  BY DEF IInv, SupTypeOK, MonitorBackoff, MonState
<1>2. OnlySlot(s)
  BY DEF IInv, SupTypeOK, MonitorBackoff, OnlySlot
<1>3. SlotInv(s)'
  <2>1. SlotInv(s) /\ cur[s] \in Gens /\ mon'[s] \in MonState
    BY <1>1 DEF IInv, SupInv, SupTypeOK
  <2>2. QED
    BY <2>1 DEF MonitorBackoff, SlotInv, NoSuccessor, Running, Retrying, IInv, SupTypeOK
<1>4. QED
  BY <1>1, <1>2, <1>3, OtherSlots DEF IInv

LEMMA StepRebuild ==
    ASSUME IInv, NEW s \in Slots, rebuild(s)
    PROVE  IInv'
<1>1. SupTypeOK'
  BY DEF IInv, SupTypeOK, rebuild, MonState
<1>2. OnlySlot(s)
  BY DEF IInv, SupTypeOK, rebuild, OnlySlot
<1>3. SlotInv(s)'
  <2>1. SlotInv(s) /\ cur[s] \in Gens /\ mon'[s] \in MonState
    BY <1>1 DEF IInv, SupInv, SupTypeOK
  <2>2. QED
    BY <2>1 DEF rebuild, SlotInv, NoSuccessor, Running, Retrying, IInv, SupTypeOK
<1>4. QED
  BY <1>1, <1>2, <1>3, OtherSlots DEF IInv

LEMMA StepLaunchStart ==
    ASSUME IInv, NEW s \in Slots, LaunchStart(s)
    PROVE  IInv'
<1>1. SlotInv(s) /\ cur[s] \in Gens /\ UNCHANGED <<cur, reaped, stop>>
  BY DEF IInv, SupInv, SupTypeOK, LaunchStart
<1>2. mon[s] = "launch"
  BY DEF LaunchStart
<1>3. CASE /\ cur[s] < MaxGen
           /\ proc' = [proc EXCEPT ![s][cur[s] + 1] = "running"]
           /\ mon' = [mon EXCEPT ![s] = "handshake"]
  <2>1. cur[s] + 1 \in Gens
    BY <1>1, <1>3, SupervisorAssumption DEF Gens
  <2>2. /\ proc'[s][cur[s] + 1] = "running"
        /\ \A g \in Gens \ {cur[s] + 1} : proc'[s][g] = proc[s][g]
        /\ mon'[s] = "handshake"
    BY <1>3, <2>1 DEF IInv, SupTypeOK
  <2>3. SupTypeOK'
    BY <1>1, <1>3, <2>1 DEF IInv, SupTypeOK, ProcState, MonState, LaunchStart
  <2>4. OnlySlot(s)
    BY <1>1, <1>3 DEF IInv, SupTypeOK, OnlySlot
  <2>5. cur[s] \in Nat /\ \A g \in Gens : g \in Nat
    BY <1>1, SupervisorAssumption DEF Gens
  <2>6. SlotInv(s)'
    BY <1>1, <1>2, <1>3, <2>1, <2>2, <2>5
       DEF SlotInv, NoSuccessor, Running, Retrying
  <2>7. QED
    BY <2>3, <2>4, <2>6, OtherSlots DEF IInv
<1>4. CASE mon' = [mon EXCEPT ![s] = "wait"] /\ UNCHANGED proc
  <2>1. SupTypeOK' /\ OnlySlot(s) /\ mon'[s] = "wait"
    BY <1>1, <1>4 DEF IInv, SupTypeOK, MonState, OnlySlot, LaunchStart
  <2>2. SlotInv(s)'
    BY <1>1, <1>2, <1>4, <2>1 DEF SlotInv, NoSuccessor, Running, Retrying
  <2>3. QED
    BY <2>1, <2>2, OtherSlots DEF IInv
<1>5. QED
  BY <1>3, <1>4 DEF LaunchStart

LEMMA StepLaunchFinish ==
    ASSUME IInv, NEW s \in Slots, LaunchFinish(s)
    PROVE  IInv'
<1>1. SlotInv(s) /\ cur[s] \in Gens /\ UNCHANGED <<stop, ctxDone>>
  BY DEF IInv, SupInv, SupTypeOK, LaunchFinish
<1>2. /\ mon[s] = "handshake"
      /\ mon' = [mon EXCEPT ![s] = "wait"]
      /\ mon'[s] = "wait"
  BY DEF LaunchFinish, IInv, SupTypeOK
<1>3. cur[s] \in Nat /\ cur[s] + 1 \in Gens /\ \A g \in Gens : g \in Nat
  BY <1>1, <1>2, SupervisorAssumption DEF SlotInv, Gens
<1>4. CASE /\ Running(s, cur[s] + 1)
           /\ cur' = [cur EXCEPT ![s] = @ + 1]
           /\ reaped' = reaped \ {s}
           /\ UNCHANGED proc
  <2>1. SupTypeOK' /\ OnlySlot(s) /\ cur'[s] = cur[s] + 1
    BY <1>1, <1>2, <1>3, <1>4 DEF IInv, SupTypeOK, MonState, OnlySlot
  <2>2. SlotInv(s)'
    BY <1>1, <1>2, <1>3, <1>4, <2>1
       DEF SlotInv, NoSuccessor, Running, Retrying
  <2>3. QED
    BY <2>1, <2>2, OtherSlots DEF IInv
<1>5. CASE proc' = Kill(s, cur[s] + 1) /\ UNCHANGED <<cur, reaped>>
  <2>1. /\ proc' \in [Slots -> [Gens -> ProcState]]
        /\ proc'[s][cur[s] + 1] # "running"
        /\ \A h \in Gens \ {cur[s] + 1} : proc'[s][h] = proc[s][h]
        /\ \A r \in Slots \ {s} : proc'[r] = proc[r]
    BY <1>3, <1>5, KillSlot DEF IInv
  <2>2. SupTypeOK' /\ OnlySlot(s)
    BY <1>1, <1>2, <1>5, <2>1 DEF IInv, SupTypeOK, MonState, OnlySlot
  <2>3. proc'[s][cur[s]] \in {"crashed", "killed"} /\ s \in reaped'
    <3>1. proc'[s][cur[s]] = proc[s][cur[s]]
      BY <1>1, <1>3, <2>1
    <3>2. QED
      BY <1>1, <1>2, <1>5, <3>1 DEF SlotInv, Retrying
  <2>4. \A g \in Gens : g > cur[s] => proc'[s][g] # "running"
    BY <1>1, <1>3, <2>1 DEF SlotInv
  <2>5. \A g \in Gens : g < cur[s] => proc'[s][g] \in {"crashed", "killed"}
    BY <1>1, <1>3, <2>1 DEF SlotInv
  <2>6. \A g \in Gens : g > cur[s] + 1 => proc'[s][g] = "none"
    BY <1>1, <1>3, <2>1 DEF SlotInv
  <2>7. cur'[s] = cur[s] /\ stop'[s] = stop[s] /\ stop[s] # "returned"
    BY <1>1, <1>2, <1>5 DEF SlotInv
  <2>8. SlotInv(s)'
    BY <1>2, <2>3, <2>4, <2>5, <2>6, <2>7
       DEF SlotInv, NoSuccessor, Running, Retrying
  <2>9. QED
    BY <2>2, <2>8, OtherSlots DEF IInv
<1>6. QED
  BY <1>4, <1>5 DEF LaunchFinish

\* Killing a process of slot s, whoever does it and whatever else of the slot
\* stays as it is, keeps the invariant.
LEMMA StepKill ==
    ASSUME IInv, NEW s \in Slots, NEW g \in Gens, proc' = Kill(s, g),
           UNCHANGED <<cur, reaped, mon, stop>>, ctxDone' \subseteq Slots
    PROVE  IInv'
<1>1. SlotInv(s) /\ cur[s] \in Gens
  BY DEF IInv, SupInv, SupTypeOK
<1>2. /\ proc' \in [Slots -> [Gens -> ProcState]]
      /\ proc'[s][g] = IF proc[s][g] = "running" THEN "killed" ELSE proc[s][g]
      /\ \A h \in Gens \ {g} : proc'[s][h] = proc[s][h]
      /\ \A r \in Slots \ {s} : proc'[r] = proc[r]
  BY KillSlot DEF IInv
<1>3. SupTypeOK' /\ OnlySlot(s)
  BY <1>2 DEF IInv, SupTypeOK, OnlySlot
<1>4. \A h \in Gens : \/ proc'[s][h] = proc[s][h]
                      \/ proc[s][h] = "running" /\ proc'[s][h] = "killed"
  BY <1>2
<1>5. SlotInv(s)'
  BY <1>1, <1>4 DEF SlotInv, NoSuccessor, Running, Retrying
<1>6. QED
  BY <1>3, <1>5, OtherSlots DEF IInv

LEMMA StepStop ==
    ASSUME IInv, NEW s \in Slots, StopClose(s) \/ StopKill(s) \/ StopReturn(s)
    PROVE  IInv'
<1>1. SlotInv(s) /\ cur[s] \in Gens
  BY DEF IInv, SupInv, SupTypeOK
<1>2. CASE StopClose(s)
  <2>1. SupTypeOK' /\ OnlySlot(s) /\ stop'[s] = "closed"
    BY <1>2 DEF IInv, SupTypeOK, StopClose, StopState, OnlySlot
  <2>2. SlotInv(s)'
    BY <1>1, <1>2, <2>1 DEF StopClose, SlotInv, NoSuccessor, Running, Retrying
  <2>3. QED
    BY <2>1, <2>2, OtherSlots DEF IInv
<1>3. CASE StopReturn(s)
  <2>1. SupTypeOK' /\ OnlySlot(s) /\ mon[s] = "done"
    BY <1>3 DEF IInv, SupTypeOK, StopReturn, StopState, OnlySlot
  <2>2. SlotInv(s)'
    BY <1>1, <1>3, <2>1 DEF StopReturn, SlotInv, NoSuccessor, Running, Retrying
  <2>3. QED
    BY <2>1, <2>2, OtherSlots DEF IInv
<1>4. CASE StopKill(s)
  <2>1. /\ proc' \in [Slots -> [Gens -> ProcState]]
        /\ proc'[s][cur[s]] = IF proc[s][cur[s]] = "running"
                               THEN "killed" ELSE proc[s][cur[s]]
        /\ \A h \in Gens \ {cur[s]} : proc'[s][h] = proc[s][h]
        /\ \A r \in Slots \ {s} : proc'[r] = proc[r]
    BY <1>1, <1>4, KillSlot DEF IInv, StopKill
  <2>2. SupTypeOK' /\ OnlySlot(s) /\ stop'[s] = "killed"
    BY <1>4, <2>1 DEF IInv, SupTypeOK, StopKill, StopState, OnlySlot
  <2>3. \A h \in Gens : \/ proc'[s][h] = proc[s][h]
                        \/ proc[s][h] = "running" /\ proc'[s][h] = "killed"
    BY <2>1
  <2>4. UNCHANGED <<cur, reaped, mon>>
    BY <1>4 DEF StopKill
  <2>5. SlotInv(s)'
    BY <1>1, <2>2, <2>3, <2>4 DEF SlotInv, NoSuccessor, Running, Retrying
  <2>6. QED
    BY <2>2, <2>5, OtherSlots DEF IInv
<1>5. QED
  BY <1>2, <1>3, <1>4

\* Every step of a supervisor and of its processes keeps the invariant.
LEMMA StepSlot ==
    ASSUME IInv, NEW s \in Slots,
           \/ Start(s) \/ startAdopt(s) \/ ContextDone(s)
           \/ \E g \in Gens : Exit(s, g) \/ ContextKill(s, g)
           \/ Monitor(s)
           \/ StopClose(s) \/ StopKill(s) \/ StopReturn(s)
    PROVE  IInv'
<1>1. ASSUME NEW g \in Gens, ContextKill(s, g) PROVE IInv'
  BY <1>1, StepKill DEF ContextKill, IInv, SupTypeOK
<1>2. QED
  BY <1>1, StepStart, StepAdopt, StepContext, StepExit, StepWait, StepBackoff,
     StepRebuild, StepLaunchStart, StepLaunchFinish, StepStop DEF Monitor

LEMMA InitIInv == SupInit => IInv
<1> SUFFICES ASSUME SupInit PROVE IInv
  OBVIOUS
<1>1. 0 \in Gens /\ \A g \in Gens : g \in Nat
  BY SupervisorAssumption DEF Gens
<1>2. SupTypeOK
  BY <1>1 DEF SupInit, SupTypeOK, ProcState, MonState, StopState
<1>3. ASSUME NEW s \in Slots PROVE SlotInv(s)
  BY <1>1 DEF SupInit, SlotInv, NoSuccessor, Running, Retrying
<1>4. QED
  BY <1>2, <1>3 DEF IInv, SupInv

LEMMA StutterIInv == IInv /\ UNCHANGED supVars => IInv'
BY DEF IInv, supVars, SupTypeOK, SupInv, SlotInv, NoSuccessor, Running, Retrying

LEMMA Inductive == SupSpec => []IInv
<1>1. IInv /\ [SupNext]_supVars => IInv'
  BY StepSlot, StutterIInv DEF SupNext, OwnerStop
<1>2. QED
  BY <1>1, InitIInv, PTL DEF SupSpec

-------------------------------------------------------------------------------
\* The type invariant of a supervisor.
THEOREM SupTypeCorrect == SupSpec => []SupTypeOK
<1>1. IInv => SupTypeOK
  BY DEF IInv
<1>2. QED
  BY <1>1, Inductive, PTL

\* The monitor's bookkeeping.
THEOREM SupInvHolds == SupSpec => []SupInv
<1>1. IInv => SupInv
  BY DEF IInv
<1>2. QED
  BY <1>1, Inductive, PTL

\* The properties of a state that the invariant implies.
LEMMA InvImplies == IInv => OneLiveProcess /\ DoneMeansDead /\ DownAfterStop
<1> SUFFICES ASSUME IInv, NEW s \in Slots
             PROVE  /\ \A g, h \in Gens : Running(s, g) /\ Running(s, h) => g = h
                    /\ mon[s] = "done" => \A g \in Gens : ~Running(s, g)
                    /\ stop[s] = "returned" => mon[s] = "done"
  BY DEF OneLiveProcess, DoneMeansDead, DownAfterStop
<1>1. SlotInv(s) /\ cur[s] \in Nat /\ \A g \in Gens : g \in Nat
  BY SupervisorAssumption DEF IInv, SupInv, SupTypeOK, Gens
<1>2. ASSUME NEW g \in Gens, Running(s, g)
      PROVE  g = cur[s] \/ (g = cur[s] + 1 /\ mon[s] = "handshake")
  <2>1. ~(g < cur[s]) /\ ~(g > cur[s] + 1)
    BY <1>1, <1>2 DEF SlotInv, Running
  <2>2. g = cur[s] \/ g = cur[s] + 1
    BY <1>1, <2>1
  <2>3. mon[s] \in MonState
    BY DEF IInv, SupTypeOK
  <2>4. g = cur[s] + 1 => mon[s] = "handshake"
    BY <1>1, <1>2, <2>3 DEF SlotInv, Running, NoSuccessor, MonState
  <2>5. QED
    BY <2>2, <2>4
<1>3. mon[s] = "handshake" => ~Running(s, cur[s])
  BY <1>1 DEF SlotInv, Retrying, Running
<1>4. QED
  BY <1>1, <1>2, <1>3 DEF SlotInv

\* However exits, kills, stops and relaunches interleave, a supervisor never has
\* two processes alive.
THEOREM OneLiveProcessHolds == SupSpec => []OneLiveProcess
BY Inductive, InvImplies, PTL

\* When a monitor has ended, nothing of its slot is left alive.
THEOREM DoneMeansDeadHolds == SupSpec => []DoneMeansDead
BY Inductive, InvImplies, PTL

\* After stop() has returned the plugin stays down.
THEOREM DownAfterStopHolds == SupSpec => []DownAfterStop
BY Inductive, InvImplies, PTL

\* No relaunch ever follows a clean exit.
THEOREM CleanExitIsFinalHolds == SupSpec => CleanExitIsFinal
<1> DEFINE Relaunch ==
      \A s \in Slots : \A g \in Gens :
          proc[s][g] = "none" /\ proc'[s][g] = "running"
              => \A h \in Gens : proc[s][h] # "ok"
<1>1. IInv /\ [SupNext]_supVars => [Relaunch]_supVars
  <2> SUFFICES ASSUME IInv, SupNext, NEW s \in Slots, NEW g \in Gens,
                      proc[s][g] = "none", proc'[s][g] = "running",
                      NEW h \in Gens
               PROVE  proc[s][h] # "ok"
    OBVIOUS
  <2>1. SlotInv(s) /\ cur[s] \in Nat /\ \A i \in Gens : i \in Nat
    BY SupervisorAssumption DEF IInv, SupInv, SupTypeOK, Gens
  <2>2. Start(s) \/ LaunchStart(s)
    <3>1. PICK r \in Slots :
             \/ Start(r) \/ startAdopt(r) \/ ContextDone(r)
             \/ \E i \in Gens : Exit(r, i) \/ ContextKill(r, i)
             \/ Monitor(r)
             \/ OwnerStop(r)
      BY DEF SupNext
    <3>2. ASSUME NEW i \in Gens, proc' = Kill(r, i) PROVE FALSE
      BY <3>2, KillSlot DEF IInv
    <3>3. ASSUME NEW i \in Gens, Exit(r, i) PROVE FALSE
      BY <3>3 DEF Exit, IInv, SupTypeOK, Running
    <3>4. UNCHANGED proc => FALSE
      OBVIOUS
    <3>5. cur[r] \in Gens /\ (LaunchFinish(r) => cur[r] + 1 \in Gens)
      BY SupervisorAssumption
         DEF IInv, SupTypeOK, SupInv, SlotInv, LaunchFinish, Gens
    <3>6. Start(r) \/ LaunchStart(r)
      BY <3>1, <3>2, <3>3, <3>4, <3>5
         DEF startAdopt, ContextDone, ContextKill, Monitor, MonitorWait,
             MonitorBackoff, rebuild, LaunchFinish, OwnerStop, StopClose, StopKill,
             StopReturn
    <3>7. r = s
      BY <3>6 DEF Start, LaunchStart, IInv, SupTypeOK
    <3>8. QED
      BY <3>6, <3>7
  <2>3. CASE Start(s)
    <3>1. cur[s] = 0 /\ mon[s] = "none"
      BY <2>1, <2>3, SupervisorAssumption DEF Start, SlotInv, Gens
    <3>2. QED
      BY <2>1, <2>3, <3>1 DEF Start, SlotInv, NoSuccessor
  <2>4. CASE LaunchStart(s)
    <3>1. mon[s] = "launch"
      BY <2>4 DEF LaunchStart
    <3>2. QED
      BY <2>1, <3>1 DEF SlotInv, NoSuccessor, Retrying
  <2>5. QED
    BY <2>2, <2>3, <2>4
<1>2. QED
  BY <1>1, Inductive, PTL DEF SupSpec, CleanExitIsFinal

-------------------------------------------------------------------------------
(* The supervisor implements PluginService.  A step of slot s either leaves  *)
(* its processes alone, or one that lived ends, or one is started while none *)
(* lives; the next four lemmas say what that does to the slot's phase.       *)

SameElsewhere(s) ==
    \A r \in Slots \ {s} : proc'[r] = proc[r] /\ mon'[r] = mon[r]

\* What the abstract specification allows in one step, or no change.
Allowed(p, q) ==
    \/ p = q
    \/ p = "none" /\ q = "up"
    \/ p = "up" /\ q = "down"
    \/ p = "down" /\ q = "up"
    \/ p \in {"up", "down"} /\ q = "over"

LEMMA SamePhase ==
    ASSUME NEW s \in Slots, proc'[s] = proc[s],
           mon'[s] = "done" <=> mon[s] = "done"
    PROVE  Phase(s)' = Phase(s)
BY DEF Phase, Live, Running

LEMMA AdoptedIsStarted ==
    ASSUME IInv, NEW s \in Slots, mon[s] # "none"
    PROVE  proc[s][0] # "none"
<1>1. SlotInv(s) /\ 0 \in Gens /\ cur[s] \in Gens /\ cur[s] \in Nat
  BY SupervisorAssumption DEF IInv, SupInv, SupTypeOK, Gens
<1>2. QED
  BY <1>1 DEF SlotInv

\* The monitor ends: its plugin was down.
LEMMA EndPhase ==
    ASSUME IInv, NEW s \in Slots, proc'[s] = proc[s], Live(s) = {},
           mon[s] # "none", mon'[s] = "done"
    PROVE  Allowed(Phase(s), Phase(s)')
<1>1. proc[s][0] # "none"
  BY AdoptedIsStarted
<1>2. Live(s)' = {}
  BY DEF Live, Running
<1>3. QED
  BY <1>1, <1>2 DEF Phase, Allowed

\* The process that lived ends.
LEMMA DeathPhase ==
    ASSUME IInv, NEW s \in Slots, NEW g \in Gens, Running(s, g),
           proc'[s][g] \in {"ok", "crashed", "killed"},
           \A h \in Gens \ {g} : proc'[s][h] = proc[s][h]
    PROVE  Allowed(Phase(s), Phase(s)')
<1>1. Live(s) = {g}
  BY InvImplies DEF OneLiveProcess, Live
<1>2. proc[s][0] # "none"
  <2>1. SlotInv(s) /\ 0 \in Gens /\ cur[s] \in Nat /\ g \in Nat
    BY SupervisorAssumption DEF IInv, SupInv, SupTypeOK, Gens
  <2>2. CASE mon[s] = "none"
    BY <2>1, <2>2 DEF SlotInv, NoSuccessor, Running
  <2>3. QED
    BY <2>2, AdoptedIsStarted
<1>3. Phase(s) = "up"
  BY <1>1, <1>2 DEF Phase
<1>4. Live(s)' = {}
  BY <1>1 DEF Live, Running
<1>5. proc'[s][0] # "none"
  BY <1>2, SupervisorAssumption DEF Gens
<1>6. QED
  BY <1>3, <1>4, <1>5 DEF Phase, Allowed

\* A process is started: generation 0 of a new slot, or the successor of a dead
\* one.
LEMMA BirthPhase ==
    ASSUME IInv, NEW s \in Slots, NEW g \in Gens,
           \/ g = 0 /\ proc[s][0] = "none"
           \/ g = cur[s] + 1 /\ mon[s] = "launch",
           proc'[s][g] = "running",
           \A h \in Gens \ {g} : proc'[s][h] = proc[s][h]
    PROVE  Allowed(Phase(s), Phase(s)')
<1>1. SlotInv(s) /\ 0 \in Gens /\ cur[s] \in Gens /\ \A h \in Gens : h \in Nat
  BY SupervisorAssumption DEF IInv, SupInv, SupTypeOK, Gens
<1>2. CASE g = 0 /\ proc[s][0] = "none"
  <2>1. Phase(s) = "none"
    BY <1>2 DEF Phase
  <2>2. mon[s] = "none" /\ cur[s] = 0
    BY <1>1, <1>2, AdoptedIsStarted DEF SlotInv
  <2>3. \A h \in Gens \ {0} : proc[s][h] = "none"
    BY <1>1, <2>2 DEF SlotInv, NoSuccessor
  <2>4. Live(s)' = {g}
    BY <1>2, <2>3 DEF Live, Running
  <2>5. QED
    BY <1>2, <2>1, <2>4 DEF Phase, Allowed
<1>3. CASE g = cur[s] + 1 /\ mon[s] = "launch"
  <2>1. proc[s][0] # "none" /\ proc'[s][0] # "none"
    BY <1>1, <1>3, AdoptedIsStarted
  <2>2. ASSUME NEW h \in Gens PROVE proc[s][h] \in {"crashed", "killed", "none"}
    <3>1. h < cur[s] \/ h = cur[s] \/ h > cur[s]
      BY <1>1
    <3>2. QED
      BY <1>1, <1>3, <3>1 DEF SlotInv, NoSuccessor, Retrying
  <2>3. Phase(s) = "down"
    BY <1>3, <2>1, <2>2 DEF Phase, Live, Running
  <2>4. Live(s)' = {g}
    BY <2>2 DEF Live, Running
  <2>5. QED
    BY <2>1, <2>3, <2>4 DEF Phase, Allowed
<1>4. QED
  BY <1>2, <1>3

\* Killing one of the slot's processes, while the monitor does not end.
LEMMA KillPhase ==
    ASSUME IInv, NEW s \in Slots, NEW g \in Gens, proc' = Kill(s, g),
           mon'[s] = "done" <=> mon[s] = "done"
    PROVE  Allowed(Phase(s), Phase(s)')
<1>1. /\ proc'[s][g] = IF proc[s][g] = "running" THEN "killed" ELSE proc[s][g]
      /\ \A h \in Gens \ {g} : proc'[s][h] = proc[s][h]
      /\ proc' \in [Slots -> [Gens -> ProcState]]
  BY KillSlot DEF IInv
<1>2. CASE Running(s, g)
  BY <1>1, <1>2, DeathPhase DEF Running
<1>3. CASE ~Running(s, g)
  <2>1. proc'[s] = proc[s]
    BY <1>1, <1>3 DEF Running, IInv, SupTypeOK
  <2>2. QED
    BY <2>1, SamePhase DEF Allowed
<1>4. QED
  BY <1>2, <1>3
\* Every step of slot s is allowed by the abstract specification.
LEMMA StepPhase ==
    ASSUME IInv, NEW s \in Slots,
           \/ Start(s) \/ startAdopt(s) \/ ContextDone(s)
           \/ \E g \in Gens : Exit(s, g) \/ ContextKill(s, g)
           \/ Monitor(s)
           \/ OwnerStop(s)
    PROVE  SameElsewhere(s) /\ Allowed(Phase(s), Phase(s)')
<1>1. SlotInv(s) /\ 0 \in Gens /\ cur[s] \in Gens /\ \A h \in Gens : h \in Nat
  BY SupervisorAssumption DEF IInv, SupInv, SupTypeOK, Gens
<1>2. CASE Start(s)
  <2>1. SameElsewhere(s) /\ proc'[s][0] = "running"
        /\ \A h \in Gens \ {0} : proc'[s][h] = proc[s][h]
    BY <1>1, <1>2 DEF Start, SameElsewhere, IInv, SupTypeOK
  <2>2. QED
    BY <1>1, <1>2, <2>1, BirthPhase DEF Start
<1>3. CASE startAdopt(s) \/ ContextDone(s) \/ rebuild(s)
  <2>1. SameElsewhere(s) /\ proc'[s] = proc[s] /\ (mon'[s] = "done" <=> mon[s] = "done")
    BY <1>3 DEF startAdopt, ContextDone, rebuild, SameElsewhere, IInv, SupTypeOK
  <2>2. QED
    BY <2>1, SamePhase DEF Allowed
<1>4. ASSUME NEW g \in Gens, Exit(s, g)
      PROVE  SameElsewhere(s) /\ Allowed(Phase(s), Phase(s)')
  <2>1. PICK st \in {"ok", "crashed"} : proc' = [proc EXCEPT ![s][g] = st]
    BY <1>4 DEF Exit
  <2>2. SameElsewhere(s) /\ proc'[s][g] = st
        /\ \A h \in Gens \ {g} : proc'[s][h] = proc[s][h]
    BY <1>4, <2>1 DEF Exit, SameElsewhere, IInv, SupTypeOK
  <2>3. Running(s, g)
    BY <1>4 DEF Exit
  <2>4. QED
    BY <2>2, <2>3, DeathPhase
<1>5. ASSUME NEW g \in Gens, proc' = Kill(s, g),
             \A r \in Slots \ {s} : mon'[r] = mon[r],
             mon'[s] = "done" <=> mon[s] = "done"
      PROVE  SameElsewhere(s) /\ Allowed(Phase(s), Phase(s)')
  <2>1. SameElsewhere(s)
    BY <1>5, KillSlot DEF SameElsewhere, IInv
  <2>2. QED
    BY <1>5, <2>1, KillPhase
<1>6. ASSUME NEW g \in Gens, ContextKill(s, g)
      PROVE  SameElsewhere(s) /\ Allowed(Phase(s), Phase(s)')
  BY <1>5, <1>6 DEF ContextKill
<1>7. CASE MonitorWait(s) \/ MonitorBackoff(s)
  <2>1. SameElsewhere(s) /\ proc'[s] = proc[s] /\ mon[s] \in {"wait", "backoff"}
    BY <1>7 DEF MonitorWait, MonitorBackoff, SameElsewhere, IInv, SupTypeOK
  <2>2. Live(s) = {}
    <3>1. ~Running(s, cur[s])
      BY <1>1, <1>7 DEF MonitorWait, MonitorBackoff, SlotInv, Retrying, Running
    <3>2. ASSUME NEW h \in Gens PROVE ~Running(s, h)
      <4>1. h < cur[s] \/ h = cur[s] \/ h > cur[s]
        BY <1>1
      <4>2. QED
        BY <1>1, <2>1, <3>1, <4>1 DEF SlotInv, NoSuccessor, Running
    <3>3. QED
      BY <3>2 DEF Live
  <2>3. CASE mon'[s] = "done"
    BY <2>1, <2>2, <2>3, EndPhase
  <2>4. CASE mon'[s] # "done"
    BY <2>1, <2>4, SamePhase DEF Allowed
  <2>5. QED
    BY <2>3, <2>4
<1>8. CASE LaunchStart(s)
  <2>1. CASE /\ cur[s] < MaxGen
             /\ proc' = [proc EXCEPT ![s][cur[s] + 1] = "running"]
             /\ mon' = [mon EXCEPT ![s] = "handshake"]
    <3>1. cur[s] + 1 \in Gens /\ mon[s] = "launch"
      BY <1>1, <1>8, <2>1, SupervisorAssumption DEF Gens, LaunchStart
    <3>2. SameElsewhere(s) /\ proc'[s][cur[s] + 1] = "running"
          /\ \A h \in Gens \ {cur[s] + 1} : proc'[s][h] = proc[s][h]
      BY <2>1, <3>1 DEF SameElsewhere, IInv, SupTypeOK
    <3>3. QED
      BY <3>1, <3>2, BirthPhase
  <2>2. CASE mon' = [mon EXCEPT ![s] = "wait"] /\ UNCHANGED proc
    <3>1. SameElsewhere(s) /\ proc'[s] = proc[s]
          /\ (mon'[s] = "done" <=> mon[s] = "done")
      BY <1>8, <2>2 DEF LaunchStart, SameElsewhere, IInv, SupTypeOK
    <3>2. QED
      BY <3>1, SamePhase DEF Allowed
  <2>3. QED
    BY <1>8, <2>1, <2>2 DEF LaunchStart
<1>9. CASE LaunchFinish(s)
  <2>1. /\ \A r \in Slots \ {s} : mon'[r] = mon[r]
        /\ mon'[s] = "done" <=> mon[s] = "done"
        /\ cur[s] + 1 \in Gens
    BY <1>1, <1>9, SupervisorAssumption
       DEF LaunchFinish, SlotInv, Gens, IInv, SupTypeOK
  <2>2. CASE UNCHANGED proc
    BY <2>1, <2>2, SamePhase DEF SameElsewhere, Allowed
  <2>3. CASE proc' = Kill(s, cur[s] + 1)
    BY <1>5, <2>1, <2>3
  <2>4. QED
    BY <1>9, <2>2, <2>3 DEF LaunchFinish
<1>10. CASE StopKill(s)
  BY <1>1, <1>5, <1>10 DEF StopKill
<1>11. CASE StopClose(s) \/ StopReturn(s)
  <2>1. UNCHANGED <<proc, mon>>
    BY <1>11 DEF StopClose, StopReturn
  <2>2. QED
    BY <2>1, SamePhase DEF SameElsewhere, Allowed
<1>12. QED
  BY <1>2, <1>3, <1>4, <1>6, <1>7, <1>8, <1>9, <1>10, <1>11 DEF Monitor, OwnerStop

\* A step that changes one slot's phase as allowed is a step of the abstract
\* specification, or none.
LEMMA MapStep ==
    ASSUME NEW s \in Slots, SameElsewhere(s), Allowed(Phase(s), Phase(s)')
    PROVE  Service!Next \/ UNCHANGED phases
<1>1. \A r \in Slots \ {s} : Phase(r)' = Phase(r)
  BY SamePhase DEF SameElsewhere
<1>2. phases' = [phases EXCEPT ![s] = Phase(s)']
  BY <1>1 DEF phases
<1>3. CASE Phase(s)' = Phase(s)
  BY <1>1, <1>3 DEF phases
<1>4. CASE Phase(s)' # Phase(s)
  <2>1. phases[s] = Phase(s)
    BY DEF phases
  <2>2. \/ Service!Launch(s) \/ Service!Fail(s)
        \/ Service!Restart(s) \/ Service!Finish(s)
    BY <1>2, <1>4, <2>1
       DEF Allowed, Service!Launch, Service!Fail, Service!Restart, Service!Finish,
           Service!Become
  <2>3. QED
    BY <2>2 DEF Service!Next
<1>5. QED
  BY <1>3, <1>4

\* Whatever its goroutines, its processes and their failures do, a supervisor
\* with an owner is an instance of PluginService.
THEOREM SupervisorImplementsService == SupSpec => ImplementsService
<1>1. SupInit => Service!Init
  BY SupervisorAssumption DEF SupInit, Service!Init, phases, Phase, Gens
<1>2. IInv /\ [SupNext]_supVars => [Service!Next]_phases
  <2>1. CASE UNCHANGED supVars
    BY <2>1 DEF supVars, phases, Phase, Live, Running
  <2>2. CASE IInv /\ SupNext
    BY <2>2, StepPhase, MapStep DEF SupNext
  <2>3. QED
    BY <2>1, <2>2
<1>3. QED
  BY <1>1, <1>2, Inductive, PTL DEF SupSpec, ImplementsService, Service!Spec

-------------------------------------------------------------------------------
(* The manager.                                                            *)

\* The types of the manager's own variables.
MgrTypeOK ==
    /\ plugins \in [Plugins -> Slots \cup {NoSlot}]
    /\ supervisors \in [Plugins -> Slots \cup {NoSlot}]
    /\ depGraph \in [Plugins -> SUBSET Plugins]
    /\ mu \in {Free, Main}
    /\ disk \subseteq Plugins
    /\ nameOf \in [Slots -> Plugins]
    /\ owner \in [Slots -> Threads]
    /\ pc \in [Threads -> Ctl]
    /\ call \in [Threads -> CallType]
    /\ res \in [Threads -> {"none", "ok", "error", "nil"}]
    /\ exited \in BOOLEAN

LEMMA TypeParts == TypeOK <=> SupTypeOK /\ MgrTypeOK
BY DEF TypeOK, MgrTypeOK

LEMMA Constants ==
    /\ Main \in Threads /\ NoSlot \notin Slots /\ AnyPlugin \in Plugins
    /\ Free # Main /\ NoCall \in CallType /\ NoCall.op = "none"
<1>1. Main \in Threads /\ NoSlot \notin Slots /\ Free # Main
  BY ManagerAssumption DEF Threads, NoSlot, Free
<1>2. AnyPlugin \in Plugins
  BY ManagerAssumption DEF AnyPlugin
<1> QED BY <1>1, <1>2 DEF NoCall, CallType

-------------------------------------------------------------------------------
(* How a thread moves.                                                     *)

\* Nothing of a thread other than t changes.
OnlyThread(t) == \A u \in Threads \ {t} : pc'[u] = pc[u] /\ call'[u] = call[u]

Moves(t, l) ==
    /\ pc' \in [Threads -> Ctl] /\ call' \in [Threads -> CallType]
    /\ OnlyThread(t) /\ pc'[t] = l

LEMMA GotoMoves ==
    ASSUME MgrTypeOK, NEW t \in Threads, NEW l \in Ctl, Goto(t, l)
    PROVE  Moves(t, l) /\ call' = call
BY DEF MgrTypeOK, Goto, Moves, OnlyThread

\* Thread t gets the call c.
LEMMA SetMoves ==
    ASSUME MgrTypeOK, NEW t \in Threads, NEW l \in Ctl, NEW c \in CallType,
           pc' = [pc EXCEPT ![t] = l], call' = [call EXCEPT ![t] = c]
    PROVE  Moves(t, l) /\ call'[t] = c
BY DEF MgrTypeOK, Moves, OnlyThread

LEMMA WithMoves ==
    ASSUME MgrTypeOK, NEW t \in Threads, NEW l \in Ctl, NEW n \in Plugins,
           NEW names \in SUBSET Plugins, With(t, l, n, names)
    PROVE  /\ Moves(t, l)
           /\ call'[t].op = call[t].op /\ call'[t].goal = call[t].goal
           /\ call'[t].slot = call[t].slot /\ call'[t].ctx = call[t].ctx
           /\ call'[t].name = n /\ call'[t].todo = names
<1> DEFINE c == [call[t] EXCEPT !.name = n, !.todo = names]
<1>1. call[t] \in CallType BY DEF MgrTypeOK
<1>2. c \in CallType BY <1>1 DEF CallType
<1>3. call' = [call EXCEPT ![t] = c] BY DEF With, MgrTypeOK
<1>4. /\ c.op = call[t].op /\ c.goal = call[t].goal /\ c.slot = call[t].slot
      /\ c.ctx = call[t].ctx /\ c.name = n /\ c.todo = names
  BY <1>1 DEF CallType
<1>5. pc' = [pc EXCEPT ![t] = l] BY DEF With
<1> HIDE DEF c
<1>6. Moves(t, l) /\ call'[t] = c BY <1>2, <1>3, <1>5, SetMoves
<1> QED BY <1>4, <1>6 DEF c

LEMMA EnterMoves ==
    ASSUME MgrTypeOK, NEW t \in Threads, NEW l \in Ctl, NEW n \in Plugins,
           NEW o \in {"startup", "load", "unload", "reload", "shutdown"},
           NEW names \in SUBSET Plugins, Enter(t, o, l, n, names)
    PROVE  /\ Moves(t, l)
           /\ call'[t].op = o /\ call'[t].goal = n /\ call'[t].name = n
           /\ call'[t].slot = NoSlot /\ ~call'[t].ctx /\ call'[t].todo = names
<1> DEFINE c == [NoCall EXCEPT !.op = o, !.goal = n, !.name = n, !.todo = names]
<1>2. c \in CallType BY Constants DEF CallType, NoCall
<1>3. call' = [call EXCEPT ![t] = c] BY DEF Enter
<1>4. /\ c.op = o /\ c.goal = n /\ c.slot = NoSlot
      /\ ~c.ctx /\ c.name = n /\ c.todo = names
  BY DEF NoCall
<1>5. pc' = [pc EXCEPT ![t] = l] BY DEF Enter
<1> HIDE DEF c
<1>6. Moves(t, l) /\ call'[t] = c BY <1>2, <1>3, <1>5, SetMoves
<1> QED BY <1>4, <1>6

LEMMA SlotMoves ==
    ASSUME MgrTypeOK, NEW t \in Threads, NEW l \in Ctl, NEW s \in Slots \cup {NoSlot},
           pc' = [pc EXCEPT ![t] = l], call' = [call EXCEPT ![t].slot = s]
    PROVE  /\ Moves(t, l)
           /\ call'[t].op = call[t].op /\ call'[t].goal = call[t].goal
           /\ call'[t].slot = s /\ call'[t].ctx = call[t].ctx
           /\ call'[t].name = call[t].name /\ call'[t].todo = call[t].todo
<1> DEFINE c == [call[t] EXCEPT !.slot = s]
<1>1. call[t] \in CallType BY DEF MgrTypeOK
<1>2. c \in CallType BY <1>1 DEF CallType
<1>3. call' = [call EXCEPT ![t] = c] BY DEF MgrTypeOK
<1>4. /\ c.op = call[t].op /\ c.goal = call[t].goal /\ c.slot = s
      /\ c.ctx = call[t].ctx /\ c.name = call[t].name /\ c.todo = call[t].todo
  BY <1>1 DEF CallType
<1> HIDE DEF c
<1>6. Moves(t, l) /\ call'[t] = c BY <1>2, <1>3, SetMoves
<1> QED BY <1>4, <1>6

LEMMA ReturnMoves ==
    ASSUME MgrTypeOK, NEW t \in Threads, NEW r \in {"ok", "error", "nil"}, Return(t, r)
    PROVE  /\ Moves(t, "idle") /\ call'[t] = NoCall /\ call'[t].op = "none"
           /\ res' \in [Threads -> {"none", "ok", "error", "nil"}]
           /\ SupTypeOK => ctxDone' \subseteq Slots
<1>1. Moves(t, "idle") /\ call'[t] = NoCall
  BY Constants, SetMoves DEF Return, Ctl
<1>2. res' \in [Threads -> {"none", "ok", "error", "nil"}]
  BY DEF Return, MgrTypeOK
<1>3. SupTypeOK => ctxDone' \subseteq Slots
  BY DEF Return, CancelContext, SupTypeOK
<1> QED BY <1>1, <1>2, <1>3, Constants

-------------------------------------------------------------------------------
(* Types.                                                                  *)

\* What every step outside the supervisors leaves typed.
LEMMA LoadFailedMoves ==
    ASSUME MgrTypeOK, NEW t \in Threads, LoadFailed(t)
    PROVE  /\ Moves(t, pc'[t]) /\ pc'[t] \in {"idle", "next"}
           /\ \/ pc'[t] = "next" /\ call[t].op # "load" /\ call' = call /\ UNCHANGED <<res, ctxDone>>
              \/ /\ pc'[t] = "idle" /\ call[t].op = "load" /\ call'[t] = NoCall
                 /\ CancelContext(t)
           /\ res' \in [Threads -> {"none", "ok", "error", "nil"}]
           /\ SupTypeOK => ctxDone' \subseteq Slots
<1>1. CASE call[t].op = "load"
  <2>1. Return(t, "error") BY <1>1 DEF LoadFailed
  <2>2. CancelContext(t) BY <2>1 DEF Return
  <2>3. pc'[t] = "idle" BY <2>1, ReturnMoves DEF Moves
  <2> QED BY <1>1, <2>1, <2>2, <2>3, ReturnMoves
<1>2. CASE call[t].op # "load"
  <2>1. Goto(t, "next") /\ UNCHANGED <<res, ctxDone>> BY <1>2 DEF LoadFailed
  <2>2. Moves(t, "next") /\ call' = call BY <2>1, GotoMoves DEF Ctl
  <2>3. pc'[t] = "next" BY <2>2 DEF Moves
  <2> QED BY <1>2, <2>1, <2>2, <2>3 DEF MgrTypeOK, SupTypeOK
<1> QED BY <1>1, <1>2

LEMMA UnloadReturnsMoves ==
    ASSUME MgrTypeOK, NEW t \in Threads, NEW r \in {"ok", "error"}, UnloadReturns(t, r)
    PROVE  /\ Moves(t, pc'[t]) /\ pc'[t] \in {"idle", "drop"}
           /\ \/ pc'[t] = "drop" /\ call[t].op = "reload" /\ call' = call /\ UNCHANGED <<res, ctxDone>>
              \/ /\ pc'[t] = "idle" /\ call[t].op # "reload" /\ call'[t] = NoCall
                 /\ CancelContext(t)
           /\ res' \in [Threads -> {"none", "ok", "error", "nil"}]
           /\ SupTypeOK => ctxDone' \subseteq Slots
<1>1. CASE call[t].op # "reload"
  <2>1. Return(t, r) BY <1>1 DEF UnloadReturns
  <2>2. CancelContext(t) BY <2>1 DEF Return
  <2>3. pc'[t] = "idle" BY <2>1, ReturnMoves DEF Moves
  <2> QED BY <1>1, <2>1, <2>2, <2>3, ReturnMoves
<1>2. CASE call[t].op = "reload"
  <2>1. Goto(t, "drop") /\ UNCHANGED <<res, ctxDone>> BY <1>2 DEF UnloadReturns
  <2>2. Moves(t, "drop") /\ call' = call BY <2>1, GotoMoves DEF Ctl
  <2>3. pc'[t] = "drop" BY <2>2 DEF Moves
  <2> QED BY <1>2, <2>1, <2>2, <2>3 DEF MgrTypeOK, SupTypeOK
<1> QED BY <1>1, <1>2

LEMMA TypeInit == Init => MgrTypeOK
<1> SUFFICES ASSUME Init PROVE MgrTypeOK OBVIOUS
<1>1. pc \in [Threads -> Ctl] BY DEF Init, Ctl
<1>2. call \in [Threads -> CallType] BY Constants DEF Init
<1> QED BY <1>1, <1>2, Constants DEF Init, MgrTypeOK

LEMMA CallTypeStep ==
    ASSUME TypeOK, NEW t \in Callers, Call(t)
    PROVE  MgrTypeOK' 
<1> t \in Threads BY DEF Threads
<1> MgrTypeOK BY TypeParts
<1>1. ASSUME NEW n \in Plugins, LoadPluginByName(t, n) PROVE MgrTypeOK'
  <2>1. CASE loaded(n) 
    BY <1>1, <2>1 DEF LoadPluginByName, MgrTypeOK, registry, launches
  <2>2. CASE ~loaded(n)
    <3>1. Enter(t, "load", "next", n, parsePluginDeps(n) \cup {n}) /\ UNCHANGED <<res, registry, launches, disk, exited>>
      BY <1>1, <2>2 DEF LoadPluginByName
    <3>2. parsePluginDeps(n) \cup {n} \in SUBSET Plugins BY SMTT(30) DEF parsePluginDeps, MgrTypeOK
    <3>3. Moves(t, "next") BY <3>1, <3>2, EnterMoves DEF Ctl
    <3> QED BY <3>1, <3>3 DEF Moves, MgrTypeOK, registry, launches
  <2> QED BY <2>1, <2>2
<1>2. ASSUME NEW n \in Plugins, UnloadPluginByName(t, n) PROVE MgrTypeOK'
  <2>1. Enter(t, "unload", "unload", n, {}) /\ UNCHANGED <<res, registry, launches, disk, exited>>
    BY SMTT(30), <1>2 DEF UnloadPluginByName
  <2>2. Moves(t, "unload") BY <2>1, EnterMoves DEF Ctl
  <2> QED BY <2>1, <2>2 DEF Moves, MgrTypeOK, registry, launches
<1>3. CASE ReloadPlugins(t)
  <2>1. /\ Enter(t, "reload", "drop", AnyPlugin, {n \in Plugins : loaded(n)} \ disk)
        /\ UNCHANGED <<res, registry, launches, disk, exited>>
    BY <1>3 DEF ReloadPlugins
  <2>2. {n \in Plugins : loaded(n)} \ disk \in SUBSET Plugins OBVIOUS
  <2>3. Moves(t, "drop") BY <2>1, <2>2, EnterMoves, Constants DEF Ctl
  <2> QED BY <2>1, <2>3 DEF Moves, MgrTypeOK, registry, launches
<1>4. CASE CancelRequest(t)
  <2>1. call' = [call EXCEPT ![t].ctx = TRUE] /\ UNCHANGED <<pc, res, registry, launches, disk, exited>>
    BY <1>4 DEF CancelRequest
  <2>2. call' \in [Threads -> CallType] 
    <3>1. [call[t] EXCEPT !.ctx = TRUE] \in CallType BY ZenonT(60) DEF MgrTypeOK, CallType
    <3> QED BY <2>1, <3>1 DEF MgrTypeOK
  <2> QED BY <2>1, <2>2 DEF MgrTypeOK, registry, launches
<1> QED BY <1>1, <1>2, <1>3, <1>4 DEF Call

LEMMA LoadTypeStep ==
    ASSUME TypeOK, NEW t \in Threads, LoadSteps(t)
    PROVE  MgrTypeOK' 
<1> MgrTypeOK BY TypeParts
<1>c. call[t] \in CallType BY DEF MgrTypeOK
<1>n. call[t].name \in Plugins /\ call[t].slot \in Slots \cup {NoSlot} /\ call[t].todo \subseteq Plugins
  BY <1>c DEF CallType
<1>1. CASE NextPlugin(t)
  <2>1. PICK n \in Ready(call[t]) :
          LET skips == SkipsLoaded(call[t], n) IN
          With(t, IF skips /\ loaded(n) THEN "next" ELSE "cache", n, call[t].todo \ {n})
    BY <1>1 DEF NextPlugin
  <2>2. n \in Plugins BY <1>n DEF Ready
  <2>3. call[t].todo \ {n} \in SUBSET Plugins BY <1>n
  <2>4. PICK l \in {"next", "cache"} : With(t, l, n, call[t].todo \ {n}) BY <2>1
  <2>5. Moves(t, l)
    <3>1. l \in Ctl BY DEF Ctl
    <3> QED BY <2>2, <2>3, <2>4, <3>1, WithMoves
  <2> QED BY <1>1, <2>5 DEF NextPlugin, Moves, MgrTypeOK, registry, launches
<1>2. CASE LoopDone(t)
  BY <1>2, ReturnMoves DEF LoopDone, Moves, MgrTypeOK, registry, launches
<1>3. CASE CacheDeps(t)
  <2>1. Moves(t, "build") BY <1>3, GotoMoves DEF CacheDeps, Ctl
  <2>2. depGraph' \in [Plugins -> SUBSET Plugins]
    BY <1>3 DEF CacheDeps, MgrTypeOK, parsePluginDeps
  <2> QED BY <1>3, <2>1, <2>2 DEF CacheDeps, Moves, MgrTypeOK, launches
<1>4. CASE BuildAndStart(t)
  <2>1. ASSUME NEW s \in Slots, Start(s), nameOf' = [nameOf EXCEPT ![s] = call[t].name],
               owner' = [owner EXCEPT ![s] = t], call' = [call EXCEPT ![t].slot = s],
               pc' = [pc EXCEPT ![t] = "handshake"], UNCHANGED <<registry, res, disk, exited>>
        PROVE MgrTypeOK'
    <3>1. Moves(t, "handshake") BY <2>1, SlotMoves DEF Ctl
    <3>2. nameOf' \in [Slots -> Plugins] /\ owner' \in [Slots -> Threads] BY <1>n, <2>1 DEF MgrTypeOK
    <3> QED BY <2>1, <3>1, <3>2 DEF Moves, MgrTypeOK, registry
  <2>2. ASSUME LoadFailed(t), UNCHANGED <<registry, launches, disk, exited>> PROVE MgrTypeOK'
    BY <2>2, LoadFailedMoves DEF Moves, MgrTypeOK, registry, launches
  <2> QED BY <1>4, <2>1, <2>2 DEF BuildAndStart
<1>5. CASE Handshake(t)
  <2>1. ASSUME Goto(t, "register"), UNCHANGED <<registry, launches, disk, res, exited>> PROVE MgrTypeOK'
    <3>1. Moves(t, "register") BY <2>1, GotoMoves DEF Ctl
    <3> QED BY <2>1, <3>1 DEF Moves, MgrTypeOK, registry, launches
  <2>2. ASSUME LoadFailed(t), UNCHANGED <<registry, launches, disk, exited>> PROVE MgrTypeOK'
    BY <2>2, LoadFailedMoves DEF Moves, MgrTypeOK, registry, launches
  <2> QED BY <1>5, <2>1, <2>2 DEF Handshake
<1>6. CASE Register(t)
  <2>1. Moves(t, "adopt") BY <1>6, GotoMoves DEF Register, Ctl
  <2>2. plugins' \in [Plugins -> Slots \cup {NoSlot}] BY <1>6, <1>n DEF Register, MgrTypeOK
  <2> QED BY <1>6, <2>1, <2>2 DEF Register, Moves, MgrTypeOK, launches
<1>7. CASE Adopt(t)
  <2>1. Moves(t, "supervise") BY <1>7, GotoMoves DEF Adopt, Ctl
  <2> QED BY <1>7, <2>1 DEF Adopt, Moves, MgrTypeOK, registry, launches
<1>8. CASE Supervise(t)
  <2>1. PICK l \in {"get", "next"} : Goto(t, l) BY <1>8 DEF Supervise
  <2>2. Moves(t, l) BY <2>1, GotoMoves DEF Ctl
  <2>3. supervisors' \in [Plugins -> Slots \cup {NoSlot}] BY <1>8, <1>n DEF Supervise, MgrTypeOK
  <2> QED BY <1>8, <2>2, <2>3 DEF Supervise, Moves, MgrTypeOK, launches
<1>9. CASE GetPlugin(t)
  <2>1. PICK r \in {"ok", "nil"} : Return(t, r) BY <1>9 DEF GetPlugin
  <2> QED BY <1>9, <2>1, ReturnMoves DEF GetPlugin, Moves, MgrTypeOK, registry, launches
<1> QED BY <1>1, <1>2, <1>3, <1>4, <1>5, <1>6, <1>7, <1>8, <1>9 DEF LoadSteps

LEMMA UnloadTypeStep ==
    ASSUME TypeOK, NEW t \in Threads, UnloadSteps(t)
    PROVE  MgrTypeOK' 
<1> MgrTypeOK BY TypeParts
<1>c. call[t] \in CallType BY DEF MgrTypeOK
<1>n. call[t].name \in Plugins /\ call[t].slot \in Slots \cup {NoSlot} /\ call[t].todo \subseteq Plugins
  BY <1>c DEF CallType
<1>1. CASE Unregister(t)
  <2>1. /\ plugins' \in [Plugins -> Slots \cup {NoSlot}]
        /\ supervisors' \in [Plugins -> Slots \cup {NoSlot}]
        /\ depGraph' \in [Plugins -> SUBSET Plugins]
    BY <1>1, <1>n DEF Unregister, MgrTypeOK
  <2>2. UNCHANGED <<mu, launches, disk, exited>> BY <1>1 DEF Unregister
  <2>3. ASSUME UnloadReturns(t, "error") PROVE MgrTypeOK'
    BY <2>1, <2>2, <2>3, UnloadReturnsMoves DEF Moves, MgrTypeOK, launches
  <2>4. ASSUME NEW l \in {"close", "kill"}, NEW s \in Slots \cup {NoSlot}, Release(t, l, s) PROVE MgrTypeOK'
    <3>1. Moves(t, l) /\ UNCHANGED res BY <2>4, SlotMoves DEF Release, Ctl
    <3> QED BY <2>1, <2>2, <3>1 DEF Moves, MgrTypeOK, launches
  <2>5. plugins[call[t].name] \in Slots \cup {NoSlot} /\ supervisors[call[t].name] \in Slots \cup {NoSlot}
    BY <1>n DEF MgrTypeOK
  <2> QED BY <1>1, <2>3, <2>4, <2>5 DEF Unregister
<1>2. CASE KillUnsupervised(t)
  BY <1>2, UnloadReturnsMoves DEF KillUnsupervised, Moves, MgrTypeOK, registry, launches
<1>3. CASE NextDrop(t)
  <2>1. PICK l \in {"unload", "next"}, n \in Plugins, names \in SUBSET Plugins : With(t, l, n, names)
    <3>1. call[t].todo \in SUBSET Plugins /\ disk \in SUBSET Plugins BY <1>n DEF MgrTypeOK
    <3>2. CASE \E n \in call[t].todo : With(t, "unload", n, call[t].todo \ {n})
      <4>1. PICK n \in call[t].todo : With(t, "unload", n, call[t].todo \ {n}) BY <3>2
      <4>2. n \in Plugins /\ call[t].todo \ {n} \in SUBSET Plugins BY <3>1
      <4> QED BY <4>1, <4>2
    <3> QED BY <1>3, <1>n, <3>1, <3>2 DEF NextDrop
  <2>2. Moves(t, l)
    <3>1. l \in Ctl BY DEF Ctl
    <3> QED BY <2>1, <3>1, WithMoves
  <2> QED BY <1>3, <2>2 DEF NextDrop, Moves, MgrTypeOK, registry, launches
<1>4. CASE CallStop(t)
  <2>1. PICK l \in {"stopkill", "stopwait"} : Goto(t, l) BY <1>4 DEF CallStop
  <2>2. Moves(t, l) BY <2>1, GotoMoves DEF Ctl
  <2> QED BY <1>4, <2>2 DEF CallStop, Moves, MgrTypeOK, registry, launches
<1>5. CASE StopCallReturns(t)
  <2>1. ASSUME Goto(t, "shutdown"), UNCHANGED res PROVE MgrTypeOK'
    <3>1. Moves(t, "shutdown") BY <2>1, GotoMoves DEF Ctl
    <3> QED BY <1>5, <2>1, <3>1 DEF StopCallReturns, Moves, MgrTypeOK, registry, launches
  <2>2. ASSUME UnloadReturns(t, "ok") PROVE MgrTypeOK'
    BY <1>5, <2>2, UnloadReturnsMoves DEF StopCallReturns, Moves, MgrTypeOK, registry, launches
  <2> QED BY <1>5, <2>1, <2>2 DEF StopCallReturns
<1> QED BY <1>1, <1>2, <1>3, <1>4, <1>5 DEF UnloadSteps

LEMMA TypeStep ==
    ASSUME TypeOK, Next
    PROVE  MgrTypeOK' 
<1> MgrTypeOK BY TypeParts
<1>1. CASE LoadPlugins
  <2>1. Moves(Main, "next") BY <1>1, EnterMoves, Constants DEF LoadPlugins, Ctl, MgrTypeOK
  <2>2. depGraph' \in [Plugins -> SUBSET Plugins] BY <1>1 DEF LoadPlugins, parsePluginDeps, MgrTypeOK
  <2> QED BY SMTT(30), <1>1, <2>1, <2>2 DEF LoadPlugins, Moves, MgrTypeOK, launches
<1>2. CASE Shutdown
  <2>1. {n \in Plugins : supervisors[n] # NoSlot} \in SUBSET Plugins OBVIOUS
  <2>2. Moves(Main, "shutdown") BY <1>2, <2>1, EnterMoves, Constants DEF Shutdown, Ctl
  <2> QED BY <1>2, <2>2 DEF Shutdown, Moves, MgrTypeOK, launches
<1>3. CASE ShutdownNext
  <2>1. PICK n \in call[Main].todo : 
          call' = [call EXCEPT ![Main].todo = @ \ {n}, ![Main].slot = supervisors[n]]
    BY <1>3 DEF ShutdownNext
  <2>2. call[Main] \in CallType BY Constants DEF MgrTypeOK
  <2>3. n \in Plugins /\ supervisors[n] \in Slots \cup {NoSlot} BY <2>1, <2>2 DEF CallType, MgrTypeOK
  <2>4. [call[Main] EXCEPT !.todo = @ \ {n}, !.slot = supervisors[n]] \in CallType
    BY <2>2, <2>3 DEF CallType
  <2>5. call' \in [Threads -> CallType] BY <2>1, <2>4, Constants DEF MgrTypeOK
  <2> QED BY <1>3, <2>5 DEF ShutdownNext, MgrTypeOK, registry, launches, Ctl
<1>4. CASE ShutdownDone
  <2>1. Moves(Main, "exited") BY <1>4, GotoMoves, Constants DEF ShutdownDone, Ctl
  <2> QED BY <1>4, <2>1, Constants DEF ShutdownDone, Moves, MgrTypeOK, launches
<1>5. CASE \E s \in Slots : Supervision(s) \/ Processes(s)
  BY <1>5 DEF Supervision, Processes, mgrVars, MgrTypeOK, registry, launches
<1>6. CASE EditDisk
  BY <1>6 DEF EditDisk, MgrTypeOK, registry, launches
<1> QED BY <1>1, <1>2, <1>3, <1>4, <1>5, <1>6, LoadTypeStep, UnloadTypeStep, CallTypeStep DEF Next, DaemonStep

-------------------------------------------------------------------------------
(* The threads and the slots.                                              *)

Holding(t)  == Loading(t) \/ pc[t] = "supervise"
Stopping(t) == pc[t] \in {"close", "stopkill", "stopwait"}
ShuttingDown == call[Main].op = "shutdown"

\* A thread that is launching, killing or stopping does it to a slot.
WorkInv(t) == Holding(t) \/ Stopping(t) \/ pc[t] = "kill" => call[t].slot \in Slots

\* The slot that loadPlugin is launching belongs to the thread in it: nobody
\* else can find its supervisor, so nobody has stopped it.
HeldInv(t) ==
    LET s == call[t].slot IN
    Holding(t) =>
        /\ owner[s] = t /\ nameOf[s] = call[t].name
        /\ proc[s][0] # "none" /\ stop[s] = "no"
        /\ mon[s] = "none" <=> Loading(t)
        /\ \A n \in Plugins : supervisors[n] # s
        /\ \A u \in Threads : Stopping(u) => call[u].slot # s

\* The slot that a thread is stopping is out of the map, so that nobody else
\* stops it; Shutdown leaves it there and holds mu instead.
StopInv(t) ==
    LET s == call[t].slot IN
    Stopping(t) =>
        /\ mon[s] # "none"
        /\ pc[t] = "close" => stop[s] = "no"
        /\ \A u \in Threads \ {t} : Stopping(u) => call[u].slot # s
        /\ \A n \in Plugins : supervisors[n] = s =>
              t = Main /\ ShuttingDown /\ n \notin call[Main].todo

\* A supervisor in the map was started, is the plugin's, and has not been
\* stopped unless Shutdown's loop has been there.
MapInv(n) ==
    LET s == supervisors[n] IN
    /\ s # NoSlot => /\ nameOf[s] = n /\ mon[s] # "none"
                     /\ ~ShuttingDown \/ n \in call[Main].todo => stop[s] = "no"
    /\ ShuttingDown /\ n \in call[Main].todo => s # NoSlot

\* A launch without a monitor has not been stopped, and runs only in the hands
\* of the thread that launched it.
LaunchInv(s) ==
    /\ mon[s] = "none" => stop[s] = "no"
    /\ mon[s] = "none" /\ Running(s, 0) =>
          \E t \in Threads : Loading(t) /\ call[t].slot = s

\* Shutdown holds mu as long as the daemon lives; the main thread unloads no
\* plugin, and no other thread shuts down.
MuInv ==
    /\ pc[Main] \notin {"unload", "kill", "drop"}
    /\ \A t \in Callers : call[t].op # "shutdown" /\ pc[t] \notin {"shutdown", "exited"}
    /\ ShuttingDown <=> mu = Main \/ exited
    /\ ShuttingDown <=> pc[Main] \in {"shutdown", "close", "stopkill", "stopwait", "exited"}
    /\ pc[Main] = "exited" <=> exited

ManagerInv ==
    /\ \A t \in Threads : WorkInv(t) /\ HeldInv(t) /\ StopInv(t)
    /\ \A n \in Plugins : MapInv(n)
    /\ \A s \in Slots : LaunchInv(s)
    /\ MuInv

PInv == IInv /\ MgrTypeOK /\ ManagerInv

LEMMA InitPInv == Init => PInv
<1> SUFFICES ASSUME Init PROVE PInv OBVIOUS
<1>1. IInv BY InitIInv DEF Init
<1>2. MgrTypeOK BY TypeInit
<1>3. \A t \in Threads : pc[t] \in {"boot", "idle"} /\ call[t].op = "none"
  BY Constants DEF Init
<1>4. mu # Main /\ ~exited BY Constants DEF Init
<1>5. ManagerInv
  <2>1. \A t \in Threads : ~Holding(t) /\ ~Stopping(t) /\ pc[t] \notin {"kill", "shutdown", "exited"}
    BY <1>3 DEF Holding, Loading, Stopping
  <2>2. \A n \in Plugins : supervisors[n] = NoSlot BY DEF Init
  <2>3. \A s \in Slots : stop[s] = "no" /\ ~Running(s, 0)
    <3>1. 0 \in Gens BY SupervisorAssumption DEF Gens
    <3> QED BY Zenon, <3>1 DEF Init, SupInit, Running
  <2>4. MuInv BY <1>3, <1>4, <2>1, Constants DEF MuInv, ShuttingDown, Threads
  <2>5. ~ShuttingDown BY <1>3, Constants DEF ShuttingDown
  <2>6. \A t \in Threads : WorkInv(t) /\ HeldInv(t) /\ StopInv(t)
    BY <2>1 DEF WorkInv, HeldInv, StopInv
  <2>7. \A n \in Plugins : MapInv(n) BY <2>2, <2>5 DEF MapInv
  <2>8. \A s \in Slots : LaunchInv(s) BY Zenon, <2>3 DEF LaunchInv
  <2> QED BY <2>4, <2>6, <2>7, <2>8 DEF ManagerInv
<1> QED BY <1>1, <1>2, <1>5 DEF PInv

\* The steps of the manager, as the supervisors see them.
LEMMA SupervisorsRest ==
    ASSUME IInv, UNCHANGED <<proc, cur, reaped, mon, stop>>, ctxDone' \subseteq Slots
    PROVE  IInv'
BY DEF IInv, SupTypeOK, SupInv, SlotInv, NoSuccessor, Running, Retrying

LEMMA StopReturned ==
    ASSUME IInv, NEW s \in Slots, stop[s] = "killed", mon[s] = "done",
           stop' = [stop EXCEPT ![s] = "returned"],
           UNCHANGED <<proc, cur, reaped, mon>>, ctxDone' \subseteq Slots
    PROVE  IInv'
<1>1. SupTypeOK' /\ OnlySlot(s) /\ stop'[s] = "returned"
  BY DEF IInv, SupTypeOK, StopState, OnlySlot
<1>2. SlotInv(s)'
  BY <1>1 DEF IInv, SupInv, SlotInv, NoSuccessor, Running, Retrying
<1> QED BY <1>1, <1>2, OtherSlots DEF IInv

LEMMA LoadSupStep ==
    ASSUME PInv, NEW t \in Threads, LoadSteps(t) PROVE IInv'
<1> IInv /\ MgrTypeOK /\ SupTypeOK BY DEF PInv, IInv
<1>0. 0 \in Gens BY SupervisorAssumption DEF Gens
<1>s. Holding(t) => call[t].slot \in Slots BY DEF PInv, ManagerInv, WorkInv
<1>1. CASE NextPlugin(t) \/ CacheDeps(t) \/ Register(t) \/ Supervise(t)
  BY <1>1, StutterIInv DEF NextPlugin, CacheDeps, Register, Supervise
<1>2. CASE LoopDone(t) \/ GetPlugin(t)
  <2>1. PICK r \in {"ok", "nil"} : Return(t, r) BY <1>2 DEF LoopDone, GetPlugin
  <2> QED BY <1>2, <2>1, ReturnMoves, SupervisorsRest DEF LoopDone, GetPlugin
<1>3. CASE BuildAndStart(t)
  <2>1. ASSUME NEW s \in Slots, Start(s) PROVE IInv' BY <2>1, StepSlot
  <2>2. ASSUME LoadFailed(t), UNCHANGED <<proc, cur, reaped, mon, stop>> PROVE IInv'
    BY <2>2, LoadFailedMoves, SupervisorsRest
  <2> QED BY <1>3, <2>1, <2>2 DEF BuildAndStart
<1>4. CASE Handshake(t)
  <2>1. ASSUME UNCHANGED <<proc, ctxDone>> PROVE IInv'
    BY <1>4, <2>1, StutterIInv DEF Handshake, supVars
  <2>2. ASSUME proc' = Kill(call[t].slot, 0), LoadFailed(t) PROVE IInv'
    <3>1. ctxDone' \subseteq Slots BY <2>2, LoadFailedMoves
    <3>2. UNCHANGED <<cur, reaped, mon, stop>> /\ call[t].slot \in Slots
      BY <1>4, <1>s DEF Handshake, Holding, Loading
    <3> QED BY <1>0, <2>2, <3>1, <3>2, StepKill
  <2> QED BY <1>4, <2>1, <2>2 DEF Handshake
<1>5. CASE Adopt(t)
  <2>1. call[t].slot \in Slots /\ startAdopt(call[t].slot) BY <1>5, <1>s DEF Adopt, Holding, Loading
  <2> QED BY <2>1, StepSlot
<1> QED BY <1>1, <1>2, <1>3, <1>4, <1>5 DEF LoadSteps

LEMMA UnloadSupStep ==
    ASSUME PInv, NEW t \in Threads, UnloadSteps(t) PROVE IInv'
<1> IInv /\ MgrTypeOK /\ SupTypeOK BY DEF PInv, IInv
<1>0. 0 \in Gens BY SupervisorAssumption DEF Gens
<1>s. Stopping(t) \/ pc[t] = "kill" => call[t].slot \in Slots BY DEF PInv, ManagerInv, WorkInv
<1>1. CASE Unregister(t)
  <2>1. ASSUME UnloadReturns(t, "error") PROVE ctxDone' \subseteq Slots BY <2>1, UnloadReturnsMoves
  <2>2. ASSUME UNCHANGED ctxDone PROVE ctxDone' \subseteq Slots BY <2>2 DEF SupTypeOK
  <2> QED BY <1>1, <2>1, <2>2, SupervisorsRest DEF Unregister, Release
<1>2. CASE KillUnsupervised(t)
  <2>1. ctxDone' \subseteq Slots BY <1>2, UnloadReturnsMoves DEF KillUnsupervised
  <2> QED BY <1>0, <1>2, <1>s, <2>1, StepKill DEF KillUnsupervised
<1>3. CASE NextDrop(t)
  BY <1>3, StutterIInv DEF NextDrop
<1>4. CASE CallStop(t)
  <2>1. call[t].slot \in Slots BY <1>4, <1>s DEF CallStop, Stopping
  <2> QED BY <1>4, <2>1, StepSlot DEF CallStop
<1>5. CASE StopCallReturns(t)
  <2>1. call[t].slot \in Slots BY <1>5, <1>s DEF StopCallReturns, Stopping
  <2>2. ASSUME UnloadReturns(t, "ok") PROVE ctxDone' \subseteq Slots BY <2>2, UnloadReturnsMoves
  <2>3. ctxDone' \subseteq Slots BY <1>5, <2>2 DEF StopCallReturns, SupTypeOK
  <2> QED BY <1>5, <2>1, <2>3, StopReturned DEF StopCallReturns
<1> QED BY <1>1, <1>2, <1>3, <1>4, <1>5 DEF UnloadSteps

LEMMA SupStep == ASSUME PInv, Next PROVE IInv'
<1> IInv /\ SupTypeOK BY DEF PInv, IInv
<1>1. ASSUME NEW t \in Callers, Call(t) PROVE IInv'
  <2>1. CASE CancelRequest(t)
    BY <2>1, SupervisorsRest DEF CancelRequest, CancelContext, SupTypeOK
  <2> QED BY <1>1, <2>1, StutterIInv DEF Call, LoadPluginByName, UnloadPluginByName, ReloadPlugins
<1>2. ASSUME NEW s \in Slots, Supervision(s) \/ Processes(s) PROVE IInv'
  BY <1>2, StepSlot DEF Supervision, Processes
<1>3. CASE LoadPlugins \/ Shutdown \/ ShutdownNext \/ ShutdownDone \/ EditDisk
  BY <1>3, StutterIInv DEF LoadPlugins, Shutdown, ShutdownNext, ShutdownDone, EditDisk
<1> QED BY <1>1, <1>2, <1>3, LoadSupStep, UnloadSupStep DEF Next, DaemonStep

-------------------------------------------------------------------------------
(* Most steps move no slot from one holder to the next: each thread keeps   *)
(* its place or is left without a slot, no launch gets or loses its         *)
(* monitor, and no stopCh is closed.                                        *)

Calm ==
    /\ \A s \in Slots : /\ mon'[s] = "none" <=> mon[s] = "none"
                        /\ stop'[s] = "no" <=> stop[s] = "no"
                        /\ proc[s][0] # "none" => proc'[s][0] # "none"
                        /\ Running(s, 0)' => Running(s, 0)
    /\ \A n \in Plugins : \/ supervisors'[n] = supervisors[n]
                          \/ supervisors'[n] = NoSlot /\ ~ShuttingDown
    /\ UNCHANGED <<nameOf, owner, mu, exited>>

KeepsPlace(t) ==
    /\ Loading(t)' <=> Loading(t)
    /\ \A l \in Ctl \ {"handshake", "register", "adopt"} : pc'[t] = l <=> pc[t] = l
    /\ call'[t].slot = call[t].slot /\ call'[t].name = call[t].name
    /\ call'[t].todo = call[t].todo /\ call'[t].op = call[t].op

Quiet(t) == pc[t] \in {"boot", "idle", "next", "cache", "build", "get", "unload", "drop"}

LeavesSlot(t) ==
    /\ Quiet(t)' \/ (pc'[t] = "kill" /\ call'[t].slot \in Slots)
    /\ t = Main => pc'[t] \notin {"unload", "kill", "drop"}
    /\ call[t].op # "shutdown" /\ call'[t].op # "shutdown"
    /\ Loading(t) => proc'[call[t].slot][0] # "running"

LEMMA FrameStep ==
    ASSUME PInv, Calm, \A t \in Threads : KeepsPlace(t) \/ LeavesSlot(t)
    PROVE  ManagerInv'
<1>m. ManagerInv BY DEF PInv
<1>1. ASSUME NEW t \in Threads PROVE /\ Holding(t)' => Holding(t) /\ KeepsPlace(t)
                                     /\ Stopping(t)' => Stopping(t) /\ KeepsPlace(t)
                                     /\ pc'[t] = "kill" => \/ pc[t] = "kill" /\ KeepsPlace(t)
                                                          \/ call'[t].slot \in Slots
                                     /\ pc'[t] = "close" => pc[t] = "close"
                                     /\ pc'[t] \in {"shutdown", "exited"} => pc'[t] = pc[t]
                                     /\ call'[t].op = "shutdown" <=> call[t].op = "shutdown"
  BY DEF KeepsPlace, LeavesSlot, Quiet, Holding, Loading, Stopping, Ctl
<1>2. ShuttingDown' <=> ShuttingDown BY <1>1, Constants DEF ShuttingDown
<1>3. ShuttingDown => KeepsPlace(Main) BY Constants DEF ShuttingDown, LeavesSlot
<1>t. ASSUME NEW t \in Threads PROVE WorkInv(t)' /\ HeldInv(t)' /\ StopInv(t)'
  <2> WorkInv(t) /\ HeldInv(t) /\ StopInv(t) BY <1>m DEF ManagerInv
  <2>1. WorkInv(t)' BY <1>1 DEF WorkInv, KeepsPlace
  <2>2. HeldInv(t)'
    <3> SUFFICES ASSUME Holding(t)' PROVE HeldInv(t)' BY DEF HeldInv
    <3>1. Holding(t) /\ KeepsPlace(t) /\ call[t].slot \in Slots BY <1>1 DEF WorkInv
    <3>2. call'[t].slot = call[t].slot /\ call'[t].name = call[t].name BY <3>1 DEF KeepsPlace
    <3>3. Loading(t)' <=> Loading(t) BY <3>1 DEF KeepsPlace
    <3>4. \A u \in Threads : Stopping(u)' => Stopping(u) /\ call'[u].slot = call[u].slot
      BY <1>1 DEF KeepsPlace
    <3>5. \A n \in Plugins : supervisors'[n] # call[t].slot
      BY <3>1, Constants DEF HeldInv, Calm
    <3> QED BY <3>1, <3>2, <3>3, <3>4, <3>5 DEF HeldInv, Calm
  <2>3. StopInv(t)'
    <3> SUFFICES ASSUME Stopping(t)' PROVE StopInv(t)' BY DEF StopInv
    <3>1. Stopping(t) /\ KeepsPlace(t) /\ call[t].slot \in Slots BY <1>1 DEF WorkInv
    <3>2. call'[t].slot = call[t].slot BY <3>1 DEF KeepsPlace
    <3>3. pc'[t] = "close" => pc[t] = "close" BY <1>1
    <3>4. \A u \in Threads : Stopping(u)' => Stopping(u) /\ call'[u].slot = call[u].slot
      BY <1>1 DEF KeepsPlace
    <3>5. \A n \in Plugins : supervisors'[n] = call[t].slot => 
             t = Main /\ ShuttingDown' /\ n \notin call'[Main].todo
      <4> SUFFICES ASSUME NEW n \in Plugins, supervisors'[n] = call[t].slot
                   PROVE t = Main /\ ShuttingDown' /\ n \notin call'[Main].todo
        OBVIOUS
      <4>1. supervisors[n] = call[t].slot BY <3>1, Constants DEF Calm
      <4>2. t = Main /\ ShuttingDown /\ n \notin call[Main].todo BY <3>1, <4>1 DEF StopInv
      <4>3. call'[Main].todo = call[Main].todo BY <1>3, <4>2 DEF KeepsPlace
      <4> QED BY <1>2, <4>2, <4>3
    <3> QED BY <3>1, <3>2, <3>3, <3>4, <3>5 DEF StopInv, Calm
  <2> QED BY <2>1, <2>2, <2>3
<1>n. ASSUME NEW n \in Plugins PROVE MapInv(n)'
  <2>1. supervisors[n] \in Slots \cup {NoSlot} BY DEF PInv, MgrTypeOK
  <2>2. MapInv(n) BY <1>m DEF ManagerInv
  <2>3. ShuttingDown => call'[Main].todo = call[Main].todo BY <1>3 DEF KeepsPlace
  <2>4. CASE supervisors'[n] = supervisors[n]
    BY <1>2, <2>1, <2>2, <2>3, <2>4 DEF MapInv, Calm
  <2>5. CASE supervisors'[n] = NoSlot /\ ~ShuttingDown
    BY <1>2, <2>5 DEF MapInv
  <2> QED BY <2>4, <2>5 DEF Calm
<1>s. ASSUME NEW s \in Slots PROVE LaunchInv(s)'
  <2>1. LaunchInv(s) BY <1>m DEF ManagerInv
  <2>2. mon'[s] = "none" => stop'[s] = "no" BY <2>1 DEF LaunchInv, Calm
  <2>3. ASSUME mon'[s] = "none", Running(s, 0)' PROVE \E t \in Threads : Loading(t)' /\ call'[t].slot = s
    <3>1. PICK t \in Threads : Loading(t) /\ call[t].slot = s BY <2>1, <2>3 DEF LaunchInv, Calm
    <3>2. KeepsPlace(t) BY <2>3, <3>1 DEF LeavesSlot, Running
    <3> QED BY <3>1, <3>2 DEF KeepsPlace
  <2> QED BY <2>2, <2>3 DEF LaunchInv
<1>u. MuInv'
  <2> MuInv /\ UNCHANGED <<mu, exited>> BY <1>m DEF ManagerInv, Calm
  <2>0. pc'[Main] \notin {"unload", "kill", "drop"}
    BY Constants DEF MuInv, KeepsPlace, LeavesSlot, Ctl
  <2>1. \A t \in Callers : call'[t].op # "shutdown" /\ pc'[t] \notin {"shutdown", "exited"}
    BY <1>1 DEF MuInv, Threads
  <2>2. CASE ShuttingDown
    <3>1. pc'[Main] \in {"shutdown", "close", "stopkill", "stopwait", "exited"}
      BY <1>3, <2>2 DEF MuInv, KeepsPlace, Ctl
    <3>2. pc'[Main] = "exited" <=> pc[Main] = "exited" BY <1>3, <2>2 DEF KeepsPlace, Ctl
    <3> QED BY <1>2, <2>0, <2>1, <2>2, <3>1, <3>2 DEF MuInv, ShuttingDown
  <2>3. CASE ~ShuttingDown
    <3>1. pc'[Main] \notin {"shutdown", "close", "stopkill", "stopwait", "exited"}
      BY <1>1, <2>3, Constants DEF MuInv, Stopping
    <3> QED BY <1>2, <2>0, <2>1, <2>3, <3>1 DEF MuInv, ShuttingDown
  <2> QED BY <2>2, <2>3
<1> QED BY <1>t, <1>n, <1>s, <1>u DEF ManagerInv

LEMMA NotShutdown ==
    ASSUME PInv, NEW t \in Threads,
           pc[t] \notin {"shutdown", "close", "stopkill", "stopwait", "exited"} \/ t # Main
    PROVE  call[t].op # "shutdown"
BY DEF PInv, ManagerInv, MuInv, ShuttingDown, Threads

LEMMA MoveFrames ==
    ASSUME PInv, NEW t \in Threads, OnlyThread(t), Calm, KeepsPlace(t) \/ LeavesSlot(t)
    PROVE  ManagerInv'
<1>1. ASSUME NEW u \in Threads \ {t} PROVE KeepsPlace(u)
  BY DEF OnlyThread, KeepsPlace, Loading
<1> QED BY <1>1, FrameStep

LEMMA CalmRest ==
    ASSUME UNCHANGED <<proc, mon, stop, supervisors, launches, mu, exited>> PROVE Calm
BY DEF Calm, Running, launches

LEMMA CalmKill ==
    ASSUME SupTypeOK, NEW s \in Slots, proc' = Kill(s, 0),
           UNCHANGED <<mon, stop, supervisors, launches, mu, exited>>
    PROVE  Calm /\ proc'[s][0] # "running"
<1>0. 0 \in Gens BY SupervisorAssumption DEF Gens
<1>1. /\ proc'[s][0] = IF proc[s][0] = "running" THEN "killed" ELSE proc[s][0]
      /\ \A r \in Slots \ {s} : proc'[r] = proc[r]
  BY <1>0, KillSlot
<1> QED BY <1>1 DEF Calm, Running, launches

\* A thread that holds no slot goes on.
LEMMA QuietMove ==
    ASSUME PInv, NEW t \in Threads, NEW l \in Ctl, Quiet(t), Moves(t, l),
           l \in {"boot", "idle", "next", "cache", "build", "get", "unload", "drop"},
           call'[t].op # "shutdown",
           t = Main => l \notin {"unload", "kill", "drop"},
           Calm
    PROVE  ManagerInv'
<1>1. call[t].op # "shutdown" BY NotShutdown DEF Quiet
<1>2. ~Loading(t) BY DEF Quiet, Loading
<1>3. Quiet(t)' /\ pc'[t] = l BY DEF Quiet, Moves
<1>4. LeavesSlot(t) BY <1>1, <1>2, <1>3 DEF LeavesSlot
<1> QED BY <1>4, MoveFrames DEF Moves

LEMMA LoadMgrStep ==
    ASSUME PInv, NEW t \in Threads,
           NextPlugin(t) \/ LoopDone(t) \/ CacheDeps(t) \/ GetPlugin(t) \/ Register(t) \/ Handshake(t)
    PROVE  ManagerInv'
<1> IInv /\ SupTypeOK /\ MgrTypeOK BY DEF PInv, IInv
<1>c. call[t] \in CallType BY DEF MgrTypeOK
<1>n. call[t].name \in Plugins /\ call[t].slot \in Slots \cup {NoSlot} /\ call[t].todo \subseteq Plugins
  BY <1>c DEF CallType
<1>1. CASE NextPlugin(t)
  <2>1. PICK n \in Ready(call[t]) :
          LET skips == SkipsLoaded(call[t], n) IN
          With(t, IF skips /\ loaded(n) THEN "next" ELSE "cache", n, call[t].todo \ {n})
    BY <1>1 DEF NextPlugin
  <2>2. n \in Plugins BY <1>n DEF Ready
  <2>3. call[t].todo \ {n} \in SUBSET Plugins BY <1>n
  <2>4. PICK l \in {"next", "cache"} : With(t, l, n, call[t].todo \ {n}) BY <2>1
  <2>5. l \in Ctl BY DEF Ctl
  <2>6. Moves(t, l) /\ call'[t].op = call[t].op BY <2>2, <2>3, <2>4, <2>5, WithMoves
  <2>7. Quiet(t) BY <1>1 DEF NextPlugin, Quiet
  <2>8. Calm BY <1>1, CalmRest DEF NextPlugin, registry, supVars
  <2>9. call[t].op # "shutdown" BY <2>7, NotShutdown DEF Quiet
  <2> QED BY <2>5, <2>6, <2>7, <2>8, <2>9, QuietMove
<1>2. CASE LoopDone(t) \/ GetPlugin(t)
  <2>1. PICK r \in {"ok", "nil"} : Return(t, r) BY <1>2 DEF LoopDone, GetPlugin
  <2>2. Moves(t, "idle") /\ call'[t].op = "none" BY <2>1, ReturnMoves
  <2>3. Calm BY <1>2, CalmRest DEF LoopDone, GetPlugin, registry
  <2>4. Quiet(t) BY <1>2 DEF LoopDone, GetPlugin, Quiet
  <2> QED BY <2>2, <2>3, <2>4, QuietMove DEF Ctl
<1>3. CASE CacheDeps(t)
  <2>1. Moves(t, "build") /\ call' = call BY <1>3, GotoMoves DEF CacheDeps, Ctl
  <2>2. Calm BY <1>3, CalmRest DEF CacheDeps, supVars
  <2>3. Quiet(t) BY <1>3 DEF CacheDeps, Quiet
  <2>4. call[t].op # "shutdown" BY <2>3, NotShutdown DEF Quiet
  <2> QED BY <2>1, <2>2, <2>3, <2>4, QuietMove DEF Ctl
<1>4. CASE Register(t)
  <2>1. Moves(t, "adopt") /\ call' = call BY <1>4, GotoMoves DEF Register, Ctl
  <2>2. Calm BY <1>4, CalmRest DEF Register, supVars
  <2>3. KeepsPlace(t) BY <1>4, <2>1 DEF Register, KeepsPlace, Loading, Moves
  <2> QED BY <2>1, <2>2, <2>3, MoveFrames DEF Moves
<1>5. CASE Handshake(t)
  <2>0. pc[t] = "handshake" /\ call[t].slot \in Slots
    BY <1>5 DEF Handshake, PInv, ManagerInv, WorkInv, Holding, Loading
  <2>1. ASSUME Goto(t, "register"), UNCHANGED <<proc, ctxDone>> PROVE ManagerInv'
    <3>1. Moves(t, "register") /\ call' = call BY <2>1, GotoMoves DEF Ctl
    <3>2. Calm BY <1>5, <2>1, CalmRest DEF Handshake, registry
    <3>3. KeepsPlace(t) BY <2>0, <3>1 DEF KeepsPlace, Loading, Moves
    <3> QED BY <3>1, <3>2, <3>3, MoveFrames DEF Moves
  <2>2. ASSUME proc' = Kill(call[t].slot, 0), LoadFailed(t) PROVE ManagerInv'
    <3>1. Moves(t, pc'[t]) /\ pc'[t] \in {"idle", "next"} /\ (call' = call \/ call'[t] = NoCall)
      BY <2>2, LoadFailedMoves
    <3>2. Calm /\ proc'[call[t].slot][0] # "running"
      BY <1>5, <2>0, <2>2, CalmKill DEF Handshake, registry
    <3>3. call[t].op # "shutdown" BY <2>0, NotShutdown
    <3>4. call'[t].op # "shutdown" BY <3>1, <3>3, Constants
    <3>5. Quiet(t)' BY <3>1 DEF Quiet
    <3>6. LeavesSlot(t) BY <3>1, <3>2, <3>3, <3>4, <3>5 DEF LeavesSlot
    <3> QED BY <3>1, <3>2, <3>6, MoveFrames DEF Moves
  <2> QED BY <1>5, <2>1, <2>2 DEF Handshake
<1> QED BY <1>1, <1>2, <1>3, <1>4, <1>5

LEMMA CallMgrStep ==
    ASSUME PInv, NEW t \in Callers, Call(t) PROVE ManagerInv'
<1> t \in Threads /\ t # Main BY ManagerAssumption DEF Threads
<1> IInv /\ SupTypeOK /\ MgrTypeOK BY DEF PInv, IInv
<1>1. ASSUME NEW n \in Plugins, LoadPluginByName(t, n) PROVE ManagerInv'
  <2>1. Quiet(t) BY <1>1 DEF LoadPluginByName, CanEnter, Quiet
  <2>2. Calm BY <1>1, CalmRest DEF LoadPluginByName, registry, supVars
  <2>3. CASE loaded(n)
    <3>1. UNCHANGED <<pc, call>> BY <1>1, <2>3 DEF LoadPluginByName
    <3>2. KeepsPlace(t) /\ OnlyThread(t) BY <3>1 DEF KeepsPlace, OnlyThread, Loading
    <3> QED BY <2>2, <3>2, MoveFrames
  <2>4. CASE ~loaded(n)
    <3>1. Enter(t, "load", "next", n, parsePluginDeps(n) \cup {n})
      BY <1>1, <2>4 DEF LoadPluginByName
    <3>2. parsePluginDeps(n) \cup {n} \in SUBSET Plugins BY DEF parsePluginDeps, MgrTypeOK
    <3>3. "next" \in Ctl BY DEF Ctl
    <3>4. Moves(t, "next") /\ call'[t].op = "load" BY <3>1, <3>2, <3>3, EnterMoves
    <3> QED BY <2>1, <2>2, <3>3, <3>4, QuietMove
  <2> QED BY <2>3, <2>4
<1>2. ASSUME NEW n \in Plugins, UnloadPluginByName(t, n) PROVE ManagerInv'
  <2>1. Quiet(t) BY <1>2 DEF UnloadPluginByName, CanEnter, Quiet
  <2>2. Calm BY <1>2, CalmRest DEF UnloadPluginByName, registry, supVars
  <2>3. "unload" \in Ctl BY DEF Ctl
  <2>4. Moves(t, "unload") /\ call'[t].op = "unload" BY <1>2, <2>3, EnterMoves DEF UnloadPluginByName
  <2> QED BY <2>1, <2>2, <2>3, <2>4, QuietMove
<1>3. CASE ReloadPlugins(t)
  <2>1. Quiet(t) BY <1>3 DEF ReloadPlugins, CanEnter, Quiet
  <2>2. Calm BY <1>3, CalmRest DEF ReloadPlugins, registry, supVars
  <2>3. "drop" \in Ctl BY DEF Ctl
  <2>4. {n \in Plugins : loaded(n)} \ disk \in SUBSET Plugins OBVIOUS
  <2>5. Moves(t, "drop") /\ call'[t].op = "reload"
    BY <1>3, <2>3, <2>4, EnterMoves, Constants DEF ReloadPlugins
  <2> QED BY <2>1, <2>2, <2>3, <2>5, QuietMove
<1>4. CASE CancelRequest(t)
  <2>1. call' = [call EXCEPT ![t].ctx = TRUE] /\ UNCHANGED pc BY <1>4 DEF CancelRequest
  <2>2. Calm BY <1>4, CalmRest DEF CancelRequest, registry
  <2>3. call[t] \in CallType BY DEF MgrTypeOK
  <2>4. /\ call'[t].slot = call[t].slot /\ call'[t].name = call[t].name
        /\ call'[t].todo = call[t].todo /\ call'[t].op = call[t].op
    BY <2>1, <2>3 DEF MgrTypeOK, CallType
  <2>5. KeepsPlace(t) BY <2>1, <2>4 DEF KeepsPlace, Loading
  <2>6. OnlyThread(t) BY <2>1 DEF OnlyThread, MgrTypeOK
  <2> QED BY <2>2, <2>5, <2>6, MoveFrames
<1> QED BY <1>1, <1>2, <1>3, <1>4 DEF Call

\* The monitors and the processes.
LEMMA AllKeep ==
    ASSUME PInv, UNCHANGED <<pc, call>>, Calm PROVE ManagerInv'
BY FrameStep DEF KeepsPlace, Loading

LEMMA CalmSupervision ==
    ASSUME PInv, NEW s \in Slots, Supervision(s) \/ Processes(s) PROVE Calm
<1> IInv /\ SupTypeOK BY DEF PInv, IInv
<1>0. 0 \in Gens /\ cur[s] \in Gens /\ \A g \in Gens : g \in Nat
  BY SupervisorAssumption DEF Gens, SupTypeOK
<1>1. UNCHANGED <<supervisors, launches, mu, exited, pc, call>>
  BY DEF Supervision, Processes, mgrVars, registry
<1>2. CASE Supervision(s)
  <2>0. Monitor(s) BY <1>2 DEF Supervision
  <2>1. /\ \A r \in Slots : mon'[r] = "none" <=> mon[r] = "none"
        /\ stop' = stop
    <3>1. stop' = stop /\ mon[s] # "none" /\ \A r \in Slots \ {s} : mon'[r] = mon[r]
      BY <2>0 DEF Monitor, MonitorWait, MonitorBackoff, rebuild, LaunchStart, LaunchFinish, SupTypeOK
    <3>2. mon'[s] # "none"
      BY <2>0 DEF Monitor, MonitorWait, MonitorBackoff, rebuild, LaunchStart, LaunchFinish, SupTypeOK
    <3> QED BY <3>1, <3>2
  <2>2. \/ UNCHANGED proc
        \/ cur[s] < MaxGen /\ proc' = [proc EXCEPT ![s][cur[s] + 1] = "running"]
        \/ cur[s] < MaxGen /\ proc' = Kill(s, cur[s] + 1)
    <3>1. mon[s] = "handshake" => cur[s] < MaxGen BY DEF IInv, SupInv, SlotInv
    <3> QED BY <2>0, <3>1 DEF Monitor, MonitorWait, MonitorBackoff, rebuild, LaunchStart, LaunchFinish
  <2>3. \A r \in Slots : proc'[r][0] = proc[r][0]
    <3>1. cur[s] + 1 # 0 BY <1>0
    <3>2. CASE proc' = [proc EXCEPT ![s][cur[s] + 1] = "running"]
      BY <1>0, <3>1, <3>2 DEF SupTypeOK
    <3>3. CASE cur[s] < MaxGen /\ proc' = Kill(s, cur[s] + 1)
      <4>1. cur[s] + 1 \in Gens BY <1>0, <3>3, SupervisorAssumption DEF Gens
      <4>2. /\ \A h \in Gens \ {cur[s] + 1} : proc'[s][h] = proc[s][h]
            /\ \A r \in Slots \ {s} : proc'[r] = proc[r]
        BY <3>3, <4>1, KillSlot
      <4> QED BY <1>0, <3>1, <4>2
    <3> QED BY <2>2, <3>2, <3>3
  <2> QED BY <1>1, <2>1, <2>3 DEF Calm, Running, launches
<1>3. CASE Processes(s)
  <2>1. PICK g \in Gens : Exit(s, g) \/ ContextKill(s, g) BY <1>3 DEF Processes
  <2>2. UNCHANGED <<mon, stop>> BY <2>1 DEF Exit, ContextKill
  <2>3. \E st \in {"ok", "crashed", "killed"} : proc' = [proc EXCEPT ![s][g] = st] /\ Running(s, g)
    BY <2>1 DEF Exit, ContextKill, Kill, Running, SupTypeOK
  <2>4. \A r \in Slots : /\ proc[r][0] # "none" => proc'[r][0] # "none"
                         /\ Running(r, 0)' => Running(r, 0)
    BY <1>0, <2>3 DEF SupTypeOK, Running
  <2> QED BY <1>1, <2>2, <2>4 DEF Calm, launches
<1> QED BY <1>2, <1>3

-------------------------------------------------------------------------------
(* The steps in which a slot s passes from one holder to another: what a    *)
(* thread other than the one that moves knows, it still knows.              *)

PassesOn(t, s) ==
    /\ OnlyThread(t)
    /\ \A r \in Slots \ {s} : /\ mon'[r] = "none" <=> mon[r] = "none"
                              /\ stop'[r] = "no" <=> stop[r] = "no"
                              /\ proc[r][0] # "none" => proc'[r][0] # "none"
                              /\ Running(r, 0)' => Running(r, 0)
                              /\ nameOf'[r] = nameOf[r] /\ owner'[r] = owner[r]
    /\ \A n \in Plugins : supervisors'[n] \in {supervisors[n], NoSlot, s}
    /\ \A u \in Threads \ {t} : Holding(u) \/ Stopping(u) => call[u].slot # s
    /\ Stopping(t)' => call'[t].slot = s
    /\ Loading(t) => call[t].slot = s
    /\ \A n \in Plugins :
          /\ ~ShuttingDown' \/ n \in call'[Main].todo => ~ShuttingDown \/ n \in call[Main].todo
          /\ ShuttingDown' /\ n \in call'[Main].todo => supervisors'[n] # NoSlot

LEMMA PassStep ==
    ASSUME PInv, NEW t \in Threads, NEW s, PassesOn(t, s),
           WorkInv(t)' /\ HeldInv(t)' /\ StopInv(t)',
           s \in Slots => LaunchInv(s)',
           s \in Slots => \A n \in Plugins : supervisors'[n] = s => MapInv(n)',
           s \in Slots \cup {NoSlot},
           MuInv'
    PROVE  ManagerInv'
<1>m. ManagerInv BY DEF PInv
<1>k. \A u \in Threads \ {t} : pc'[u] = pc[u] /\ call'[u] = call[u] BY DEF PassesOn, OnlyThread
<1>1. ASSUME NEW u \in Threads \ {t} PROVE WorkInv(u)' /\ HeldInv(u)' /\ StopInv(u)'
  <2> WorkInv(u) /\ HeldInv(u) /\ StopInv(u) BY <1>m DEF ManagerInv
  <2> DEFINE r == call[u].slot
  <2>0. pc'[u] = pc[u] /\ call'[u] = call[u] BY <1>k
  <2>1. WorkInv(u)' BY <2>0 DEF WorkInv, Holding, Loading, Stopping
  <2>2. \A n \in Plugins : Holding(u) \/ Stopping(u) =>
           r \in Slots \ {s} /\ (supervisors'[n] = r => supervisors[n] = r)
    BY Constants DEF PassesOn, WorkInv
  <2>3. HeldInv(u)'
    <3> SUFFICES ASSUME Holding(u)' PROVE HeldInv(u)' BY DEF HeldInv
    <3>1. Holding(u) /\ (Loading(u)' <=> Loading(u)) BY <2>0 DEF Holding, Loading
    <3>2. r \in Slots \ {s} BY <3>1 DEF PassesOn, WorkInv
    <3>3. \A w \in Threads : Stopping(w)' => call'[w].slot # r
      <4> SUFFICES ASSUME NEW w \in Threads, Stopping(w)' PROVE call'[w].slot # r OBVIOUS
      <4>1. CASE w = t BY <3>2, <4>1 DEF PassesOn
      <4>2. CASE w # t BY <1>k, <3>1, <4>2 DEF HeldInv, Stopping
      <4> QED BY <4>1, <4>2
    <3>4. \A n \in Plugins : supervisors'[n] # r BY <2>2, <3>1 DEF HeldInv
    <3>5. /\ mon'[r] = "none" <=> mon[r] = "none"
          /\ stop'[r] = "no" <=> stop[r] = "no"
          /\ proc[r][0] # "none" => proc'[r][0] # "none"
          /\ nameOf'[r] = nameOf[r] /\ owner'[r] = owner[r]
      BY <3>2 DEF PassesOn
    <3> QED BY <2>0, <3>1, <3>3, <3>4, <3>5 DEF HeldInv
  <2>4. StopInv(u)'
    <3> SUFFICES ASSUME Stopping(u)' PROVE StopInv(u)' BY DEF StopInv
    <3>1. Stopping(u) BY <2>0 DEF Stopping
    <3>2. r \in Slots \ {s} BY <3>1 DEF PassesOn, WorkInv
    <3>3. \A w \in Threads \ {u} : Stopping(w)' => call'[w].slot # r
      <4> SUFFICES ASSUME NEW w \in Threads \ {u}, Stopping(w)' PROVE call'[w].slot # r OBVIOUS
      <4>1. CASE w = t BY <3>2, <4>1 DEF PassesOn
      <4>2. CASE w # t BY <1>k, <3>1, <4>2 DEF StopInv, Stopping
      <4> QED BY <4>1, <4>2
    <3>4. ASSUME NEW n \in Plugins, supervisors'[n] = r
          PROVE u = Main /\ ShuttingDown' /\ n \notin call'[Main].todo
      <4>1. u = Main /\ ShuttingDown /\ n \notin call[Main].todo
        BY <2>2, <3>1, <3>4 DEF StopInv
      <4> QED BY <2>0, <4>1 DEF ShuttingDown
    <3>5. /\ mon'[r] = "none" <=> mon[r] = "none"
          /\ stop'[r] = "no" <=> stop[r] = "no"
      BY <3>2 DEF PassesOn
    <3> QED BY <2>0, <3>1, <3>3, <3>4, <3>5 DEF StopInv
  <2> QED BY <2>1, <2>3, <2>4
<1>2. ASSUME NEW n \in Plugins PROVE MapInv(n)'
  <2>1. CASE supervisors'[n] = s /\ s \in Slots BY <2>1
  <2>2. CASE supervisors'[n] = NoSlot BY <2>2 DEF MapInv, PassesOn
  <2>3. CASE supervisors'[n] = supervisors[n] /\ supervisors[n] # s /\ supervisors[n] # NoSlot
    <3>1. MapInv(n) /\ supervisors[n] \in Slots \ {s} BY <1>m, <2>3 DEF ManagerInv, PInv, MgrTypeOK
    <3> QED BY <2>3, <3>1 DEF MapInv, PassesOn
  <2> QED BY <2>1, <2>2, <2>3 DEF PassesOn
<1>3. ASSUME NEW r \in Slots \ {s} PROVE LaunchInv(r)'
  <2>1. LaunchInv(r) BY <1>m DEF ManagerInv
  <2>2. mon'[r] = "none" => stop'[r] = "no" BY <2>1 DEF LaunchInv, PassesOn
  <2>3. ASSUME mon'[r] = "none", Running(r, 0)' PROVE \E u \in Threads : Loading(u)' /\ call'[u].slot = r
    <3>1. PICK u \in Threads : Loading(u) /\ call[u].slot = r BY <2>1, <2>3 DEF LaunchInv, PassesOn
    <3>2. u # t BY <3>1 DEF PassesOn
    <3> QED BY <1>k, <3>1, <3>2 DEF Loading
  <2> QED BY <2>2, <2>3 DEF LaunchInv
<1>4. \A r \in Slots : LaunchInv(r)' BY <1>3
<1>5. \A u \in Threads : WorkInv(u)' /\ HeldInv(u)' /\ StopInv(u)' BY <1>1
<1> QED BY <1>2, <1>4, <1>5 DEF ManagerInv

LEMMA MuKeeps ==
    ASSUME PInv, NEW t \in Threads, OnlyThread(t), UNCHANGED <<mu, exited>>,
           call'[t].op = call[t].op, 
           t # Main => pc'[t] \notin {"shutdown", "exited"},
           t = Main => pc'[t] \notin {"unload", "kill", "drop"},
           pc'[t] = "exited" <=> pc[t] = "exited",
           t = Main => (pc'[t] \in {"shutdown", "close", "stopkill", "stopwait", "exited"} <=> 
                        pc[t] \in {"shutdown", "close", "stopkill", "stopwait", "exited"})
    PROVE  MuInv'
<1> MuInv BY DEF PInv, ManagerInv
<1>1. \A u \in Threads : call'[u].op = call[u].op /\ (pc'[u] = "exited" <=> pc[u] = "exited")
  BY DEF OnlyThread
<1>2. ASSUME NEW u \in Callers PROVE call'[u].op # "shutdown" /\ pc'[u] \notin {"shutdown", "exited"}
  <2>1. u \in Threads /\ u # Main BY ManagerAssumption DEF Threads
  <2> QED BY <1>1, <2>1 DEF MuInv, OnlyThread
<1>3. ShuttingDown' <=> ShuttingDown BY <1>1, Constants DEF ShuttingDown
<1>4. pc'[Main] \in {"shutdown", "close", "stopkill", "stopwait", "exited"} <=> 
      pc[Main] \in {"shutdown", "close", "stopkill", "stopwait", "exited"}
  BY Constants DEF OnlyThread
<1>5. pc'[Main] \notin {"unload", "kill", "drop"}
  BY Constants DEF OnlyThread, MuInv
<1> QED BY <1>1, <1>2, <1>3, <1>4, <1>5, Constants DEF MuInv

\* Two threads hold different slots.
LEMMA HoldersDiffer ==
    ASSUME PInv, NEW t \in Threads, NEW u \in Threads \ {t}, Holding(t), Holding(u) 
    PROVE  call[u].slot # call[t].slot
BY DEF PInv, ManagerInv, HeldInv

LEMMA BuildMgrStep ==
    ASSUME PInv, NEW t \in Threads, BuildAndStart(t) PROVE ManagerInv'
<1> IInv /\ SupTypeOK /\ MgrTypeOK /\ ManagerInv BY DEF PInv, IInv
<1>0. pc[t] = "build" /\ UNCHANGED <<registry, disk, exited>> BY DEF BuildAndStart
<1>1. ASSUME NEW s \in Slots, Fresh(s), Start(s), nameOf' = [nameOf EXCEPT ![s] = call[t].name],
             owner' = [owner EXCEPT ![s] = t], call' = [call EXCEPT ![t].slot = s],
             pc' = [pc EXCEPT ![t] = "handshake"]
      PROVE ManagerInv'
  <2>0. 0 \in Gens BY SupervisorAssumption DEF Gens
  <2>1. proc[s][0] = "none" /\ mon[s] = "none" BY SMTT(30), <1>1, AdoptedIsStarted DEF Fresh
  <2>2. /\ Moves(t, "handshake") /\ call'[t].slot = s
        /\ call'[t].op = call[t].op /\ call'[t].name = call[t].name /\ call'[t].todo = call[t].todo
    BY ZenonT(60), <1>1, SlotMoves DEF Ctl
  <2>3. /\ UNCHANGED <<mon, stop, supervisors, mu, exited>>
        /\ proc'[s][0] = "running" /\ \A r \in Slots \ {s} : proc'[r] = proc[r]
        /\ owner'[s] = t /\ \A r \in Slots \ {s} : owner'[r] = owner[r]
        /\ nameOf'[s] = call[t].name /\ \A r \in Slots \ {s} : nameOf'[r] = nameOf[r]
    BY <1>0, <1>1, <2>0 DEF Start, registry, SupTypeOK, MgrTypeOK
  <2>4. stop[s] = "no" BY <2>1 DEF ManagerInv, LaunchInv
  <2>5. \A u \in Threads : Holding(u) \/ Stopping(u) => call[u].slot # s
    BY <2>1 DEF ManagerInv, HeldInv, StopInv
  <2>6. \A n \in Plugins : supervisors[n] # s
    <3>1. \A n \in Plugins : supervisors[n] = s => mon[s] # "none"
      BY Constants DEF ManagerInv, MapInv
    <3> QED BY <2>1, <3>1
  <2>7. ~Loading(t) /\ Loading(t)' /\ Holding(t)' /\ ~Stopping(t)' /\ pc'[t] = "handshake"
    BY <1>0, <2>2 DEF Loading, Holding, Stopping, Moves
  <2>8. call'[Main].op = call[Main].op /\ call'[Main].todo = call[Main].todo
    BY <2>2, Constants DEF Moves, OnlyThread
  <2>9. PassesOn(t, s)
    <3>1. \A n \in Plugins : /\ ~ShuttingDown' \/ n \in call'[Main].todo => ~ShuttingDown \/ n \in call[Main].todo
                             /\ ShuttingDown' /\ n \in call'[Main].todo => supervisors'[n] # NoSlot
      BY <2>3, <2>8 DEF ManagerInv, MapInv, ShuttingDown
    <3>2. \A r \in Slots \ {s} : Running(r, 0)' => Running(r, 0) BY <2>3 DEF Running
    <3> QED BY <2>2, <2>3, <2>5, <2>7, <3>1, <3>2 DEF PassesOn, Moves
  <2>10. WorkInv(t)' /\ StopInv(t)' BY <2>2, <2>7 DEF WorkInv, StopInv
  <2>11. HeldInv(t)'
    <3>1. \A u \in Threads : Stopping(u)' => call'[u].slot # s
      BY <2>2, <2>5, <2>7 DEF Moves, OnlyThread, Stopping
    <3> QED BY <2>1, <2>2, <2>3, <2>4, <2>6, <2>7, <3>1 DEF HeldInv
  <2>12. LaunchInv(s)' BY <2>2, <2>3, <2>4, <2>7 DEF LaunchInv
  <2>13. MuInv' BY <1>0, <2>2, <2>3, MuKeeps DEF Moves
  <2> QED BY <2>3, <2>6, <2>9, <2>10, <2>11, <2>12, <2>13, PassStep
<1>2. ASSUME LoadFailed(t), UNCHANGED <<proc, mon, stop, launches>> PROVE ManagerInv'
  <2>1. Moves(t, pc'[t]) /\ pc'[t] \in {"idle", "next"} /\ (call' = call \/ call'[t] = NoCall)
    BY <1>2, LoadFailedMoves
  <2>2. Calm BY <1>0, <1>2, CalmRest DEF registry
  <2>3. Quiet(t) /\ call[t].op # "shutdown" BY <1>0, NotShutdown DEF Quiet
  <2>4. call'[t].op # "shutdown" BY <2>1, <2>3, Constants
  <2>5. pc'[t] \in Ctl BY <2>1 DEF Ctl
  <2> QED BY <2>1, <2>2, <2>3, <2>4, <2>5, QuietMove
<1> QED BY <1>1, <1>2 DEF BuildAndStart

LEMMA AdoptMgrStep ==
    ASSUME PInv, NEW t \in Threads, Adopt(t) PROVE ManagerInv'
<1> IInv /\ SupTypeOK /\ MgrTypeOK /\ ManagerInv BY DEF PInv, IInv
<1>s. PICK s : s = call[t].slot OBVIOUS
<1>0. pc[t] = "adopt" /\ startAdopt(s) /\ UNCHANGED <<registry, launches, disk, exited>> BY <1>s DEF Adopt
<1>1. s \in Slots /\ HeldInv(t) /\ Holding(t) BY <1>0, <1>s DEF ManagerInv, WorkInv, Holding, Loading
<1>2. Moves(t, "supervise") /\ call' = call BY GotoMoves DEF Adopt, Ctl
<1>3. /\ UNCHANGED <<proc, stop, supervisors, mu, exited, nameOf, owner>>
      /\ mon'[s] = "wait" /\ \A r \in Slots \ {s} : mon'[r] = mon[r]
  BY <1>0, <1>1 DEF startAdopt, registry, launches, SupTypeOK
<1>4. Holding(t)' /\ ~Loading(t)' /\ ~Stopping(t)' /\ ~Stopping(t) /\ pc'[t] = "supervise"
  BY <1>0, <1>2 DEF Loading, Holding, Stopping, Moves
<1>5. \A u \in Threads \ {t} : Holding(u) \/ Stopping(u) => call[u].slot # s
  BY <1>s, <1>1, HoldersDiffer DEF HeldInv
<1>6. PassesOn(t, s)
  <2>1. \A n \in Plugins : /\ ~ShuttingDown' \/ n \in call'[Main].todo => ~ShuttingDown \/ n \in call[Main].todo
                           /\ ShuttingDown' /\ n \in call'[Main].todo => supervisors'[n] # NoSlot
    BY <1>2, <1>3 DEF ManagerInv, MapInv, ShuttingDown
  <2>2. \A r \in Slots \ {s} : Running(r, 0)' => Running(r, 0) BY <1>3 DEF Running
  <2> QED BY <1>s, <1>2, <1>3, <1>4, <1>5, <2>1, <2>2 DEF PassesOn, Moves
<1>7. WorkInv(t)' /\ StopInv(t)' BY <1>s, <1>1, <1>2, <1>4 DEF WorkInv, StopInv
<1>8. HeldInv(t)'
  <2>1. \A u \in Threads : Stopping(u)' => call'[u].slot # s
    BY <1>s, <1>1, <1>2, <1>4 DEF Moves, OnlyThread, Stopping, HeldInv
  <2> QED BY <1>s, <1>1, <1>2, <1>3, <1>4, <2>1 DEF HeldInv
<1>9. LaunchInv(s)' BY <1>3 DEF LaunchInv
<1>10. MuInv' BY <1>0, <1>2, <1>3, MuKeeps DEF Moves
<1>11. \A n \in Plugins : supervisors'[n] # s BY <1>s, <1>1, <1>3 DEF HeldInv
<1> QED BY <1>1, <1>6, <1>7, <1>8, <1>9, <1>10, <1>11, PassStep

LEMMA SuperviseMgrStep ==
    ASSUME PInv, NEW t \in Threads, Supervise(t) PROVE ManagerInv'
<1> IInv /\ SupTypeOK /\ MgrTypeOK /\ ManagerInv BY DEF PInv, IInv
<1>s. PICK s, n : s = call[t].slot /\ n = call[t].name OBVIOUS
<1>0. pc[t] = "supervise" /\ mu = Free /\ supervisors' = [supervisors EXCEPT ![n] = s]
      /\ UNCHANGED <<supVars, mu, launches, exited>> BY <1>s DEF Supervise
<1>1. s \in Slots /\ HeldInv(t) /\ Holding(t) /\ ~Loading(t) /\ n \in Plugins
  BY <1>0, <1>s DEF ManagerInv, WorkInv, Holding, Loading, MgrTypeOK, CallType
<1>2. PICK l \in {"get", "next"} : Goto(t, l) BY DEF Supervise
<1>3. Moves(t, l) /\ call' = call /\ pc'[t] \in {"get", "next"}
  <2>1. l \in Ctl BY DEF Ctl
  <2>2. Moves(t, l) /\ call' = call BY <1>2, <2>1, GotoMoves 
  <2> QED BY <2>2 DEF Moves
<1>4. supervisors'[n] = s /\ \A m \in Plugins \ {n} : supervisors'[m] = supervisors[m]
  BY <1>0, <1>1 DEF MgrTypeOK
<1>5. ~Holding(t)' /\ ~Stopping(t)' /\ pc'[t] # "kill"
  BY <1>3 DEF Loading, Holding, Stopping
<1>6. \A u \in Threads \ {t} : Holding(u) \/ Stopping(u) => call[u].slot # s
  BY <1>s, <1>1, HoldersDiffer DEF HeldInv
<1>7. UNCHANGED <<proc, mon, stop, nameOf, owner, mu, exited>> BY <1>0 DEF supVars, launches
<1>8. PassesOn(t, s)
  <2>1. \A m \in Plugins : /\ ~ShuttingDown' \/ m \in call'[Main].todo => ~ShuttingDown \/ m \in call[Main].todo
                           /\ ShuttingDown' /\ m \in call'[Main].todo => supervisors'[m] # NoSlot
    <3> SUFFICES ASSUME NEW m \in Plugins
                 PROVE ShuttingDown /\ m \in call[Main].todo => supervisors'[m] # NoSlot
      BY <1>3 DEF ShuttingDown
    <3>1. CASE m = n BY <1>1, <1>4, <3>1, Constants
    <3>2. CASE m # n BY <1>4, <3>2 DEF ManagerInv, MapInv
    <3> QED BY <3>1, <3>2
  <2>2. \A r \in Slots \ {s} : Running(r, 0)' => Running(r, 0) BY <1>7 DEF Running
  <2> QED BY <1>s, <1>1, <1>3, <1>4, <1>5, <1>6, <1>7, <2>1, <2>2 DEF PassesOn, Moves
<1>9. WorkInv(t)' /\ StopInv(t)' /\ HeldInv(t)' BY <1>s, <1>5 DEF WorkInv, StopInv, HeldInv
<1>10. mon[s] # "none" /\ stop[s] = "no" /\ nameOf[s] = n BY <1>s, <1>1 DEF HeldInv
<1>11. LaunchInv(s)' BY <1>7, <1>10 DEF LaunchInv
<1>12. MuInv' BY <1>0, <1>3, <1>7, MuKeeps DEF Moves
<1>13. \A m \in Plugins : supervisors'[m] = s => MapInv(m)'
  <2> SUFFICES ASSUME NEW m \in Plugins, supervisors'[m] = s PROVE MapInv(m)' OBVIOUS
  <2>1. m = n BY <1>s, <1>1, <1>4 DEF HeldInv
  <2> QED BY <1>1, <1>4, <1>7, <1>10, <2>1, Constants DEF MapInv
<1> QED BY <1>1, <1>8, <1>9, <1>11, <1>12, <1>13, PassStep

\* A thread that leaves UnloadPluginByName holds no slot.
LEMMA UnloadReturnsMgr ==
    ASSUME PInv, NEW t \in Threads, NEW r \in {"ok", "error"}, UnloadReturns(t, r), Calm,
           t # Main, ~Loading(t)
    PROVE  ManagerInv'
<1> MgrTypeOK BY DEF PInv
<1>1. Moves(t, pc'[t]) /\ pc'[t] \in {"idle", "drop"} /\ (call' = call \/ call'[t] = NoCall)
  BY UnloadReturnsMoves
<1>2. call[t].op # "shutdown" /\ call'[t].op # "shutdown" BY <1>1, NotShutdown, Constants
<1>3. Quiet(t)' BY <1>1 DEF Quiet
<1>4. LeavesSlot(t) BY <1>2, <1>3 DEF LeavesSlot
<1> QED BY <1>1, <1>4, MoveFrames DEF Moves

LEMMA UnregisterMgrStep ==
    ASSUME PInv, ~exited, NEW t \in Threads, Unregister(t) PROVE ManagerInv'
<1> IInv /\ SupTypeOK /\ MgrTypeOK /\ ManagerInv BY DEF PInv, IInv
<1>0. PICK n : n = call[t].name OBVIOUS
<1>1. /\ n \in Plugins /\ pc[t] = "unload" /\ mu = Free
      /\ UNCHANGED <<proc, cur, reaped, mon, stop, mu, launches, disk, exited>>
  BY <1>0 DEF Unregister, MgrTypeOK, CallType
<1>2. ~ShuttingDown /\ t # Main BY <1>1, Constants DEF ManagerInv, MuInv
<1>3. call[t].op # "shutdown" /\ ~Loading(t) /\ ~Holding(t) /\ ~Stopping(t)
  BY <1>1, NotShutdown DEF Loading, Holding, Stopping
<1>4. \/ UNCHANGED supervisors
      \/ supervisors' = [supervisors EXCEPT ![n] = NoSlot]
  BY <1>0 DEF Unregister
<1>5. Calm
  <2>1. \A m \in Plugins : supervisors'[m] = supervisors[m] \/ (supervisors'[m] = NoSlot /\ ~ShuttingDown)
    BY <1>1, <1>2, <1>4 DEF MgrTypeOK
  <2> QED BY <1>1, <2>1 DEF Calm, Running, launches
<1>6. ASSUME UnloadReturns(t, "error") PROVE ManagerInv'
  BY <1>2, <1>3, <1>5, <1>6, UnloadReturnsMgr
<1>7. ASSUME loaded(n), Release(t, "kill", plugins[n]) PROVE ManagerInv'
  <2>1. plugins[n] \in Slots BY SMTT(30), <1>1, <1>7 DEF loaded, MgrTypeOK
  <2>2. Moves(t, "kill") /\ call'[t].slot = plugins[n] /\ call'[t].op = call[t].op
    BY ZenonT(60), <1>7, <2>1, SlotMoves DEF Release, Ctl
  <2>3. pc'[t] = "kill" BY <2>2 DEF Moves
  <2>4. LeavesSlot(t) BY <1>2, <1>3, <2>1, <2>2, <2>3 DEF LeavesSlot
  <2> QED BY <1>5, <2>2, <2>4, MoveFrames DEF Moves
<1>8. ASSUME supervisors[n] # NoSlot, supervisors' = [supervisors EXCEPT ![n] = NoSlot],
             Release(t, "close", supervisors[n])
      PROVE ManagerInv'
  <2>0. PICK s \in Slots : s = supervisors[n] BY SMTT(30), <1>1, <1>8 DEF MgrTypeOK
  <2>1. /\ Moves(t, "close") /\ call'[t].slot = s
        /\ call'[t].op = call[t].op /\ call'[t].todo = call[t].todo
    BY ZenonT(60), <1>8, <2>0, SlotMoves DEF Release, Ctl
  <2>2. supervisors'[n] = NoSlot /\ \A m \in Plugins \ {n} : supervisors'[m] = supervisors[m]
    BY <1>1, <1>8 DEF MgrTypeOK
  <2>3. nameOf[s] = n /\ mon[s] # "none" /\ stop[s] = "no"
    BY <1>1, <1>2, <1>8, <2>0 DEF ManagerInv, MapInv
  <2>4. \A m \in Plugins : supervisors'[m] # s
    <3>1. \A m \in Plugins : supervisors[m] = s => nameOf[s] = m
      BY <1>8, <2>0, Constants DEF ManagerInv, MapInv
    <3> QED BY <2>0, <2>2, <2>3, <3>1, Constants
  <2>5. \A u \in Threads : Holding(u) \/ Stopping(u) => call[u].slot # s
    BY <1>1, <1>2, <2>0 DEF ManagerInv, HeldInv, StopInv
  <2>6. ~Holding(t)' /\ Stopping(t)' /\ pc'[t] = "close"
    BY <2>1 DEF Loading, Holding, Stopping, Moves
  <2>7. ~ShuttingDown' BY <1>2, <2>1, Constants DEF ShuttingDown, Moves, OnlyThread
  <2>8. PassesOn(t, s)
    <3>1. \A r \in Slots \ {s} : Running(r, 0)' => Running(r, 0) BY <1>1 DEF Running
    <3> QED BY <1>1, <1>2, <1>3, <2>1, <2>2, <2>5, <2>7, <3>1 DEF PassesOn, Moves, launches
  <2>9. WorkInv(t)' BY <2>1 DEF WorkInv
  <2>10. HeldInv(t)' BY <2>6 DEF HeldInv
  <2>11. StopInv(t)'
    <3>1. \A u \in Threads \ {t} : Stopping(u)' => call'[u].slot # s
      BY <2>1, <2>5 DEF Moves, OnlyThread, Stopping
    <3> QED BY <1>1, <2>1, <2>3, <2>4, <3>1 DEF StopInv
  <2>12. LaunchInv(s)' BY <1>1, <2>3 DEF LaunchInv
  <2>13. MuInv' BY <1>1, <1>2, <2>1, <2>6, MuKeeps DEF Moves
  <2> QED BY <2>4, <2>8, <2>9, <2>10, <2>11, <2>12, <2>13, PassStep
<1> QED BY <1>0, <1>6, <1>7, <1>8 DEF Unregister

LEMMA KillMgrStep ==
    ASSUME PInv, NEW t \in Threads, KillUnsupervised(t) PROVE ManagerInv'
<1> IInv /\ SupTypeOK /\ MgrTypeOK /\ ManagerInv BY DEF PInv, IInv
<1>1. pc[t] = "kill" /\ call[t].slot \in Slots /\ t # Main
  BY DEF KillUnsupervised, ManagerInv, WorkInv, MuInv
<1>2. Calm BY <1>1, CalmKill DEF KillUnsupervised, registry
<1>3. ~Loading(t) BY <1>1 DEF Loading
<1> QED BY <1>1, <1>2, <1>3, UnloadReturnsMgr DEF KillUnsupervised

LEMMA DropMgrStep ==
    ASSUME PInv, NEW t \in Threads, NextDrop(t) PROVE ManagerInv'
<1> IInv /\ SupTypeOK /\ MgrTypeOK /\ ManagerInv BY DEF PInv, IInv
<1>1. pc[t] = "drop" /\ t # Main BY DEF NextDrop, ManagerInv, MuInv
<1>2. call[t].todo \in SUBSET Plugins /\ disk \in SUBSET Plugins /\ call[t].name \in Plugins
  BY DEF MgrTypeOK, CallType
<1>3. PICK l \in {"unload", "next"}, n \in Plugins, names \in SUBSET Plugins : With(t, l, n, names)
  <2>1. CASE \E n \in call[t].todo : With(t, "unload", n, call[t].todo \ {n})
    <3>1. PICK n \in call[t].todo : With(t, "unload", n, call[t].todo \ {n}) BY <2>1
    <3>2. n \in Plugins /\ call[t].todo \ {n} \in SUBSET Plugins BY <1>2
    <3> QED BY <3>1, <3>2
  <2> QED BY <1>2, <2>1 DEF NextDrop
<1>4. l \in Ctl BY DEF Ctl
<1>5. Moves(t, l) /\ call'[t].op = call[t].op BY <1>3, <1>4, WithMoves
<1>6. Quiet(t) BY <1>1 DEF Quiet
<1>7. Calm BY CalmRest DEF NextDrop, supVars, registry
<1>8. call[t].op # "shutdown" BY <1>1, NotShutdown
<1> QED BY <1>1, <1>4, <1>5, <1>6, <1>7, <1>8, QuietMove

\* What the steps of sup.stop() do to the slot that t is stopping.
LEMMA StoppingSlot ==
    ASSUME PInv, NEW t \in Threads, Stopping(t), NEW s, s = call[t].slot
    PROVE  /\ s \in Slots /\ mon[s] # "none" /\ ~Holding(t) /\ ~Loading(t)
           /\ \A u \in Threads \ {t} : Holding(u) \/ Stopping(u) => call[u].slot # s
           /\ \A n \in Plugins : supervisors[n] = s =>
                 t = Main /\ ShuttingDown /\ n \notin call[Main].todo /\ nameOf[s] = n
           /\ pc[t] = "close" => stop[s] = "no"
<1> ManagerInv BY DEF PInv
<1>1. s \in Slots BY DEF ManagerInv, WorkInv
<1>2. StopInv(t) BY DEF ManagerInv
<1>3. \A u \in Threads \ {t} : Holding(u) \/ Stopping(u) => call[u].slot # s
  BY <1>2 DEF ManagerInv, HeldInv, StopInv
<1>4. \A n \in Plugins : supervisors[n] = s => nameOf[s] = n
  BY <1>1, Constants DEF ManagerInv, MapInv
<1> QED BY <1>1, <1>2, <1>3, <1>4 DEF StopInv, Holding, Loading, Stopping

LEMMA StopMgrStep ==
    ASSUME PInv, NEW t \in Threads, CallStop(t) PROVE ManagerInv'
<1> IInv /\ SupTypeOK /\ MgrTypeOK /\ ManagerInv BY DEF PInv, IInv
<1>s. PICK s : s = call[t].slot OBVIOUS
<1>0. Stopping(t) /\ pc[t] \in {"close", "stopkill"} BY DEF CallStop, Stopping
<1>1. /\ s \in Slots /\ mon[s] # "none" /\ ~Holding(t) /\ ~Loading(t)
      /\ \A u \in Threads \ {t} : Holding(u) \/ Stopping(u) => call[u].slot # s
      /\ \A n \in Plugins : supervisors[n] = s =>
            t = Main /\ ShuttingDown /\ n \notin call[Main].todo /\ nameOf[s] = n
  BY <1>0, <1>s, StoppingSlot
<1>2. /\ UNCHANGED <<registry, launches, disk, res, exited>>
      /\ StopClose(s) \/ StopKill(s)
  BY <1>s DEF CallStop
<1>3. Moves(t, pc'[t]) /\ pc'[t] \in {"stopkill", "stopwait"} /\ call' = call
  <2>1. PICK l \in {"stopkill", "stopwait"} : Goto(t, l) BY DEF CallStop
  <2>2. l \in Ctl BY DEF Ctl
  <2>3. Moves(t, l) /\ call' = call BY <2>1, <2>2, GotoMoves
  <2> QED BY <2>3 DEF Moves
<1>4. /\ UNCHANGED <<mon, supervisors, mu, exited, nameOf, owner>>
      /\ \A r \in Slots \ {s} : stop'[r] = stop[r] /\ proc'[r] = proc[r]
  BY <1>1, <1>2 DEF StopClose, StopKill, Kill, registry, launches, SupTypeOK
<1>5. ~Holding(t)' /\ Stopping(t)' /\ pc'[t] # "close"
  BY <1>3 DEF Holding, Loading, Stopping
<1>6. PassesOn(t, s)
  <2>1. \A r \in Slots \ {s} : Running(r, 0)' => Running(r, 0) BY <1>4 DEF Running
  <2>2. \A n \in Plugins : /\ ~ShuttingDown' \/ n \in call'[Main].todo => ~ShuttingDown \/ n \in call[Main].todo
                           /\ ShuttingDown' /\ n \in call'[Main].todo => supervisors'[n] # NoSlot
    BY <1>3, <1>4 DEF ManagerInv, MapInv, ShuttingDown
  <2> QED BY <1>s, <1>1, <1>3, <1>4, <2>1, <2>2 DEF PassesOn, Moves
<1>7. WorkInv(t)' BY <1>s, <1>1, <1>3 DEF WorkInv
<1>8. HeldInv(t)' BY <1>5 DEF HeldInv
<1>9. StopInv(t)'
  <2>1. \A u \in Threads \ {t} : Stopping(u)' => call'[u].slot # s
    BY <1>1, <1>3 DEF Moves, OnlyThread, Stopping
  <2> QED BY <1>s, <1>1, <1>3, <1>4, <1>5, <2>1 DEF StopInv, ShuttingDown
<1>10. LaunchInv(s)' BY <1>1, <1>4 DEF LaunchInv
<1>11. \A n \in Plugins : supervisors'[n] = s => MapInv(n)'
  <2> SUFFICES ASSUME NEW n \in Plugins, supervisors'[n] = s PROVE MapInv(n)' OBVIOUS
  <2>1. ShuttingDown /\ n \notin call[Main].todo /\ nameOf[s] = n BY <1>1, <1>4
  <2>2. ShuttingDown' /\ n \notin call'[Main].todo BY <1>3, <2>1 DEF ShuttingDown
  <2> QED BY <1>1, <1>4, <2>1, <2>2 DEF MapInv
<1>12. MuInv' BY <1>0, <1>3, <1>4, MuKeeps DEF Moves
<1> QED BY <1>1, <1>6, <1>7, <1>8, <1>9, <1>10, <1>11, <1>12, PassStep

LEMMA ReturnMgrStep ==
    ASSUME PInv, NEW t \in Threads, StopCallReturns(t) PROVE ManagerInv'
<1> IInv /\ SupTypeOK /\ MgrTypeOK /\ ManagerInv BY DEF PInv, IInv
<1>s. PICK s : s = call[t].slot OBVIOUS
<1>0. Stopping(t) /\ pc[t] = "stopwait" BY DEF StopCallReturns, Stopping
<1>1. /\ s \in Slots /\ mon[s] # "none" /\ ~Holding(t) /\ ~Loading(t)
      /\ \A u \in Threads \ {t} : Holding(u) \/ Stopping(u) => call[u].slot # s
      /\ \A n \in Plugins : supervisors[n] = s =>
            t = Main /\ ShuttingDown /\ n \notin call[Main].todo /\ nameOf[s] = n
  BY <1>0, <1>s, StoppingSlot
<1>2. /\ stop' = [stop EXCEPT ![s] = "returned"] /\ stop[s] = "killed"
      /\ UNCHANGED <<proc, cur, reaped, mon, registry, launches, disk, exited>>
  BY <1>s DEF StopCallReturns
<1>3. Calm BY <1>1, <1>2 DEF Calm, Running, registry, launches, SupTypeOK
<1>4. CASE call[t].op # "shutdown"
  <2>1. UnloadReturns(t, "ok") BY <1>4 DEF StopCallReturns
  <2>2. t # Main BY <1>0, <1>4 DEF ManagerInv, MuInv, ShuttingDown
  <2> QED BY <1>1, <1>3, <2>1, <2>2, UnloadReturnsMgr
<1>5. CASE call[t].op = "shutdown"
  <2>1. Goto(t, "shutdown") BY <1>5 DEF StopCallReturns
  <2>2. Moves(t, "shutdown") /\ call' = call BY <2>1, GotoMoves DEF Ctl
  <2>3. t = Main BY <1>5 DEF ManagerInv, MuInv, Threads
  <2>4. UNCHANGED <<mon, supervisors, mu, exited, nameOf, owner>>
    BY <1>2 DEF registry, launches
  <2>5. ~Holding(t)' /\ ~Stopping(t)' /\ pc'[t] = "shutdown"
    BY <2>2 DEF Holding, Loading, Stopping, Moves
  <2>6. PassesOn(t, s)
    <3>1. \A n \in Plugins : /\ ~ShuttingDown' \/ n \in call'[Main].todo => ~ShuttingDown \/ n \in call[Main].todo
                             /\ ShuttingDown' /\ n \in call'[Main].todo => supervisors'[n] # NoSlot
      BY <2>2, <2>4 DEF ManagerInv, MapInv, ShuttingDown
    <3> QED BY <1>1, <1>3, <2>2, <2>4, <2>5, <3>1 DEF PassesOn, Moves, Calm
  <2>7. WorkInv(t)' /\ HeldInv(t)' /\ StopInv(t)' BY <2>5 DEF WorkInv, HeldInv, StopInv
  <2>8. LaunchInv(s)' BY <1>1, <2>4 DEF LaunchInv
  <2>9. \A n \in Plugins : supervisors'[n] = s => MapInv(n)'
    <3> SUFFICES ASSUME NEW n \in Plugins, supervisors'[n] = s PROVE MapInv(n)' OBVIOUS
    <3>1. ShuttingDown /\ n \notin call[Main].todo /\ nameOf[s] = n BY <1>1, <2>4
    <3>2. ShuttingDown' /\ n \notin call'[Main].todo BY <2>2, <3>1 DEF ShuttingDown
    <3> QED BY <1>1, <2>4, <3>1, <3>2 DEF MapInv
  <2>10. MuInv' BY <1>0, <2>2, <2>3, <2>4, <2>5, MuKeeps DEF Moves
  <2> QED BY <1>1, <2>6, <2>7, <2>8, <2>9, <2>10, PassStep
<1> QED BY <1>4, <1>5

LEMMA ShutdownMgrStep ==
    ASSUME PInv, ~exited, Shutdown \/ ShutdownNext \/ ShutdownDone PROVE ManagerInv'
<1> IInv /\ SupTypeOK /\ MgrTypeOK /\ ManagerInv BY DEF PInv, IInv
<1> Main \in Threads BY Constants
<1>1. CASE Shutdown
  <2>1. Enter(Main, "shutdown", "shutdown", AnyPlugin, {n \in Plugins : supervisors[n] # NoSlot})
    BY <1>1 DEF Shutdown
  <2>2. {n \in Plugins : supervisors[n] # NoSlot} \in SUBSET Plugins /\ "shutdown" \in Ctl BY DEF Ctl
  <2>3. /\ Moves(Main, "shutdown") /\ call'[Main].op = "shutdown"
        /\ call'[Main].todo = {n \in Plugins : supervisors[n] # NoSlot}
    BY <2>1, <2>2, Constants, EnterMoves
  <2>4. pc[Main] = "idle" /\ mu' = Main /\ UNCHANGED <<supVars, supervisors, launches, exited>>
    BY <1>1 DEF Shutdown, CanEnter
  <2>5. UNCHANGED <<proc, mon, stop, nameOf, owner>> BY <2>4 DEF supVars, launches
  <2>6. ~Holding(Main)' /\ ~Stopping(Main)' /\ pc'[Main] = "shutdown" /\ ~Loading(Main)
    BY <2>3, <2>4 DEF Holding, Loading, Stopping, Moves
  <2>7. ~ShuttingDown BY <2>4 DEF ManagerInv, MuInv
  <2>8. PassesOn(Main, NoSlot)
    <3>1. \A u \in Threads : Holding(u) \/ Stopping(u) => call[u].slot # NoSlot
      BY Constants DEF ManagerInv, WorkInv
    <3>2. \A r \in Slots : Running(r, 0)' => Running(r, 0) BY <2>5 DEF Running
    <3>3. \A n \in Plugins : 
            /\ ~ShuttingDown' \/ n \in call'[Main].todo => ~ShuttingDown \/ n \in call[Main].todo
            /\ ShuttingDown' /\ n \in call'[Main].todo => supervisors'[n] # NoSlot
      BY <2>3, <2>4, <2>7
    <3> QED BY <2>3, <2>4, <2>5, <2>6, <3>1, <3>2, <3>3 DEF PassesOn, Moves
  <2>9. WorkInv(Main)' /\ HeldInv(Main)' /\ StopInv(Main)' BY <2>6 DEF WorkInv, HeldInv, StopInv
  <2>10. MuInv'
    <3>1. \A t \in Callers : call'[t] = call[t] /\ pc'[t] = pc[t]
      BY <2>3, ManagerAssumption DEF Moves, OnlyThread, Threads
    <3> QED BY <2>3, <2>4, <2>6, <3>1 DEF ManagerInv, MuInv, ShuttingDown
  <2> QED BY <2>8, <2>9, <2>10, Constants, PassStep
<1>2. CASE ShutdownNext
  <2>1. PICK n \in call[Main].todo : 
          call' = [call EXCEPT ![Main].todo = @ \ {n}, ![Main].slot = supervisors[n]]
    BY <1>2 DEF ShutdownNext
  <2>2. call[Main] \in CallType /\ n \in Plugins BY <2>1 DEF MgrTypeOK, CallType
  <2>3. pc[Main] = "shutdown" /\ pc' = [pc EXCEPT ![Main] = "close"]
        /\ UNCHANGED <<supVars, registry, launches, exited>>
    BY <1>2 DEF ShutdownNext
  <2>4. ShuttingDown BY <2>3 DEF ManagerInv, MuInv
  <2>5. PICK s \in Slots : s = supervisors[n]
    BY <2>1, <2>2, <2>4 DEF ManagerInv, MapInv, MgrTypeOK
  <2>6. /\ call'[Main].slot = s /\ call'[Main].op = call[Main].op
        /\ call'[Main].todo = call[Main].todo \ {n}
        /\ \A u \in Threads \ {Main} : call'[u] = call[u] /\ pc'[u] = pc[u]
        /\ pc'[Main] = "close"
    BY <2>1, <2>2, <2>3, <2>5 DEF MgrTypeOK, CallType
  <2>7. UNCHANGED <<proc, mon, stop, nameOf, owner, supervisors, mu, exited>>
    BY <2>3 DEF supVars, launches, registry
  <2>8. mon[s] # "none" /\ stop[s] = "no" /\ nameOf[s] = n
    BY <2>1, <2>2, <2>5, Constants DEF ManagerInv, MapInv
  <2>9. \A u \in Threads : Holding(u) => call[u].slot # s BY <2>2, <2>5 DEF ManagerInv, HeldInv
  <2>10. \A u \in Threads : Stopping(u) => call[u].slot # s
    BY <2>1, <2>2, <2>5 DEF ManagerInv, StopInv
  <2>11. ~Holding(Main)' /\ Stopping(Main)' /\ ~Loading(Main)
    BY <2>3, <2>6 DEF Holding, Loading, Stopping
  <2>12. ShuttingDown' BY <2>4, <2>6 DEF ShuttingDown
  <2>13. PassesOn(Main, s)
    <3>1. \A r \in Slots : Running(r, 0)' => Running(r, 0) BY <2>7 DEF Running
    <3>2. \A m \in Plugins : 
            /\ ~ShuttingDown' \/ m \in call'[Main].todo => ~ShuttingDown \/ m \in call[Main].todo
            /\ ShuttingDown' /\ m \in call'[Main].todo => supervisors'[m] # NoSlot
      BY <2>4, <2>6, <2>7, <2>12 DEF ManagerInv, MapInv
    <3> QED BY <2>6, <2>7, <2>9, <2>10, <2>11, <3>1, <3>2 DEF PassesOn, OnlyThread
  <2>14. \A m \in Plugins : supervisors'[m] = s => m = n
    BY <2>5, <2>7, <2>8, Constants DEF ManagerInv, MapInv
  <2>15. WorkInv(Main)' /\ HeldInv(Main)' BY <2>6, <2>11 DEF WorkInv, HeldInv
  <2>16. StopInv(Main)'
    <3>1. \A u \in Threads \ {Main} : Stopping(u)' => call'[u].slot # s
      BY <2>6, <2>10 DEF Stopping
    <3> QED BY <2>6, <2>7, <2>8, <2>12, <2>14, <3>1 DEF StopInv
  <2>17. LaunchInv(s)' BY <2>7, <2>8 DEF LaunchInv
  <2>18. \A m \in Plugins : supervisors'[m] = s => MapInv(m)'
    BY <2>6, <2>7, <2>8, <2>12, <2>14, Constants DEF MapInv
  <2>19. MuInv'
    <3>1. OnlyThread(Main) BY <2>6 DEF OnlyThread
    <3> QED BY <2>3, <2>6, <2>7, <3>1, MuKeeps
  <2> QED BY <2>13, <2>15, <2>16, <2>17, <2>18, <2>19, PassStep
<1>3. CASE ShutdownDone
  <2>1. /\ pc[Main] = "shutdown" /\ call[Main].todo = {} /\ mu' = Free /\ exited' = TRUE
        /\ supervisors' = [n \in Plugins |-> NoSlot] /\ UNCHANGED <<supVars, launches>>
    BY <1>3 DEF ShutdownDone
  <2>2. Moves(Main, "exited") /\ call' = call BY <1>3, GotoMoves DEF ShutdownDone, Ctl
  <2>3. UNCHANGED <<proc, mon, stop, nameOf, owner>> BY <2>1 DEF supVars, launches
  <2>4. ~Holding(Main)' /\ ~Stopping(Main)' /\ pc'[Main] = "exited" /\ ~Loading(Main)
    BY <2>1, <2>2 DEF Holding, Loading, Stopping, Moves
  <2>5. ShuttingDown /\ ShuttingDown'
    BY <2>1, <2>2 DEF ManagerInv, MuInv, ShuttingDown
  <2>6. PassesOn(Main, NoSlot)
    <3>1. \A u \in Threads : Holding(u) \/ Stopping(u) => call[u].slot # NoSlot
      BY Constants DEF ManagerInv, WorkInv
    <3>2. \A r \in Slots : Running(r, 0)' => Running(r, 0) BY <2>3 DEF Running
    <3>3. \A n \in Plugins : 
            /\ ~ShuttingDown' \/ n \in call'[Main].todo => ~ShuttingDown \/ n \in call[Main].todo
            /\ ShuttingDown' /\ n \in call'[Main].todo => supervisors'[n] # NoSlot
      BY <2>1, <2>2, <2>5
    <3> QED BY <2>1, <2>2, <2>3, <2>4, <3>1, <3>2, <3>3 DEF PassesOn, Moves
  <2>7. WorkInv(Main)' /\ HeldInv(Main)' /\ StopInv(Main)' BY <2>4 DEF WorkInv, HeldInv, StopInv
  <2>8. MuInv'
    <3>1. \A t \in Callers : call'[t] = call[t] /\ pc'[t] = pc[t]
      BY <2>2, ManagerAssumption DEF Moves, OnlyThread, Threads
    <3> QED BY <2>1, <2>4, <2>5, <3>1 DEF ManagerInv, MuInv, ShuttingDown
  <2> QED BY <2>6, <2>7, <2>8, Constants, PassStep
<1> QED BY <1>1, <1>2, <1>3

LEMMA StepPInv == ASSUME PInv, [Next]_vars PROVE PInv'
<1> IInv /\ SupTypeOK /\ MgrTypeOK /\ ManagerInv /\ TypeOK BY TypeParts DEF PInv, IInv
<1>1. CASE Next
  <2>1. MgrTypeOK' BY <1>1, TypeStep
  <2>2. IInv' BY <1>1, SupStep
  <2>3. ASSUME LoadPlugins PROVE ManagerInv'
    <3>1. Enter(Main, "startup", "next", AnyPlugin, disk) BY <2>3 DEF LoadPlugins
    <3>2. disk \in SUBSET Plugins /\ "next" \in Ctl BY DEF MgrTypeOK, Ctl
    <3>3. Moves(Main, "next") /\ call'[Main].op = "startup"
      BY <3>1, <3>2, Constants, EnterMoves
    <3>4. Calm BY <2>3, CalmRest DEF LoadPlugins, supVars
    <3>5. Quiet(Main) BY <2>3 DEF LoadPlugins, Quiet
    <3> QED BY <3>2, <3>3, <3>4, <3>5, Constants, QuietMove
  <2>4. ASSUME EditDisk PROVE ManagerInv'
    <3>1. Calm /\ UNCHANGED <<pc, call>> BY <2>4, CalmRest DEF EditDisk, supVars, registry
    <3> QED BY <3>1, AllKeep
  <2>5. ASSUME NEW s \in Slots, Supervision(s) \/ Processes(s) PROVE ManagerInv'
    <3>1. UNCHANGED <<pc, call>> BY <2>5 DEF Supervision, Processes, mgrVars
    <3> QED BY <2>5, <3>1, CalmSupervision, AllKeep
  <2>6. ASSUME NEW t \in Threads, LoadSteps(t) PROVE ManagerInv'
    BY <2>6, LoadMgrStep, BuildMgrStep, AdoptMgrStep, SuperviseMgrStep DEF LoadSteps
  <2>7. ASSUME NEW t \in Threads, UnloadSteps(t) PROVE ManagerInv'
    <3>1. ~exited BY <1>1 DEF Next
    <3> QED BY <2>7, <3>1, UnregisterMgrStep, KillMgrStep, DropMgrStep, StopMgrStep, ReturnMgrStep
            DEF UnloadSteps
  <2>8. ASSUME Shutdown \/ ShutdownNext \/ ShutdownDone PROVE ManagerInv'
    <3>1. ~exited BY <1>1 DEF Next
    <3> QED BY <2>8, <3>1, ShutdownMgrStep
  <2>9. ASSUME NEW t \in Callers, Call(t) PROVE ManagerInv' BY <2>9, CallMgrStep
  <2>10. ManagerInv'
    BY <1>1, <2>3, <2>4, <2>5, <2>6, <2>7, <2>8, <2>9 DEF Next, DaemonStep
  <2> QED BY <2>1, <2>2, <2>10 DEF PInv
<1>2. CASE UNCHANGED vars
  <2>1. IInv' BY <1>2, StutterIInv DEF vars
  <2>2. MgrTypeOK' BY <1>2 DEF vars, mgrVars, registry, launches, MgrTypeOK
  <2>3. Calm /\ UNCHANGED <<pc, call>>
    BY <1>2, CalmRest DEF vars, mgrVars, registry, launches, supVars
  <2> QED BY <2>1, <2>2, <2>3, AllKeep DEF PInv
<1> QED BY <1>1, <1>2

LEMMA PInvHolds == Spec => []PInv
BY InitPInv, StepPInv, PTL DEF Spec

-------------------------------------------------------------------------------
\* No thread closes a stopCh twice, and no two threads stop the same supervisor,
\* whatever is in progress at the same time.
THEOREM StopOnceHolds == Spec => []StopOnce
<1>1. PInv => StopOnce
  <2> SUFFICES ASSUME PInv, NEW t \in Threads
               PROVE  /\ pc[t] = "close" => stop[call[t].slot] = "no"
                      /\ \A u \in Threads \ {t} : 
                            ~(Stopping(t) /\ Stopping(u) /\ call[t].slot = call[u].slot)
    BY DEF StopOnce, stopped, Stopping
  <2> QED BY DEF PInv, ManagerInv, StopInv, Stopping
<1> QED BY <1>1, PInvHolds, PTL

\* Every live plugin process is watched by a monitor or still in the hands of the
\* loadPlugin that started it, whatever is in progress at the same time.
THEOREM NoUnsupervisedProcessHolds == Spec => []NoUnsupervisedProcess
<1>1. PInv => NoUnsupervisedProcess
  <2> SUFFICES ASSUME PInv, NEW s \in Slots, NEW g \in Gens, Running(s, g), mon[s] \in {"none", "done"}
               PROVE  \E t \in Threads : Loading(t) /\ call[t].slot = s
    BY TypeParts DEF NoUnsupervisedProcess, PInv, IInv
  <2>1. SlotInv(s) /\ LaunchInv(s) /\ cur[s] \in Gens
    BY DEF PInv, IInv, SupInv, ManagerInv, SupTypeOK
  <2>2. mon[s] # "done" BY InvImplies DEF PInv, DoneMeansDead
  <2>3. cur[s] = 0 /\ NoSuccessor(s) BY <2>1, <2>2 DEF SlotInv
  <2>4. g = 0
    <3>1. g \in Nat BY SupervisorAssumption DEF Gens
    <3> QED BY <2>3, <3>1 DEF NoSuccessor, Running
  <2> QED BY <2>1, <2>2, <2>4 DEF LaunchInv
<1> QED BY <1>1, PInvHolds, PTL

-------------------------------------------------------------------------------
(* What the supervisors promise, and what the map of supervisors holds,    *)
(* whatever calls are in progress at the same time.                        *)

\* Under the manager a supervisor keeps what it promises on its own: it never has two
\* processes alive, its monitor leaves none behind, and after stop() none lives again.
THEOREM ManagedSupervisorsHold == Spec => [](OneLiveProcess /\ DoneMeansDead /\ DownAfterStop)
<1>1. PInv => OneLiveProcess /\ DoneMeansDead /\ DownAfterStop BY InvImplies DEF PInv
<1> QED BY <1>1, PInvHolds, PTL

\* What UnloadPlugin finds in the map: the supervisor is of the plugin of that name, has a
\* monitor, has not been stopped unless by Shutdown, and no other thread is loading or
\* stopping it.
SupervisorsAreLive ==
    \A n \in Plugins : LET s == supervisors[n] IN
        s # NoSlot /\ mu = Free /\ ~exited =>
            /\ nameOf[s] = n /\ mon[s] # "none" /\ ~stopped(s)
            /\ \A t \in Threads : Holding(t) \/ Stopping(t) => call[t].slot # s

\* What is in the map can be stopped, by whoever takes it out and nobody else, whatever
\* loads, unloads and reloads are in progress at the same time.
THEOREM SupervisorsAreLiveHolds == Spec => []SupervisorsAreLive
<1>1. PInv => SupervisorsAreLive
  <2> SUFFICES ASSUME PInv, NEW n \in Plugins, supervisors[n] # NoSlot, mu = Free, ~exited
               PROVE  LET s == supervisors[n] IN
                      /\ nameOf[s] = n /\ mon[s] # "none" /\ ~stopped(s)
                      /\ \A t \in Threads : Holding(t) \/ Stopping(t) => call[t].slot # s
    BY DEF SupervisorsAreLive
  <2>1. mu # Main BY Constants
  <2>2. ~ShuttingDown BY <2>1 DEF PInv, ManagerInv, MuInv
  <2>3. nameOf[supervisors[n]] = n /\ mon[supervisors[n]] # "none" /\ ~stopped(supervisors[n])
    BY <2>2 DEF PInv, ManagerInv, MapInv, stopped
  <2>4. ASSUME NEW t \in Threads, Holding(t) \/ Stopping(t) PROVE call[t].slot # supervisors[n]
    BY <2>2, <2>4 DEF PInv, ManagerInv, HeldInv, StopInv
  <2> QED BY <2>3, <2>4
<1> QED BY <1>1, PInvHolds, PTL

-------------------------------------------------------------------------------
(* Shutdown, while other calls go on.                                      *)

\* Shutdown has ended the monitors that its loop has left behind.
DownInv ==
    ShuttingDown => \A n \in Plugins : supervisors[n] # NoSlot =>
        \/ n \in call[Main].todo
        \/ Stopping(Main) /\ call[Main].slot = supervisors[n]
        \/ mon[supervisors[n]] = "done"

DoneStays == \A s \in Slots : mon[s] = "done" => mon'[s] = "done"

\* The steps that are not the loop of Shutdown.
OtherStep ==
    \/ LoadPlugins \/ EditDisk
    \/ \E t \in Threads : LoadSteps(t) \/ UnloadSteps(t)
    \/ \E t \in Callers : Call(t)
    \/ \E s \in Slots : Supervision(s) \/ Processes(s)

LEMMA StepDoneStays == ASSUME PInv, OtherStep PROVE DoneStays
<1> SupTypeOK BY DEF PInv, IInv
<1>1. ASSUME NEW t \in Threads, LoadSteps(t) PROVE DoneStays
  <2>1. CASE Adopt(t) BY <2>1 DEF Adopt, startAdopt, DoneStays, SupTypeOK
  <2>2. CASE ~Adopt(t)
    <3>1. UNCHANGED mon
      BY <1>1, <2>2 DEF LoadSteps, NextPlugin, LoopDone, CacheDeps, BuildAndStart, Start, Handshake,
                        Register, Supervise, GetPlugin, supVars
    <3> QED BY <3>1 DEF DoneStays
  <2> QED BY <2>1, <2>2
<1>2. ASSUME NEW t \in Threads, UnloadSteps(t) PROVE DoneStays
  <2>1. UNCHANGED mon
    BY <1>2 DEF UnloadSteps, Unregister, KillUnsupervised, NextDrop, CallStop, StopClose, StopKill,
                StopCallReturns, supVars
  <2> QED BY <2>1 DEF DoneStays
<1>3. ASSUME NEW t \in Callers, Call(t) PROVE DoneStays
  <2>1. UNCHANGED mon
    BY <1>3 DEF Call, LoadPluginByName, UnloadPluginByName, ReloadPlugins, CancelRequest, supVars
  <2> QED BY <2>1 DEF DoneStays
<1>4. ASSUME NEW s \in Slots, Supervision(s) \/ Processes(s) PROVE DoneStays
  <2>1. CASE Supervision(s)
    <3>1. Monitor(s) BY <2>1 DEF Supervision
    <3>2. mon[s] # "done" /\ \A r \in Slots \ {s} : mon'[r] = mon[r]
      BY <3>1 DEF Monitor, MonitorWait, MonitorBackoff, rebuild, LaunchStart, LaunchFinish, SupTypeOK
    <3> QED BY <3>2 DEF DoneStays
  <2>2. CASE Processes(s) BY <2>2 DEF Processes, Exit, ContextKill, DoneStays
  <2> QED BY <1>4, <2>1, <2>2
<1>5. CASE LoadPlugins \/ EditDisk BY <1>5 DEF LoadPlugins, EditDisk, supVars, DoneStays
<1> QED BY <1>1, <1>2, <1>3, <1>4, <1>5 DEF OtherStep

\* While Shutdown holds mu, the map stays as it is.
LEMMA MapRests == ASSUME PInv, ShuttingDown, ~exited, OtherStep PROVE UNCHANGED supervisors
<1>1. mu = Main /\ mu # Free /\ pc[Main] \in {"shutdown", "close", "stopkill", "stopwait", "exited"}
  BY Constants DEF PInv, ManagerInv, MuInv
<1>2. ASSUME NEW t \in Threads, LoadSteps(t) PROVE UNCHANGED supervisors
  BY <1>1, <1>2 DEF LoadSteps, NextPlugin, LoopDone, CacheDeps, BuildAndStart, Handshake, Register,
                    Adopt, Supervise, GetPlugin, registry
<1>3. ASSUME NEW t \in Threads, UnloadSteps(t) PROVE UNCHANGED supervisors
  BY <1>1, <1>3 DEF UnloadSteps, Unregister, KillUnsupervised, NextDrop, CallStop, StopCallReturns,
                    registry
<1>4. ASSUME NEW t \in Callers, Call(t) PROVE UNCHANGED supervisors
  BY <1>4 DEF Call, LoadPluginByName, UnloadPluginByName, ReloadPlugins, CancelRequest, registry
<1>5. ASSUME NEW s \in Slots, Supervision(s) \/ Processes(s) PROVE UNCHANGED supervisors
  BY <1>5 DEF Supervision, Processes, mgrVars, registry
<1>6. CASE LoadPlugins \/ EditDisk BY <1>6 DEF LoadPlugins, EditDisk, registry
<1> QED BY <1>2, <1>3, <1>4, <1>5, <1>6 DEF OtherStep

\* Nor does anything but its own calls of stop move the thread in it.
MainRests == pc'[Main] = pc[Main] /\ call'[Main] = call[Main]

LEMMA MainMoves ==
    ASSUME PInv, ShuttingDown, ~exited, OtherStep
    PROVE  MainRests \/ CallStop(Main) \/ StopCallReturns(Main)
<1> Main \in Threads BY Constants
<1> pc \in [Threads -> Ctl] /\ call \in [Threads -> CallType] BY DEF PInv, MgrTypeOK
<1>1. pc[Main] \in {"shutdown", "close", "stopkill", "stopwait", "exited"} /\ Main \notin Callers
  BY ManagerAssumption DEF PInv, ManagerInv, MuInv
<1>2. ASSUME NEW t \in Threads \ {Main}, LoadSteps(t) PROVE MainRests
  <2>1. CASE NextPlugin(t) \/ LoopDone(t)
    BY <2>1 DEF NextPlugin, LoopDone, Return, With, MainRests
  <2>2. CASE BuildAndStart(t)
    BY <2>2 DEF BuildAndStart, LoadFailed, Return, Goto, MainRests
  <2>3. CASE Handshake(t) BY <2>3 DEF Handshake, LoadFailed, Return, Goto, MainRests
  <2>4. CASE CacheDeps(t) \/ Register(t) \/ Adopt(t) \/ Supervise(t)
    BY <2>4 DEF CacheDeps, Register, Adopt, Supervise, Goto, MainRests
  <2>5. CASE GetPlugin(t) BY <2>5 DEF GetPlugin, Return, Goto, MainRests
  <2> QED BY <1>2, <2>1, <2>2, <2>3, <2>4, <2>5 DEF LoadSteps
<1>3. ASSUME LoadSteps(Main) PROVE FALSE
  BY <1>1, <1>3 DEF LoadSteps, NextPlugin, LoopDone, CacheDeps, BuildAndStart, Handshake, Register,
                    Adopt, Supervise, GetPlugin
<1>4. ASSUME NEW t \in Threads \ {Main}, UnloadSteps(t) PROVE MainRests
  <2>1. CASE Unregister(t)
    BY <2>1 DEF Unregister, UnloadReturns, Release, Return, Goto, With, MainRests
  <2>2. CASE KillUnsupervised(t) \/ NextDrop(t)
    BY <2>2 DEF KillUnsupervised, NextDrop, UnloadReturns, Return, Goto, With, MainRests
  <2>3. CASE CallStop(t) BY <2>3 DEF CallStop, Goto, MainRests
  <2>4. CASE StopCallReturns(t)
    BY <2>4 DEF StopCallReturns, UnloadReturns, Return, Goto, MainRests
  <2> QED BY <1>4, <2>1, <2>2, <2>3, <2>4 DEF UnloadSteps
<1>5. ASSUME UnloadSteps(Main) PROVE CallStop(Main) \/ StopCallReturns(Main)
  BY <1>1, <1>5 DEF UnloadSteps, Unregister, KillUnsupervised, NextDrop
<1>6. ASSUME NEW t \in Callers, Call(t) PROVE MainRests
  <2>1. t # Main /\ t \in Threads BY <1>1 DEF Threads
  <2>2. CASE ReloadPlugins(t) \/ CancelRequest(t)
    BY <2>1, <2>2 DEF ReloadPlugins, CancelRequest, Enter, MainRests
  <2>3. ASSUME NEW n \in Plugins, LoadPluginByName(t, n) \/ UnloadPluginByName(t, n) PROVE MainRests
    BY <2>1, <2>3 DEF LoadPluginByName, UnloadPluginByName, Enter, MainRests
  <2> QED BY <1>6, <2>2, <2>3 DEF Call
<1>7. ASSUME NEW s \in Slots, Supervision(s) \/ Processes(s) PROVE MainRests
  BY <1>7 DEF Supervision, Processes, mgrVars, MainRests
<1>8. ASSUME EditDisk PROVE MainRests BY <1>8 DEF EditDisk, MainRests
<1>9. ASSUME LoadPlugins PROVE FALSE BY <1>1, <1>9 DEF LoadPlugins
<1> QED BY <1>2, <1>3, <1>4, <1>5, <1>6, <1>7, <1>8, <1>9 DEF OtherStep

\* Only Shutdown takes mu and keeps it.
LEMMA MuRests == ASSUME OtherStep PROVE UNCHANGED <<mu, exited>>
<1>1. ASSUME NEW t \in Threads, LoadSteps(t) PROVE UNCHANGED <<mu, exited>>
  BY <1>1 DEF LoadSteps, NextPlugin, LoopDone, CacheDeps, BuildAndStart, Handshake, Register, Adopt,
              Supervise, GetPlugin, registry
<1>2. ASSUME NEW t \in Threads, UnloadSteps(t) PROVE UNCHANGED <<mu, exited>>
  BY <1>2 DEF UnloadSteps, Unregister, KillUnsupervised, NextDrop, CallStop, StopCallReturns, registry
<1>3. ASSUME NEW t \in Callers, Call(t) PROVE UNCHANGED <<mu, exited>>
  BY <1>3 DEF Call, LoadPluginByName, UnloadPluginByName, ReloadPlugins, CancelRequest, registry
<1>4. ASSUME NEW s \in Slots, Supervision(s) \/ Processes(s) PROVE UNCHANGED <<mu, exited>>
  BY <1>4 DEF Supervision, Processes, mgrVars, registry
<1>5. CASE LoadPlugins \/ EditDisk BY <1>5 DEF LoadPlugins, EditDisk, registry
<1> QED BY <1>1, <1>2, <1>3, <1>4, <1>5 DEF OtherStep

LEMMA StepDown == ASSUME PInv, DownInv, [Next]_vars PROVE DownInv'
<1> MgrTypeOK BY DEF PInv
<1> Main \in Threads BY Constants
<1>0. \A n \in Plugins : supervisors[n] \in Slots \cup {NoSlot} BY DEF MgrTypeOK
<1>1. CASE Shutdown
  <2>1. Enter(Main, "shutdown", "shutdown", AnyPlugin, {n \in Plugins : supervisors[n] # NoSlot})
        /\ UNCHANGED supervisors
    BY <1>1 DEF Shutdown
  <2>2. {n \in Plugins : supervisors[n] # NoSlot} \in SUBSET Plugins /\ "shutdown" \in Ctl BY DEF Ctl
  <2>3. call'[Main].todo = {n \in Plugins : supervisors[n] # NoSlot}
    BY <2>1, <2>2, Constants, EnterMoves
  <2> QED BY <2>1, <2>3 DEF DownInv
<1>2. CASE ShutdownNext
  <2>1. PICK n \in call[Main].todo :
          call' = [call EXCEPT ![Main].todo = @ \ {n}, ![Main].slot = supervisors[n]]
    BY <1>2 DEF ShutdownNext
  <2>2. call[Main] \in CallType BY DEF MgrTypeOK
  <2>3. /\ pc[Main] = "shutdown" /\ pc' = [pc EXCEPT ![Main] = "close"]
        /\ UNCHANGED <<mon, supervisors>>
    BY <1>2 DEF ShutdownNext, supVars, registry
  <2>4. /\ call'[Main].slot = supervisors[n] /\ call'[Main].todo = call[Main].todo \ {n}
        /\ pc'[Main] = "close" /\ call'[Main].op = call[Main].op
    BY <2>1, <2>2, <2>3 DEF MgrTypeOK, CallType
  <2>5. ~Stopping(Main) /\ Stopping(Main)' /\ (ShuttingDown' <=> ShuttingDown)
    BY <2>3, <2>4 DEF Stopping, ShuttingDown
  <2> QED BY <2>3, <2>4, <2>5 DEF DownInv
<1>3. CASE ShutdownDone BY <1>3 DEF ShutdownDone, DownInv
<1>4. CASE OtherStep /\ ~exited /\ ~ShuttingDown
  <2>1. mu # Main BY <1>4 DEF PInv, ManagerInv, MuInv
  <2>2. mu' # Main /\ ~exited' BY <1>4, <2>1, MuRests
  <2>3. MuInv' BY StepPInv DEF PInv, ManagerInv
  <2>4. ~ShuttingDown' BY <2>2, <2>3 DEF MuInv
  <2> QED BY <2>4 DEF DownInv
<1>5. CASE OtherStep /\ ~exited /\ ShuttingDown
  <2>1. DoneStays /\ UNCHANGED supervisors BY <1>5, StepDoneStays, MapRests
  <2>2. \A n \in Plugins : supervisors[n] # NoSlot /\ mon[supervisors[n]] = "done" =>
           mon'[supervisors[n]] = "done"
    BY <1>0, <2>1 DEF DoneStays
  <2>3. CASE MainRests
    <3>1. Stopping(Main)' <=> Stopping(Main) BY <2>3 DEF MainRests, Stopping
    <3> QED BY <1>5, <2>1, <2>2, <2>3, <3>1 DEF DownInv, MainRests
  <2>4. CASE CallStop(Main)
    <3>1. call' = call /\ Stopping(Main)'
      BY <2>4 DEF CallStop, Goto, Stopping, MgrTypeOK
    <3> QED BY <1>5, <2>1, <2>2, <3>1 DEF DownInv
  <2>5. CASE StopCallReturns(Main)
    <3>1. /\ mon[call[Main].slot] = "done" /\ call' = call
      BY <1>5, <2>5 DEF StopCallReturns, Goto, ShuttingDown
    <3>2. \A n \in Plugins : supervisors[n] # NoSlot => n \in call[Main].todo \/ mon[supervisors[n]] = "done"
      BY <1>5, <3>1 DEF DownInv
    <3> QED BY <2>1, <2>2, <3>1, <3>2 DEF DownInv
  <2> QED BY <1>5, <2>3, <2>4, <2>5, MainMoves
<1>6. CASE UNCHANGED vars
  <2>1. UNCHANGED <<pc, call, supervisors, mon>> BY <1>6 DEF vars, mgrVars, registry, supVars
  <2> QED BY <2>1 DEF DownInv, ShuttingDown, Stopping
<1> QED BY <1>1, <1>2, <1>3, <1>4, <1>5, <1>6 DEF Next, DaemonStep, OtherStep

LEMMA DownInvHolds == Spec => [](PInv /\ DownInv)
<1>1. Init => PInv /\ DownInv
  <2>1. Init => ~ShuttingDown BY Constants DEF Init, ShuttingDown, NoCall
  <2> QED BY <2>1, InitPInv DEF DownInv
<1>2. PInv /\ DownInv /\ [Next]_vars => (PInv /\ DownInv)' BY StepPInv, StepDown
<1> QED BY <1>1, <1>2, PTL DEF Spec

\* When the daemon exits no process is alive of a supervisor that is in the map: whatever
\* loads and unloads go on beside Shutdown, its loop has stopped each of them.
THEOREM ShutdownKillsAllHolds == Spec => ShutdownKillsAll
<1> DEFINE Kills ==
      exited' /\ ~exited =>
          \A s \in Slots : (\E n \in Plugins : supervisors[n] = s) => \A g \in Gens : ~Running(s, g)'
<1>1. PInv /\ DownInv /\ [Next]_vars => [Kills]_vars
  <2> SUFFICES ASSUME PInv, DownInv, Next, exited', ~exited,
                      NEW n \in Plugins, NEW s \in Slots, supervisors[n] = s, NEW g \in Gens
               PROVE  ~Running(s, g)'
    OBVIOUS
  <2>1. ShutdownDone
    <3>1. ~OtherStep BY MuRests
    <3> QED BY <3>1 DEF Next, DaemonStep, OtherStep, Shutdown, ShutdownNext
  <2>2. pc[Main] = "shutdown" /\ call[Main].todo = {} /\ proc' = proc
    BY <2>1 DEF ShutdownDone, supVars
  <2>3. ShuttingDown /\ ~Stopping(Main) BY <2>2 DEF PInv, ManagerInv, MuInv, Stopping
  <2>4. mon[s] = "done" BY <2>2, <2>3, Constants DEF DownInv
  <2> QED BY <2>2, <2>4, InvImplies DEF PInv, DoneMeansDead, Running
<1>2. Spec => [][Kills]_vars BY <1>1, DownInvHolds, PTL DEF Spec
<1> QED BY <1>2 DEF ShutdownKillsAll
===============================================================================
