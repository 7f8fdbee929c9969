------------------------------ MODULE Supervisor ------------------------------
(***************************************************************************)
(* The plugin supervisor (dotfilesd/internal/pkg/plugin/supervisor.go).    *)
(*                                                                         *)
(* A slot is one launch of a plugin by the manager together with the       *)
(* supervisor that adopts it.  The operating-system processes of a slot    *)
(* are numbered by generation: generation 0 is the process the manager     *)
(* started, generation g + 1 the g-th relaunch by the monitor goroutine.   *)
(* A generation also stands for the URL of that process's handshake.       *)
(***************************************************************************)
EXTENDS Naturals

CONSTANTS Slots,    \* launches of plugins by the manager
          MaxGen,   \* bound on the relaunches of one slot
          Faults    \* which fallible steps of which slot may fail: go build,
                    \* process start and handshake, the caller's context

ASSUME SupervisorAssumption ==
    /\ MaxGen \in Nat
    /\ Faults \subseteq Slots \X {"build", "launch", "ctx"}

Fails(s, step) == <<s, step>> \in Faults

VARIABLES
    proc,      \* proc[s][g]: the state of generation g of slot s
    cur,       \* supervisor.process (and .url): the generation it supervises
    reaped,    \* slots for whose process cur[s] Wait() has already returned
    mon,       \* control state of the monitor goroutine
    stop,      \* progress of stop(): stopCh is closed unless it is "no"
    ctxDone    \* slots whose context, the one handed to startAdopt, is done

supVars == <<proc, cur, reaped, mon, stop, ctxDone>>

Gens == 0 .. MaxGen

ProcState == {"none", "running", "ok", "crashed", "killed"}
MonState  == {"none", "wait", "backoff", "rebuild", "launch", "handshake", "done"}
StopState == {"no", "closed", "killed", "returned"}

SupInit ==
    /\ proc = [s \in Slots |-> [g \in Gens |-> "none"]]
    /\ cur = [s \in Slots |-> 0]
    /\ reaped = {}
    /\ mon = [s \in Slots |-> "none"]
    /\ stop = [s \in Slots |-> "no"]
    /\ ctxDone = {}

Running(s, g) == proc[s][g] = "running"

\* os.Process.Kill: no effect on a process that has already exited.
Kill(s, g) == [proc EXCEPT ![s][g] = IF @ = "running" THEN "killed" ELSE @]

stopped(s) == stop[s] # "no"

-------------------------------------------------------------------------------
(* The processes, and the context's owner: the environment.                *)

\* exec.Cmd.Start of generation 0, by the manager.
Start(s) ==
    /\ proc[s][0] = "none"
    /\ proc' = [proc EXCEPT ![s][0] = "running"]
    /\ UNCHANGED <<cur, reaped, mon, stop, ctxDone>>

\* A plugin process exits by itself; to do so before its handshake is one of the
\* launch failures.  A crash is explored only while a further generation is left
\* to relaunch.
Exit(s, g) ==
    /\ Running(s, g)
    /\ g > cur[s] => Fails(s, "launch")
    /\ \E st \in {"ok", "crashed"} :
          /\ st = "crashed" => g < MaxGen
          /\ proc' = [proc EXCEPT ![s][g] = st]
    /\ UNCHANGED <<cur, reaped, mon, stop, ctxDone>>

\* exec.CommandContext: a process that launch() started is killed once the
\* context is done.  Generation 0 is a plain exec.Command and is not.
ContextKill(s, g) ==
    /\ g > 0
    /\ s \in ctxDone
    /\ Running(s, g)
    /\ proc' = Kill(s, g)
    /\ UNCHANGED <<cur, reaped, mon, stop, ctxDone>>

\* The context given to startAdopt is cancelled or times out.
ContextDone(s) ==
    /\ Fails(s, "ctx")
    /\ mon[s] # "none"
    /\ s \notin ctxDone
    /\ ctxDone' = ctxDone \cup {s}
    /\ UNCHANGED <<proc, cur, reaped, mon, stop>>

-------------------------------------------------------------------------------
(* The supervisor.                                                         *)

\* Mutant of startAdopt: the process is not stored, the supervisor has none.
AdoptsNoProcess(s) ==
    /\ mon[s] = "none"
    /\ proc[s][0] # "none"
    /\ cur' = [cur EXCEPT ![s] = MaxGen + 1]
    /\ mon' = [mon EXCEPT ![s] = "wait"]
    /\ UNCHANGED <<proc, reaped, stop, ctxDone>>

startAdopt(s) ==
    /\ mon[s] = "none"
    /\ proc[s][0] # "none"
    /\ mon' = [mon EXCEPT ![s] = "wait"]
    /\ UNCHANGED <<proc, cur, reaped, stop, ctxDone>>

\* Mutant of Crashed: ps.Success() is not looked at.
CrashedOnAnyExit(s) == ~stopped(s) /\ s \notin ctxDone /\ s \notin reaped

\* Wait returned a crash that the loop answers with a relaunch.  Waiting again
\* for a process that was already reaped fails, and is taken for a clean exit.
Crashed(s) ==
    /\ ~stopped(s)
    /\ s \notin ctxDone
    /\ s \notin reaped
    /\ proc[s][cur[s]] # "ok"

\* Mutant of MonitorWait: does not wait for the process.
MonitorPolls(s) ==
    /\ mon[s] = "wait"
    /\ reaped' = reaped \cup {s}
    /\ mon' = [mon EXCEPT ![s] = IF Crashed(s) THEN "backoff" ELSE "done"]
    /\ UNCHANGED <<proc, cur, stop, ctxDone>>

MonitorWait(s) ==
    /\ mon[s] = "wait"
    /\ ~Running(s, cur[s])
    /\ reaped' = reaped \cup {s}
    /\ mon' = [mon EXCEPT ![s] = IF Crashed(s) THEN "backoff" ELSE "done"]
    /\ UNCHANGED <<proc, cur, stop, ctxDone>>

\* select on stopCh and the backoff timer; the context is not looked at.
MonitorBackoff(s) ==
    /\ mon[s] = "backoff"
    /\ mon' = [mon EXCEPT ![s] = IF stopped(s) THEN "done" ELSE "rebuild"]
    /\ UNCHANGED <<proc, cur, reaped, stop, ctxDone>>

rebuild(s) ==
    /\ mon[s] = "rebuild"
    /\ \/ mon' = [mon EXCEPT ![s] = "launch"]
       \/ /\ Fails(s, "build")
          /\ mon' = [mon EXCEPT ![s] = "wait"]
    /\ UNCHANGED <<proc, cur, reaped, stop, ctxDone>>

\* launch(), up to Start.  Start fails at once under a context that is done.
LaunchStart(s) ==
    /\ mon[s] = "launch"
    /\ \/ /\ s \notin ctxDone
          /\ cur[s] < MaxGen
          /\ proc' = [proc EXCEPT ![s][cur[s] + 1] = "running"]
          /\ mon' = [mon EXCEPT ![s] = "handshake"]
       \/ /\ s \in ctxDone \/ Fails(s, "launch")
          /\ mon' = [mon EXCEPT ![s] = "wait"]
          /\ UNCHANGED proc
    /\ UNCHANGED <<cur, reaped, stop, ctxDone>>

\* Mutants of LaunchFinish: a failed launch leaves its process alive; the new
\* process is not stored in the supervisor.
LaunchFailureLeaks(s) ==
    /\ mon[s] = "handshake"
    /\ mon' = [mon EXCEPT ![s] = "wait"]
    /\ UNCHANGED <<proc, cur, reaped, stop, ctxDone>>

LaunchForgetsProcess(s) ==
    /\ mon[s] = "handshake"
    /\ mon' = [mon EXCEPT ![s] = "wait"]
    /\ \/ Running(s, cur[s] + 1) /\ UNCHANGED proc
       \/ ~Running(s, cur[s] + 1) /\ proc' = Kill(s, cur[s] + 1)
    /\ UNCHANGED <<cur, reaped, stop, ctxDone>>

\* launch(), from the handshake to service discovery, and the update of the
\* supervisor's state by monitor.  Every failure kills the new process.
LaunchFinish(s) ==
    /\ mon[s] = "handshake"
    /\ mon' = [mon EXCEPT ![s] = "wait"]
    /\ \/ /\ Running(s, cur[s] + 1)
          /\ s \notin ctxDone
          /\ cur' = [cur EXCEPT ![s] = @ + 1]
          /\ reaped' = reaped \ {s}
          /\ UNCHANGED proc
       \/ /\ s \in ctxDone \/ ~Running(s, cur[s] + 1) \/ Fails(s, "launch")
          /\ proc' = Kill(s, cur[s] + 1)
          /\ UNCHANGED <<cur, reaped>>
    /\ UNCHANGED <<stop, ctxDone>>

Monitor(s) ==
    \/ MonitorWait(s)
    \/ MonitorBackoff(s)
    \/ rebuild(s)
    \/ LaunchStart(s)
    \/ LaunchFinish(s)

-------------------------------------------------------------------------------
(* stop(): close(stopCh), kill the process it reads, wait for the monitor. *)

StopClose(s) ==
    /\ stop' = [stop EXCEPT ![s] = "closed"]
    /\ UNCHANGED <<proc, cur, reaped, mon, ctxDone>>

StopKill(s) ==
    /\ stop[s] = "closed"
    /\ proc' = Kill(s, cur[s])
    /\ stop' = [stop EXCEPT ![s] = "killed"]
    /\ UNCHANGED <<cur, reaped, mon, ctxDone>>

\* Mutant of StopReturn: no wg.Wait().
StopReturnsEarly(s) ==
    /\ stop[s] = "killed"
    /\ stop' = [stop EXCEPT ![s] = "returned"]
    /\ UNCHANGED <<proc, cur, reaped, mon, ctxDone>>

StopReturn(s) ==
    /\ stop[s] = "killed"
    /\ mon[s] = "done"
    /\ stop' = [stop EXCEPT ![s] = "returned"]
    /\ UNCHANGED <<proc, cur, reaped, mon, ctxDone>>

-------------------------------------------------------------------------------
(* A supervisor on its own: its owner adopts a process and stops it once.  *)

OwnerStop(s) ==
    \/ mon[s] # "none" /\ ~stopped(s) /\ StopClose(s)
    \/ StopKill(s)
    \/ StopReturn(s)

SupNext ==
    \E s \in Slots :
        \/ Start(s)
        \/ startAdopt(s)
        \/ ContextDone(s)
        \/ \E g \in Gens : Exit(s, g) \/ ContextKill(s, g)
        \/ Monitor(s)
        \/ OwnerStop(s)

\* The monitor goroutine and the goroutine inside stop() keep being scheduled,
\* and the backoff timer fires.  Nothing obliges a process to exit or an owner
\* to call stop.
SupFairness ==
    \A s \in Slots : /\ WF_supVars(Monitor(s))
                     /\ WF_supVars(StopKill(s))
                     /\ WF_supVars(StopReturn(s))

SupSpec == SupInit /\ [][SupNext]_supVars /\ SupFairness

-------------------------------------------------------------------------------
(* The promise: what the slot looks like to somebody who cares only whether *)
(* the plugin is there.                                                    *)

Live(s) == {g \in Gens : Running(s, g)}

Phase(s) ==
    IF proc[s][0] = "none" THEN "none"
    ELSE IF Live(s) # {} THEN IF \E g \in Gens : Live(s) = {g} THEN "up" ELSE "twice"
    ELSE IF mon[s] = "done" \/ \E g \in Gens : proc[s][g] = "ok" THEN "over"
    ELSE "down"

phases == [s \in Slots |-> Phase(s)]

Service == INSTANCE PluginService WITH instance <- phases

\* The supervisor implements PluginService: whatever its goroutines, processes
\* and failures do, the plugin goes from up to down and back, has never two
\* instances, and what is over, by a clean exit or the monitor's end, stays over.
ImplementsService == Service!Spec

-------------------------------------------------------------------------------
(* Properties.                                                             *)

\* Every variable has its type.
SupTypeOK ==
    /\ proc \in [Slots -> [Gens -> ProcState]]
    /\ cur \in [Slots -> Gens]
    /\ reaped \subseteq Slots
    /\ mon \in [Slots -> MonState]
    /\ stop \in [Slots -> StopState]
    /\ ctxDone \subseteq Slots

Retrying(s) == mon[s] \in {"backoff", "rebuild", "launch", "handshake"}

\* No process of the slot has been started after the one it supervises.
NoSuccessor(s) == \A g \in Gens : g > cur[s] => proc[s][g] = "none"

\* The bookkeeping of the monitor, inductive over its steps: generations before
\* the supervised one are dead and never exited cleanly, at most one is started
\* after it, that one lives only during the handshake and only once the
\* supervised one has been reaped, and nothing lives when the monitor has ended.
SlotInv(s) ==
    /\ proc[s][cur[s]] = "none" => mon[s] = "none"
    /\ mon[s] = "none" => cur[s] = 0
    /\ mon[s] = "handshake" => cur[s] < MaxGen
    /\ \A g \in Gens : g < cur[s] => proc[s][g] \in {"crashed", "killed"}
    /\ \A g \in Gens : g > cur[s] + 1 => proc[s][g] = "none"
    /\ Retrying(s) => s \in reaped /\ proc[s][cur[s]] \in {"crashed", "killed"}
    /\ mon[s] \in {"none", "backoff", "rebuild", "launch"} => NoSuccessor(s)
    /\ mon[s] = "wait" /\ s \notin reaped => NoSuccessor(s)
    /\ mon[s] \in {"wait", "done"} => \A g \in Gens : g > cur[s] => ~Running(s, g)
    /\ mon[s] = "done" => ~Running(s, cur[s])
    /\ stop[s] = "returned" => mon[s] = "done"

SupInv == \A s \in Slots : SlotInv(s)

\* A supervisor never has two plugin processes alive: the monitor relaunches
\* only once the process it supervises is gone, whatever exits, kills and
\* failed launches happen in between.
OneLiveProcess ==
    \A s \in Slots : \A g, h \in Gens : Running(s, g) /\ Running(s, h) => g = h

\* When the monitor goroutine has ended, for whatever reason, no process it or
\* the manager launched for the slot is left behind alive: each failure path of
\* launch() kills what it started.
DoneMeansDead ==
    \A s \in Slots : mon[s] = "done" => \A g \in Gens : ~Running(s, g)

\* Once stop() has returned the plugin stays down: no later step of a monitor,
\* a timer or a relaunch brings a process of the slot to life again.
DownAfterStop ==
    \A s \in Slots :
        stop[s] = "returned" => mon[s] = "done" /\ \A g \in Gens : ~Running(s, g)

\* supervisor.go, monitor: a clean exit is final.  No generation follows one
\* that exited with code 0.
CleanExitIsFinal ==
    [][\A s \in Slots : \A g \in Gens :
          proc[s][g] = "none" /\ proc'[s][g] = "running"
              => \A h \in Gens : proc[s][h] # "ok"]_supVars

\* A crash under a live context, where builds and launches succeed, is answered:
\* the plugin runs again unless stop() or the context intervenes.
CrashIsAnswered ==
    \A s \in {r \in Slots : ~Fails(r, "build") /\ ~Fails(r, "launch")} :
        (mon[s] = "wait" /\ proc[s][cur[s]] = "crashed" /\ s \notin reaped)
            ~> (Running(s, cur[s]) \/ stopped(s) \/ s \in ctxDone
                \/ \E g \in Gens : proc[s][g] = "ok")

===============================================================================
