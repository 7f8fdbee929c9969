---------------------------- MODULE PluginManager ----------------------------
(***************************************************************************)
(* The plugin manager (dotfilesd/internal/pkg/plugin/manager.go) over its  *)
(* supervisors, called from the daemon's main goroutine (LoadPlugins at    *)
(* start, Shutdown on a signal) and from concurrent handlers of the        *)
(* PluginRegistryService (LoadPlugin, UnloadPlugin, ReloadPlugins).        *)
(*                                                                         *)
(* Every critical section of Manager.mu is one step, enabled while mu is   *)
(* free; only Shutdown holds mu across steps.  Registering a plugin takes  *)
(* three such steps (plugins, startAdopt, supervisors), as in the code.    *)
(***************************************************************************)
EXTENDS Supervisor, FiniteSets

CONSTANTS Plugins,      \* names of plugin directories
          Deps,         \* Deps[n]: the plugins that n's go.mod requires
          Callers,      \* goroutines that serve registry RPCs
          Main,         \* the goroutine of Daemon.Start
          MaxInFlight,  \* calls into the manager in progress at a time
          Ops,          \* the registry RPCs that are issued
          EditsDisk     \* whether the user edits the plugins directory

NoSlot == 0
Free   == "free"
Threads == Callers \cup {Main}

ASSUME ManagerAssumption ==
    /\ Slots \subseteq Nat \ {0}
    /\ Plugins # {}
    /\ Main \notin Callers
    /\ Free \notin Threads
    /\ Deps \in [Plugins -> SUBSET Plugins]
    \* go mod tidy lists the indirect requirements too
    /\ \A n \in Plugins : \A d \in Deps[n] : Deps[d] \subseteq Deps[n]
    /\ \A n \in Plugins : n \notin Deps[n]
    /\ Ops \subseteq {"load", "unload", "reload"}

VARIABLES
    plugins,      \* m.plugins: the slot whose PluginInfo is registered
    supervisors,  \* m.supervisors
    depGraph,     \* m.depGraph; an absent key is an empty list
    mu,           \* the holder of m.mu between two steps, or Free
    disk,         \* directories in PluginsDir that hold a Go plugin
    nameOf,       \* the plugin a slot was launched for
    owner,        \* the thread that launched the slot
    pc,           \* each thread's control state
    call,         \* each thread's parameters and local variables
    res,          \* result of the thread's last call
    exited        \* the daemon process has exited

registry == <<plugins, supervisors, depGraph, mu>>
launches == <<nameOf, owner>>
mgrVars == <<registry, launches, disk, pc, call, res, exited>>
vars == <<supVars, mgrVars>>

AnyPlugin == CHOOSE n \in Plugins : TRUE

\* op: the call; goal: the name LoadPluginByName was asked for; name, slot: the
\* plugin and the launch being worked on; todo: names left in the current loop;
\* ctx: the request's context is done.
NoCall == [op |-> "none", goal |-> AnyPlugin, name |-> AnyPlugin, slot |-> NoSlot,
           todo |-> {}, ctx |-> FALSE]

Init ==
    /\ SupInit
    /\ plugins = [n \in Plugins |-> NoSlot]
    /\ supervisors = [n \in Plugins |-> NoSlot]
    /\ depGraph = [n \in Plugins |-> {}]
    /\ mu = Free
    /\ disk = Plugins
    /\ nameOf = [s \in Slots |-> AnyPlugin]
    /\ owner = [s \in Slots |-> Main]
    /\ pc = [t \in Threads |-> IF t = Main THEN "boot" ELSE "idle"]
    /\ call = [t \in Threads |-> NoCall]
    /\ res = [t \in Threads |-> "none"]
    /\ exited = FALSE

loaded(n) == plugins[n] # NoSlot

parsePluginDeps(n) == Deps[n] \cap disk

\* go build needs the plugin and, through its replace directives, the plugins
\* it requires.
Buildable(n) == {n} \cup Deps[n] \subseteq disk

Fresh(s) ==
    /\ proc[s][0] = "none"
    /\ \A r \in Slots : r < s => proc[r][0] # "none"

InFlight == {t \in Threads : pc[t] \notin {"idle", "exited"}}

CanEnter(t) == pc[t] = "idle" /\ Cardinality(InFlight) < MaxInFlight

\* Thread t moves to l, its locals unchanged.
Goto(t, l) == pc' = [pc EXCEPT ![t] = l] /\ UNCHANGED call

\* Thread t moves to l with the plugin n, leaving names in its loop.
With(t, l, n, names) ==
    /\ pc' = [pc EXCEPT ![t] = l]
    /\ call' = [call EXCEPT ![t].name = n, ![t].todo = names]

\* Thread t starts call o of the manager at l.
Enter(t, o, l, n, names) ==
    /\ pc' = [pc EXCEPT ![t] = l]
    /\ call' = [call EXCEPT ![t] = [NoCall EXCEPT !.op = o, !.goal = n, !.name = n,
                                                  !.todo = names]]

\* A handler returns; net/http then cancels the request's context, which is
\* the one its supervisors were started with.  LoadPlugins runs under
\* context.Background(), so Main cancels nothing.
CancelContext(t) ==
    ctxDone' = ctxDone \cup {s \in Slots : owner[s] = t /\ t # Main}

Return(t, r) ==
    /\ pc' = [pc EXCEPT ![t] = "idle"]
    /\ call' = [call EXCEPT ![t] = NoCall]
    /\ res' = [res EXCEPT ![t] = r]
    /\ CancelContext(t)

-------------------------------------------------------------------------------
(* The calls.                                                              *)

LoadPlugins ==
    /\ pc[Main] = "boot"
    /\ mu = Free
    /\ depGraph' = [n \in Plugins |-> IF n \in disk THEN parsePluginDeps(n) ELSE {}]
    /\ Enter(Main, "startup", "next", AnyPlugin, disk)
    /\ UNCHANGED <<supVars, plugins, supervisors, mu, launches, disk, res, exited>>

\* isGoPlugin (an unknown name is an error that changes nothing), then the test
\* whether the plugin is already loaded.
LoadPluginByName(t, n) ==
    /\ "load" \in Ops
    /\ n \in disk
    /\ CanEnter(t)
    /\ mu = Free
    /\ IF loaded(n)
       THEN res' = [res EXCEPT ![t] = "ok"] /\ UNCHANGED <<pc, call>>
       ELSE /\ Enter(t, "load", "next", n, parsePluginDeps(n) \cup {n})
            /\ UNCHANGED res
    /\ UNCHANGED <<supVars, registry, launches, disk, exited>>

UnloadPluginByName(t, n) ==
    /\ "unload" \in Ops
    /\ CanEnter(t)
    /\ Enter(t, "unload", "unload", n, {})
    /\ UNCHANGED <<supVars, registry, launches, disk, res, exited>>

ReloadPlugins(t) ==
    /\ "reload" \in Ops
    /\ CanEnter(t)
    /\ mu = Free
    /\ Enter(t, "reload", "drop", AnyPlugin, {n \in Plugins : loaded(n)} \ disk)
    /\ UNCHANGED <<supVars, registry, launches, disk, res, exited>>

-------------------------------------------------------------------------------
(* The loading loops of LoadPlugins, LoadPluginByName and ReloadPlugins.   *)

\* LoadPluginByName takes the dependencies in go.mod order and the plugin
\* itself last; the other two follow topologicalSort.
Ready(c) ==
    IF c.op = "load"
    THEN IF c.todo = {c.goal} THEN c.todo ELSE c.todo \ {c.goal}
    ELSE {n \in c.todo : parsePluginDeps(n) \cap c.todo = {}}

\* Mutant of SkipsLoaded: no loop looks for the plugin in the registry.
NeverSkips(c, n) == FALSE

\* LoadPlugins does not ask whether a plugin is loaded, and LoadPluginByName
\* does not ask again about the plugin itself.
SkipsLoaded(c, n) == c.op = "reload" \/ (c.op = "load" /\ n # c.goal)

NextPlugin(t) ==
    /\ pc[t] = "next"
    /\ \E n \in Ready(call[t]) :
          LET skips == SkipsLoaded(call[t], n) IN
          /\ skips => mu = Free
          /\ With(t, IF skips /\ loaded(n) THEN "next" ELSE "cache", n,
                  call[t].todo \ {n})
    /\ UNCHANGED <<supVars, registry, launches, disk, res, exited>>

LoopDone(t) ==
    /\ pc[t] = "next"
    /\ call[t].todo = {}
    /\ Return(t, "ok")
    /\ UNCHANGED <<proc, cur, reaped, mon, stop, registry, launches, disk, exited>>

-------------------------------------------------------------------------------
(* loadPlugin.                                                             *)

\* The error of one plugin ends LoadPluginByName; the other two loops go on.
LoadFailed(t) ==
    IF call[t].op = "load"
    THEN Return(t, "error")
    ELSE Goto(t, "next") /\ UNCHANGED <<res, ctxDone>>

\* Mutant of CacheDeps: the dependencies are not recorded.
CachesNothing(t) ==
    /\ pc[t] = "cache"
    /\ Goto(t, "build")
    /\ UNCHANGED <<supVars, registry, launches, disk, res, exited>>

CacheDeps(t) ==
    /\ pc[t] = "cache"
    /\ mu = Free
    /\ depGraph' = [depGraph EXCEPT ![call[t].name] = parsePluginDeps(call[t].name)]
    /\ Goto(t, "build")
    /\ UNCHANGED <<supVars, plugins, supervisors, mu, launches, disk, res, exited>>

\* Proto compilation, client generation, go build and exec.Cmd.Start.
BuildAndStart(t) ==
    /\ pc[t] = "build"
    /\ \/ /\ Buildable(call[t].name)
          /\ \E s \in Slots :
                /\ Fresh(s)
                /\ Start(s)
                /\ nameOf' = [nameOf EXCEPT ![s] = call[t].name]
                /\ owner' = [owner EXCEPT ![s] = t]
                /\ call' = [call EXCEPT ![t].slot = s]
          /\ pc' = [pc EXCEPT ![t] = "handshake"]
          /\ UNCHANGED res
       \/ /\ ~Buildable(call[t].name) \/ \E s \in Slots : Fresh(s) /\ Fails(s, "build")
          /\ LoadFailed(t)
          /\ UNCHANGED <<proc, cur, reaped, mon, stop, launches>>
    /\ UNCHANGED <<registry, disk, exited>>

\* Handshake and service discovery; discovery runs under the caller's context.
Handshake(t) ==
    LET s == call[t].slot IN
    /\ pc[t] = "handshake"
    /\ \/ /\ Running(s, 0)
          /\ ~call[t].ctx
          /\ Goto(t, "register")
          /\ UNCHANGED <<proc, ctxDone, res>>
       \/ /\ ~Running(s, 0) \/ call[t].ctx \/ Fails(s, "launch")
          /\ proc' = Kill(s, 0)
          /\ LoadFailed(t)
    /\ UNCHANGED <<cur, reaped, mon, stop, registry, launches, disk, exited>>

Register(t) ==
    /\ pc[t] = "register"
    /\ mu = Free
    /\ plugins' = [plugins EXCEPT ![call[t].name] = call[t].slot]
    /\ Goto(t, "adopt")
    /\ UNCHANGED <<supVars, supervisors, depGraph, mu, launches, disk, res, exited>>

\* Mutant of Adopt: the monitor goroutine is not started.
AdoptsWithoutMonitor(t) ==
    /\ pc[t] = "adopt"
    /\ Goto(t, "supervise")
    /\ UNCHANGED <<supVars, registry, launches, disk, res, exited>>

Adopt(t) ==
    /\ pc[t] = "adopt"
    /\ startAdopt(call[t].slot)
    /\ Goto(t, "supervise")
    /\ UNCHANGED <<registry, launches, disk, res, exited>>

Supervise(t) ==
    LET c == call[t] IN
    /\ pc[t] = "supervise"
    /\ mu = Free
    /\ supervisors' = [supervisors EXCEPT ![c.name] = c.slot]
    /\ Goto(t, IF c.op = "load" /\ c.name = c.goal THEN "get" ELSE "next")
    /\ UNCHANGED <<supVars, plugins, depGraph, mu, launches, disk, res, exited>>

\* The GetPlugin that ends LoadPluginByName, its ok result discarded.
GetPlugin(t) ==
    /\ pc[t] = "get"
    /\ mu = Free
    /\ Return(t, IF loaded(call[t].name) THEN "ok" ELSE "nil")
    /\ UNCHANGED <<proc, cur, reaped, mon, stop, registry, launches, disk, exited>>

-------------------------------------------------------------------------------
(* The body of UnloadPluginByName, also run by ReloadPlugins.              *)

\* Mutant of dependents: the dependency graph is not consulted.
NoDependents(n) == {}

dependents(n) == {m \in Plugins \ {n} : loaded(m) /\ n \in depGraph[m]}

UnloadReturns(t, r) ==
    IF call[t].op = "reload"
    THEN Goto(t, "drop") /\ UNCHANGED <<res, ctxDone>>
    ELSE Return(t, r)

\* Continue at l with the slot taken out of the maps.
Release(t, l, s) ==
    /\ pc' = [pc EXCEPT ![t] = l]
    /\ call' = [call EXCEPT ![t].slot = s]
    /\ UNCHANGED <<res, ctxDone>>

\* Mutant of Unregister: the supervisor stays in m.supervisors.
UnregisterKeepsSupervisor(t) ==
    LET n == call[t].name IN
    /\ pc[t] = "unload"
    /\ mu = Free
    /\ dependents(n) = {}
    /\ plugins' = [plugins EXCEPT ![n] = NoSlot]
    /\ depGraph' = [depGraph EXCEPT ![n] = {}]
    /\ loaded(n) /\ supervisors[n] # NoSlot
    /\ Release(t, "close", supervisors[n])
    /\ UNCHANGED <<proc, cur, reaped, mon, stop, supervisors, mu, launches, disk,
                   exited>>

\* The critical section: refuse, or take the plugin out of all three maps.
Unregister(t) ==
    LET n == call[t].name IN
    /\ pc[t] = "unload"
    /\ mu = Free
    /\ IF dependents(n) # {}
       THEN UnloadReturns(t, "error") /\ UNCHANGED <<plugins, supervisors, depGraph>>
       ELSE /\ plugins' = [plugins EXCEPT ![n] = NoSlot]
            /\ supervisors' = [supervisors EXCEPT ![n] = NoSlot]
            /\ depGraph' = [depGraph EXCEPT ![n] = {}]
            /\ \/ ~loaded(n) /\ UnloadReturns(t, "error")
               \/ /\ loaded(n) /\ supervisors[n] # NoSlot
                  /\ Release(t, "close", supervisors[n])
               \/ /\ loaded(n) /\ supervisors[n] = NoSlot
                  /\ Release(t, "kill", plugins[n])
    /\ UNCHANGED <<proc, cur, reaped, mon, stop, mu, launches, disk, exited>>

\* info.Process.Kill() for a plugin that had no supervisor in the map.
KillUnsupervised(t) ==
    /\ pc[t] = "kill"
    /\ proc' = Kill(call[t].slot, 0)
    /\ UnloadReturns(t, "ok")
    /\ UNCHANGED <<cur, reaped, mon, stop, registry, launches, disk, exited>>

NextDrop(t) ==
    /\ pc[t] = "drop"
    /\ \/ \E n \in call[t].todo : With(t, "unload", n, call[t].todo \ {n})
       \/ call[t].todo = {} /\ With(t, "next", call[t].name, disk)
    /\ UNCHANGED <<supVars, registry, launches, disk, res, exited>>

-------------------------------------------------------------------------------
(* sup.stop(), called by UnloadPluginByName and by Shutdown.               *)

CallStop(t) ==
    LET s == call[t].slot IN
    /\ \/ pc[t] = "close" /\ StopClose(s) /\ Goto(t, "stopkill")
       \/ pc[t] = "stopkill" /\ StopKill(s) /\ Goto(t, "stopwait")
    /\ UNCHANGED <<registry, launches, disk, res, exited>>

StopCallReturns(t) ==
    LET s == call[t].slot IN
    /\ pc[t] = "stopwait"
    /\ stop[s] = "killed"
    /\ mon[s] = "done"
    /\ stop' = [stop EXCEPT ![s] = "returned"]
    /\ IF call[t].op = "shutdown"
       THEN Goto(t, "shutdown") /\ UNCHANGED <<res, ctxDone>>
       ELSE UnloadReturns(t, "ok")
    /\ UNCHANGED <<proc, cur, reaped, mon, registry, launches, disk, exited>>

-------------------------------------------------------------------------------
(* Shutdown, under mu from its first step to its last; the daemon exits    *)
(* when it returns.                                                        *)

\* Mutant of Shutdown: no supervisor is stopped.
ShutdownStopsNothing ==
    /\ CanEnter(Main)
    /\ mu = Free
    /\ mu' = Main
    /\ Enter(Main, "shutdown", "shutdown", AnyPlugin, {})
    /\ UNCHANGED <<supVars, plugins, supervisors, depGraph, launches, disk, res,
                   exited>>

Shutdown ==
    /\ CanEnter(Main)
    /\ mu = Free
    /\ mu' = Main
    /\ Enter(Main, "shutdown", "shutdown", AnyPlugin,
             {n \in Plugins : supervisors[n] # NoSlot})
    /\ UNCHANGED <<supVars, plugins, supervisors, depGraph, launches, disk, res,
                   exited>>

ShutdownNext ==
    /\ pc[Main] = "shutdown"
    /\ \E n \in call[Main].todo :
          call' = [call EXCEPT ![Main].todo = @ \ {n}, ![Main].slot = supervisors[n]]
    /\ pc' = [pc EXCEPT ![Main] = "close"]
    /\ UNCHANGED <<supVars, registry, launches, disk, res, exited>>

\* Mutant of ShutdownDone: the maps are dropped and not made anew.
ShutdownDropsMaps ==
    /\ pc[Main] = "shutdown"
    /\ call[Main].todo = {}
    /\ plugins' = <<>>
    /\ supervisors' = <<>>
    /\ mu' = Free
    /\ exited' = TRUE
    /\ Goto(Main, "exited")
    /\ UNCHANGED <<supVars, depGraph, launches, disk, res>>

ShutdownDone ==
    /\ pc[Main] = "shutdown"
    /\ call[Main].todo = {}
    /\ plugins' = [n \in Plugins |-> NoSlot]
    /\ supervisors' = [n \in Plugins |-> NoSlot]
    /\ mu' = Free
    /\ exited' = TRUE
    /\ Goto(Main, "exited")
    /\ UNCHANGED <<supVars, depGraph, launches, disk, res>>

-------------------------------------------------------------------------------
(* The environment.                                                        *)

\* The client goes away, or the 60 s of ReloadPlugins are over.
CancelRequest(t) ==
    /\ \E s \in Slots : Fails(s, "ctx")
    /\ call[t].op \in {"load", "reload"}
    /\ ~call[t].ctx
    /\ call' = [call EXCEPT ![t].ctx = TRUE]
    /\ CancelContext(t)
    /\ UNCHANGED <<proc, cur, reaped, mon, stop, registry, launches, disk, pc, res,
                   exited>>

\* The user adds or removes a plugin directory between two commands.
EditDisk ==
    /\ EditsDisk
    /\ InFlight = {}
    /\ \E n \in Plugins : disk' = IF n \in disk THEN disk \ {n} ELSE disk \cup {n}
    /\ UNCHANGED <<supVars, registry, launches, pc, call, res, exited>>

LoadSteps(t) ==
    \/ NextPlugin(t) \/ LoopDone(t) \/ CacheDeps(t) \/ BuildAndStart(t)
    \/ Handshake(t) \/ Register(t) \/ Adopt(t) \/ Supervise(t) \/ GetPlugin(t)

UnloadSteps(t) ==
    \/ Unregister(t) \/ KillUnsupervised(t) \/ NextDrop(t)
    \/ CallStop(t) \/ StopCallReturns(t)

Call(t) ==
    \/ \E n \in Plugins : LoadPluginByName(t, n) \/ UnloadPluginByName(t, n)
    \/ ReloadPlugins(t)
    \/ CancelRequest(t)

Supervision(s) == Monitor(s) /\ UNCHANGED mgrVars

\* A process that exits before its handshake is one of the launch failures.
Processes(s) ==
    /\ \E g \in Gens : Exit(s, g) \/ ContextKill(s, g)
    /\ (\E t \in Threads : pc[t] = "handshake" /\ call[t].slot = s) => Fails(s, "launch")
    /\ UNCHANGED mgrVars

DaemonStep ==
    \/ LoadPlugins \/ Shutdown \/ ShutdownNext \/ ShutdownDone
    \/ \E t \in Threads : LoadSteps(t) \/ UnloadSteps(t)
    \/ \E t \in Callers : Call(t)
    \/ \E s \in Slots : Supervision(s) \/ Processes(s)
    \/ EditDisk

\* All goroutines end with the daemon process.
Next == ~exited /\ DaemonStep

Spec == Init /\ [][Next]_vars

-------------------------------------------------------------------------------
(* Properties.                                                             *)

Ctl == {"boot", "idle", "next", "cache", "build", "handshake", "register", "adopt",
        "supervise", "get", "unload", "kill", "drop", "close", "stopkill",
        "stopwait", "shutdown", "exited"}

CallType ==
    [op : {"none", "startup", "load", "unload", "reload", "shutdown"},
     goal : Plugins, name : Plugins, slot : Slots \cup {NoSlot},
     todo : SUBSET Plugins, ctx : BOOLEAN]

\* Every variable has its type.
TypeOK ==
    /\ SupTypeOK
    /\ plugins \in [Plugins -> Slots \cup {NoSlot}]
    /\ supervisors \in [Plugins -> Slots \cup {NoSlot}]
    /\ depGraph \in [Plugins -> SUBSET Plugins]
    /\ mu \in {Free, Main}
    /\ disk \subseteq Plugins
    /\ nameOf \in [Slots -> Plugins]
    /\ owner \in [Slots -> Threads]
    /\ pc \in [Threads -> Ctl]
    /\ call \in [Threads -> CallType]
    /\ res \in [Threads -> {"none", "ok", "error", "nil"}]
    /\ exited \in BOOLEAN

\* The threads that launched slot s and have not yet handed it to a monitor.
Loading(t) == pc[t] \in {"handshake", "register", "adopt"}

\* No thread is about to close a stopCh that is already closed (Go would panic)
\* and no two threads are stopping the same supervisor, however unloads, reloads
\* and Shutdown interleave.
StopOnce ==
    \A t \in Threads :
        /\ pc[t] = "close" => ~stopped(call[t].slot)
        /\ \A u \in Threads \ {t} :
              ~({pc[t], pc[u]} \subseteq {"close", "stopkill", "stopwait"} /\ call[t].slot = call[u].slot)

\* Every plugin process that is alive is either watched by a monitor goroutine
\* or still held by the loadPlugin that started it: no interleaving of loads,
\* unloads and crashes lets a process escape the daemon while it runs.
NoUnsupervisedProcess ==
    /\ TypeOK
    /\ \A s \in Slots : (\E g \in Gens : Running(s, g)) =>
           \/ mon[s] \notin {"none", "done"}
           \/ \E t \in Threads : Loading(t) /\ call[t].slot = s

\* UnloadPluginByName "Returns an error if any other loaded plugin depends on
\* this one" (manager.go:241): a plugin leaves the registry only while no plugin
\* in it requires it, except that Shutdown empties the registry.
UnloadRespectsDependents ==
    [][\A n \in Plugins : loaded(n) /\ ~loaded(n)' =>
          \/ exited'
          \/ \A m \in Plugins : n \in Deps[m] => ~loaded(m)']_vars

\* Between calls, the registry and the supervisors agree, and each live plugin
\* process is the one the registry knows for its name: nothing runs that
\* UnloadPlugin could not stop.
RegistryComplete ==
    InFlight = {} /\ ~exited =>
        /\ plugins = supervisors
        /\ \A s \in Slots : \A g \in Gens : Running(s, g) => plugins[nameOf[s]] = s

\* Between calls, and when no build or launch fails, a loaded plugin's
\* dependencies are loaded too, across starts, loads, unloads and reloads of a
\* plugins directory that changes.
DependenciesLoaded ==
    InFlight = {} /\ ~exited =>
        \A n \in Plugins : loaded(n) => \A d \in Deps[n] : loaded(d)

\* Between calls the registry, the supervisors and the dependency graph are in step.
RegistryIsInStep == RegistryComplete /\ DependenciesLoaded

\* Shutdown "stops all plugin supervisors and kills all plugin processes"
\* (manager.go:636): when the daemon exits, no process is alive of a supervisor that the
\* map has, while other calls load and unload, monitors relaunch and processes crash.
\* (Without other calls, the map has them all: RegistryComplete.)
ShutdownKillsAll ==
    [][exited' /\ ~exited =>
          \A s \in Slots : (\E n \in Plugins : supervisors[n] = s) => \A g \in Gens : ~Running(s, g)']_vars

===============================================================================
