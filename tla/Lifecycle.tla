------------------------------- MODULE Lifecycle -------------------------------
(***************************************************************************)
(* Processes of the daemon that follow one another (daemon/server.go:      *)
(* Start, gracefulRestart; daemon/plugin.go), the port they want, the      *)
(* plugin processes they leave, and the token of a plugin's requests.      *)
(***************************************************************************)
EXTENDS Integers

CONSTANTS MaxDaemons,   \* processes of the daemon, in the order of their start
          MaxLoads      \* MaxLoads[i]: plugin processes that instance i launches

VARIABLE daemons

Instances == 1 .. MaxDaemons

\* http: of the goroutine that serves; err: errCh; token: pluginToken is set; alive: the
\* plugin processes; loading: those launched whose loadPlugin is not at its end, and own:
\* the one of them that InitPlugins loads; supervised: Manager.supervisors; unloading:
\* those taken out of it, whose stop is to come; late: those that were being loaded or
\* unloaded when Shutdown took its tables, or were launched after; restart: of the
\* goroutine of a restart; accepted: those whose plugins it has served.
NoDaemon == [pc |-> "none", http |-> "new", err |-> FALSE, token |-> FALSE, loads |-> 0,
             alive |-> {}, loading |-> {}, own |-> {}, supervised |-> {}, unloading |-> {}, late |-> {},
             restart |-> "none", accepted |-> {}]
At_(i, pcs) == daemons[i].pc \in pcs
Living(i) == ~At_(i, {"none", "restarted", "killed", "failed", "ended"})
ListensOn(i) == Living(i) /\ daemons[i].http = "listening"
NewBorn == {i \in Instances : At_(i, {"none"}) /\ \A j \in 1 .. i - 1 : ~At_(j, {"none"})}

\* The end of the process: its memory is gone, its plugins are not.
Gone(i, pc) ==
    daemons' = [daemons EXCEPT ![i] =
                  [NoDaemon EXCEPT !.pc = pc, !.alive = daemons[i].alive, !.late = daemons[i].late,
                                   !.accepted = daemons[i].accepted]]

-------------------------------------------------------------------------------
(* Start.                                                                  *)

\* The user starts the daemon, whether or not one runs.
UserStarts == \E i \in NewBorn : daemons' = [daemons EXCEPT ![i].pc = "starting"]
\* ListenAndServe, at any time after it was started: the sleep does not wait for it.
ListenAndServe(i) ==
    /\ Living(i) /\ daemons[i].http = "new"
    /\ daemons' = IF \E j \in Instances : ListensOn(j)
                  THEN [daemons EXCEPT ![i].http = "failed", ![i].err = TRUE]
                  ELSE [daemons EXCEPT ![i].http = "listening"]
InitPlugins(i) ==
    /\ At_(i, {"starting"})
    /\ daemons' = [daemons EXCEPT ![i].pc = "loading", ![i].token = TRUE]
\* signal.Notify comes after InitPlugins.
SelectSignal(i) ==
    /\ At_(i, {"loading"}) /\ daemons[i].own = {}
    /\ daemons' = [daemons EXCEPT ![i].pc = "running"]
StartReturnsError(i) == At_(i, {"running"}) /\ daemons[i].err /\ Gone(i, "failed")
\* Mutant of AfterSignal: the server is closed at once.
ClosesAtOnce == "closing"
\* Where a signal takes Start: to ShutdownPlugins.
AfterSignal == "stopping"
\* Before Notify a signal ends the process; a second one stays in the channel.
SignalSent(i) ==
    \/ At_(i, {"starting", "loading"}) /\ Gone(i, "killed")
    \/ At_(i, {"running"}) /\ daemons' = [daemons EXCEPT ![i].pc = AfterSignal]
\* Shutdown stops the supervisors that it finds, under the manager's lock.
ShutdownPlugins(i) ==
    /\ At_(i, {"stopping"})
    /\ LET d == daemons[i]
       IN daemons' = [daemons EXCEPT ![i] =
                        [d EXCEPT !.pc = "closing", !.alive = @ \ d.supervised, !.supervised = {},
                                  !.late = d.loading \cup d.unloading]]
CloseDaemon(i) == At_(i, {"closing"}) /\ Gone(i, "ended")
\* A panic of one of its goroutines, or a signal that is not caught.
DaemonDies(i) == Living(i) /\ Gone(i, "killed")

-------------------------------------------------------------------------------
(* Plugin processes (plugin/manager.go).                                   *)

\* InitPlugins loads one after the other, whether or not the server listens; requests load
\* beside it and each other, until the server is closed.
LaunchesPlugin(i) ==
    /\ daemons[i].loads < MaxLoads[i]
    /\ \E own \in BOOLEAN :
          /\ IF own THEN At_(i, {"loading"}) /\ daemons[i].own = {} ELSE ListensOn(i) /\ daemons[i].token
          /\ LET d == daemons[i]
                 p == d.loads + 1
             IN daemons' = [daemons EXCEPT ![i] =
                              [d EXCEPT !.loads = p, !.alive = @ \cup {p}, !.loading = @ \cup {p},
                                        !.own = IF own THEN {p} ELSE @,
                                        !.late = IF d.pc = "closing" THEN @ \cup {p} ELSE @]]
\* The end of loadPlugin: the supervisor is in the table, or the process is killed, whose
\* handshake or discovery failed.
SupervisesPlugin(i) ==
    /\ Living(i)
    /\ \E p \in daemons[i].loading, ok \in BOOLEAN :
          daemons' = [daemons EXCEPT ![i] =
                        [daemons[i] EXCEPT !.loading = @ \ {p}, !.own = @ \ {p},
                                           !.supervised = IF ok THEN @ \cup {p} ELSE @,
                                           !.alive = IF ok THEN @ ELSE @ \ {p}]]
\* UnloadPluginByName, of a request: it takes the supervisor out of the table...
UnloadsPlugin(i) ==
    /\ ListensOn(i) /\ daemons[i].token
    /\ \E p \in daemons[i].supervised :
          daemons' = [daemons EXCEPT ![i] = [daemons[i] EXCEPT !.supervised = @ \ {p}, !.unloading = @ \cup {p}]]
\* ... and stops it without the manager's lock.
StopsUnloaded(i) ==
    /\ Living(i)
    /\ \E p \in daemons[i].unloading :
          daemons' = [daemons EXCEPT ![i] = [daemons[i] EXCEPT !.unloading = @ \ {p}, !.alive = @ \ {p}]]
PluginDies(i) == \E p \in daemons[i].alive : daemons' = [daemons EXCEPT ![i].alive = @ \ {p}]
\* The supervisor, which has not been stopped, launches it again.
RelaunchesPlugin(i) ==
    /\ Living(i)
    /\ \E p \in daemons[i].supervised \cup daemons[i].unloading :
          daemons' = [daemons EXCEPT ![i].alive = @ \cup {p}]

-------------------------------------------------------------------------------
(* Restart: a goroutine of its own, which ends with the process.           *)

\* Bound: one request to a daemon, though each would start an instance.
RestartRequested(i) ==
    /\ ListensOn(i) /\ daemons[i].restart = "none"
    /\ daemons' = [daemons EXCEPT ![i].restart = "sleeping"]
\* cmd.Start, which may fail.
StartsInstance(i) ==
    /\ Living(i) /\ daemons[i].restart = "sleeping"
    /\ \/ daemons' = [daemons EXCEPT ![i].restart = "exiting"]
       \/ \E j \in NewBorn : daemons' = [daemons EXCEPT ![i].restart = "exiting", ![j].pc = "starting"]
ExitsOld(i) == Living(i) /\ daemons[i].restart = "exiting" /\ Gone(i, "restarted")

-------------------------------------------------------------------------------
(* Requests of plugins, to the port they were started with.                *)

\* Mutant of Admitted: any token will do.
AnyToken(o, i) == daemons[i].token
\* tokenAuthMiddleware, of the daemon i and a plugin that o started.
Admitted(o, i) == daemons[i].token /\ o = i
PluginRequest(o, i) ==
    /\ daemons[o].alive # {} /\ ListensOn(i) /\ Admitted(o, i)
    /\ daemons' = [daemons EXCEPT ![i].accepted = @ \cup {o}]

LifecycleInit == daemons = [i \in Instances |-> NoDaemon]
LifecycleNext ==
    \/ UserStarts
    \/ \E i \in Instances :
          \/ ListenAndServe(i) \/ InitPlugins(i) \/ SelectSignal(i) \/ StartReturnsError(i)
          \/ SignalSent(i) \/ ShutdownPlugins(i) \/ CloseDaemon(i) \/ DaemonDies(i)
          \/ LaunchesPlugin(i) \/ SupervisesPlugin(i) \/ UnloadsPlugin(i) \/ StopsUnloaded(i)
          \/ PluginDies(i) \/ RelaunchesPlugin(i)
          \/ RestartRequested(i) \/ StartsInstance(i) \/ ExitsOld(i)
          \/ \E o \in Instances : PluginRequest(o, i)
LifecycleSpec == LifecycleInit /\ [][LifecycleNext]_daemons

-------------------------------------------------------------------------------
\* Daemons follow one another without taking over each other's plugins.  Plugins that a
\* daemon has left behind ask at the port of their daemon, where the next one listens: it
\* serves only its own.  A daemon that was ended by a signal leaves no plugin process but
\* those that a request was loading or unloading when Shutdown had its turn, or launched
\* after: whatever was loaded before is stopped, however often it has been launched.  (A
\* daemon that was restarted, could not listen, crashed, or was killed leaves all of them.)
\* A daemon that could not listen has the error that ends it.
DaemonsTakeTurns ==
    /\ \A i \in Instances :
          LET d == daemons[i]
          IN /\ d.accepted \subseteq {i}
             /\ d.pc \in {"closing", "ended"} => d.alive \subseteq d.late
             /\ d.http = "failed" => d.err
             /\ d.pc = "none" => d.alive = {}
    /\ \A i, j \in Instances : ListensOn(i) /\ ListensOn(j) => i = j
================================================================================
