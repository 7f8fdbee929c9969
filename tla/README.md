# dotfilesd in TLA+

This directory models `dotfilesd`, the daemon of this dotfiles repository: a Go
program (`src/dotfilesd/`) that serves Connect RPCs to a command line client
(`dotfilesctl`), runs plugins as child processes, and gives those plugins an SDK
through which they call it back. The modules follow the code in `src/`: its
functions are the actions and operators, its locks and goroutines decide what is
one step, and names are the source's wherever TLA+ allows. `PROJECT.json` maps
each definition to the lines it stands for.

* `tlc -config <run>.cfg <module>` checks a run; the table below lists them.
* `tlapm <Module>Proofs.tla` checks a module of proofs.

## 1. The system

    dotfilesctl ──Connect RPC──> dotfilesd ──spawns, supervises──> plugin process
        ^   CLI, MCP server         │  ^                             │   SDK
        └── callbacks (prompts) ────┘  └── exec, log, stdin, tty ────┘

| Component | State | Operations | Hard because |
|---|---|---|---|
| Plugin supervisor (`plugin/supervisor.go`) | process, stop channel, monitor goroutine | startAdopt, monitor, rebuild, launch, stop | a process may die at any moment, also between two lines of stop() or of a relaunch; every step of a relaunch may fail |
| Plugin manager (`plugin/manager.go`, `daemon/registry_svc.go`) | plugins, supervisors, depGraph under one lock | LoadPlugins, LoadPluginByName, UnloadPluginByName, ReloadPlugins, Shutdown | a load takes three critical sections and seconds between them; requests are concurrent with startup and shutdown |
| Sessions and shells (`daemon/session.go`, `exec.go`, `script.go`) | session table, a lazily started bash per session, three levels of locks | Connect, ResolveSession, FinalizeSession, Exec, ExecStream, RunScript | output of a shell has no tags; finalize holds two locks while it waits for the third; clients go away in mid-stream |
| Sudo credentials (`session.go`, `exec.go`) | encrypted password, deadline, two keys | Get/Set/ClearSudoCache, NegotiateKey, prompting | check and use are apart; bytes are zeroed in place under a reader |
| Background commands (`daemon/background_task.go`, SDK `background_task.go`) | process, pipes, a stream, four goroutines a task | start, cancel, stdin, exit | the end of the process, of the client, of the pipes and of the request race |
| Plugin calls (`executor_svc.go`, `io.go`, SDK `context.go`, `pty.go`, CLI `protoflags.go`) | call tables, bounded output queues, input buffers | CallPlugin, Log, ReadStdin, TtySession | a method's result and its output travel on different connections; six goroutines must all end |
| Diagnostics (`diagnostics/`, `diagnostics_svc.go`) | resource states, history rings, subscribers | PushEvent, UpdateParent, trees, StreamEvents | events of one resource come from several goroutines and are delivered outside the lock |
| Daemon processes (`server.go`, `config.go`, `daemon/plugin.go`) | the port, a token, an error channel, a goroutine per restart | Start, Restart, signals, ShutdownPlugins | a new process starts while the old one has the port; a signal may come before it is waited for; plugins outlive their daemon |
| Scripts (`script.go`, `scripts_registry.go`, `cli/script.go`) | parsed steps, variables, results, a directory tree | scan, parse, RunScript, prompts | the end of a quoted argument is found from its unescaped length; one step of several fails; the registry's names and the resolver's must agree |
| Sudo channels (`exec.go`, `helpers.go`) | session password, flags of the session | Exec, ExecStream, SudoExec, BackgroundExec, prompts | four calls order six channels in different ways; each may fail, be declined or not answer |
| Clients (`cli/client.go`, `cli/feedback.go`) | session id and its ownership, callback server, key | Connect, Close, reconnect | sessions are shared by nested clients and lost with a daemon; the last to connect has the callback |
| MCP (`cli/mcp.go`, `cli/mcp_bridge.go`) | pending prompts, pending sudo requests, calls in goroutines | tool calls, elicitations, answers | answers and calls come on one line; prompts give up; a password may arrive late |
| Requests (`rpcreflection/`, `cli/protoflags.go`, `cli/mcp.go`) | schemas, flags, bodies | build a schema, flags, JSON, tools | one set of visited types for all branches of a descriptor; names are converted three ways |
| Logging (`logging/`) | configured loggers, sinks, a cache | Logger, resolve, AddPluginSink | order of configuration; several goroutines ask for one logger |
| Resources plugin (`plugins/resources/`) | readings, a poller, its queue, watchers | Current, Top, PS, History, Watch | the poller adapts to calls; queues and channels are full; filters compare with what others were told |
| Games plugin (`plugins/games/`) | boards | keys, timers, moves | long sequences of keys; the computer's move comes from a timer |
| Other plugins, `tui-diag`, generators | screens, text | | layout |

What makes each modelled component correct:

* **Supervisor**: never two live processes; none left when it has ended or has
  been stopped; a crash is answered, a clean exit is final.
* **Manager**: the registry, the dependency graph and the processes agree when no
  call is in progress; every live process always has a goroutine responsible for
  it; each stop channel is closed once; shutdown leaves nothing alive that the map has.
* **Sessions**: each shell has an owner that closes it; each command gets its own
  output; nothing runs in a finalized session; every request ends.
* **Sudo**: no password that sudo refused is cached; what is replaced or cleared is
  zeroed.
* **Background commands**: no process outlives its handler; what was read is
  delivered; a cancel or a lost client ends the command.
* **Calls**: output reaches registered calls only, and before the response; every
  method is answered, whatever breaks; no goroutine is left but the handler of a terminal
  that its method keeps.
* **Diagnostics**: the tree loses nothing; what has ended is not active; a
  stream is in order and misses only what it had no room for.
* **Daemon processes**: none serves a plugin of another; an orderly end leaves no
  plugin but those that were being loaded, unloaded or launched during it.
* **Scripts**: what is listed can be run; what stands behind an argument is what is
  parsed next; the result tells of each step.
* **Sudo channels**: nothing runs that was declined or has succeeded; success is
  what the last run said.
* **Clients**: a session is ended by the client that made it; prompts go to a server
  that runs.
* **MCP**: an answer reaches the prompt it answers; a password is used once, for
  the call it was given to.
* **Requests**: every field has a flag, every flag its place in the body.
* **Logging**: a logger follows its closest configured ancestor.
* **Resources**: a call that waited has a reading newer than itself; a watcher whose
  channel was never full has been told of every change it asked for.
* **Games**: positions are those that the rules in the code allow.

## 2. Modules

| Module | Models | Composition |
|---|---|---|
| `PluginService` | what a supervised plugin looks like from outside: up, down, over | abstract specification |
| `Supervisor` | `supervisor.go`: the monitor's goroutine, stop(), the processes and what kills them | implements `PluginService` through `Phase` |
| `PluginManager` | `manager.go`, the registry handlers, the daemon's main goroutine | extends `Supervisor`: its monitors run inside every call of the manager |
| `SessionStore` | sessions, shells, commands, scripts, finalization | |
| `PluginManagerProofs` | theorems about `Supervisor` and `PluginManager` | |
| `SessionStoreProofs`, `DiagnosticsProofs` | theorems about those modules | `DiagnosticsProofs` extends `Induction` |
| `Induction` | lemmas: induction over numbers, least elements, functions defined by recursion | |
| `SudoCache` | one session's credential, its keys, the calls that use it | part of `MCPrograms` |
| `SudoChannels` | the channels of the four calls that need privileges | part of `MCPrograms` |
| `BackgroundTask` | one background command from the plugin to the process | |
| `Executor` | calls of a plugin's methods with input and output | |
| `ExecutorProofs` | theorems about `Executor` and `TtySession` | |
| `TtySession` | a terminal on top of a call | extends `Executor` and composes its steps with its own |
| `Diagnostics` | engine, state cache, tree, streams, those who push | |
| `Lifecycle` | processes of the daemon, the port, the token of a plugin's requests | part of `MCPrograms` |
| `Scripts` | the parser, the registry, the runner and the client's report | part of `MCPrograms` |
| `Client` | Connect and Close of clients and what becomes of their session | part of `MCPrograms` |
| `Mcp` | the MCP server's loop, its calls, prompts and sudo requests | part of `MCPrograms` |
| `Commands` | the names of commands, tools and enum values | |
| `Schemas` | from descriptors to flags, tools and request bodies | extends `Commands`, part of `MCPrograms` |
| `Logging` | configured loggers and those that are made from them | part of `MCPrograms` |
| `Resources` | poller, shared readings, calls, watchers; lists and histories as functions | part of `MCPrograms` |
| `Minesweeper`, `Game2048`, `Solitaire`, `Battleship`, `Chess` | the rules and the keys of a game | |
| `Sums` | sums over numbered values, for 2048 and solitaire | |
| `Games` | the five games, each played by itself | extends them; part of `MCPrograms` |
| `GamesProofs` | theorems about the games | extends `Games` and `Induction` |
| `ProgramsProofs` | theorems about `BackgroundTask`, `Client`, `Mcp`, `Lifecycle`, `Scripts` and `Commands`, of each by itself | extends the six and `Induction` |
| `ServicesProofs` | theorems about `SudoCache`, `SudoChannels`, `Resources` and `Logging`, of each by itself | extends the four and `Induction` |
| `MCPrograms` | the machines that serve one user at a time: each behaviour runs one of them | extends them all |
| `MC*` | constants and symmetry sets for TLC | extend their module |

How state and actions correspond to code:

* **Supervisor.** A *slot* is one `supervisor` value, a *generation* one process it
  launches; `mon` is the monitor's program counter (`wait`, `backoff`,
  `rebuild`, `launch`, `handshake`, `done`). `MonitorWait` is everything from the return of `Wait` to the
  next blocking call. `LaunchStart`/`LaunchFinish` split `launch` at `Start`,
  where the process begins to exist and can crash or be killed. `StopClose`,
  `StopKill`, `StopReturn` are the three statements of `stop`; `ContextKill` is
  what `exec.CommandContext` does when its context ends. `Faults` says which
  slots may meet which failure.
* **PluginManager.** Every critical section of `Manager.mu` is one step; `Register`,
  `Adopt`, `Supervise` are the three that a load makes after its handshake. `Main`
  is the thread of `Daemon.Start`, the others serve registry RPCs and carry their
  request's context. `EditDisk` is the user.
* **SessionStore.** The three levels of locks are variables; a command is a number,
  written to the shell's input and echoed in its output up to a delimiter that
  `WriteCommand` attaches. `ReadLine`, `ReadDelimiter`, `ReadEOF` are the reader's
  cases. A delimiter is recognized at the start of a line; a command of the kind
  `unfinished` leaves it behind its own last line, and its reader goes on waiting.
  `abandoned` records commands whose stream ended before their output.
* **SudoCache.** Passwords live in a heap of slices, since the code zeroes them in
  place while others hold the slice. `GetSudoCache`, `CopyKey` and
  `decryptSudoPassword` are the critical sections between which the cache may
  change; reading bytes while they are zeroed (a data race) gives any outcome. `unproved` marks
  a password that sudo did not look at: one that `BackgroundExec` caches as it was typed, or one
  that came with a command for which sudo's own timestamp was still valid.
* **BackgroundTask.** `srv`, `rdr`, `crd` are the daemon's goroutines, `cli` the
  plugin's `readLoop`; `down` has a window, since `Send` blocks under HTTP/2 flow
  control. Pipes keep order, so chunks are counted and not named. A `Send` has a
  beginning (`ReadPipe`, `Begins`) and an end (`SendChunk`, `EndSend`), since two goroutines of
  the daemon, and `Cancel` and the goroutine of `Stdin()` at the plugin, use one stream with no
  lock: of two that overlap, the message may arrive, be lost, come garbled or be refused, and
  the daemon may panic. `mixed` records in which directions that has happened. `crd` is
  `"write"` while `stdin.Write` waits for the command to read, and receives nothing then.
* **Executor, TtySession.** `hnd`, `inp`, `http`, `rd`, `push` are the goroutines of a
  call in the daemon, `meth` the plugin's method; `tty`, `fwd`, `bridge` those of a
  terminal. All calls are of one plugin, since calls of different plugins share no
  entry. A method's lines are numbered, so that their order can be told. `Fail` stands for an
  error and for the death of the plugin, which ends its
  terminals; a method closes its terminal before it returns, as those in the
  repository do. The first attempt of `PushPluginOutput` to send is one step with
  its lookup.
* **Diagnostics.** `at[e]` says how far the goroutine that pushes `e` is: it has made
  its session (`created`), recorded the event (`applied`), is going through the
  subscribers (`notify`), or is `done`. `todo[e]` is the rest of the range over the
  map, in any order. A time window is any set of finished resources that it hides.
* **Lifecycle.** One record per process: `pc` is the main goroutine (a signal before
  `SelectSignal` kills, one after it leads to `AfterSignal`), `http` the goroutine that
  serves, `restart` that of a restart, `alive` the plugins it started. A plugin is `loading` from
  `Start` to `m.supervisors`, then `supervised`, and `unloading` while an unload stops it;
  `ShutdownPlugins` stops the supervised ones, and what is loaded, being unloaded or launched
  beside it is `late`. A process
  that is gone has `pc` in `restarted`, `killed`, `failed` or `ended`. Bounds: two
  processes, of which the first launches two plugins, one restart of each.
* **Scripts.** Text is a sequence of five classes of characters; the parser's
  functions cut it as the code does. A run has the parsed steps and answers to its
  prompts chosen freely; a command succeeds or fails.
* **Client, Mcp, SudoChannels.** One program counter per call of `Connect`, per request or per
  channel; the answers of users and of the other programs are free choices. A *crew* is the
  goroutines of a client that connect: one in a command, and in an MCP server its loop and the
  goroutines of `exec_run` and `script_run`, which share the client's fields (`clients`) and have
  local variables of their own (`connects`). `mixed` marks a client one of whose Connects changed
  what another relied on. `SudoGoto` is the order
  of the channels. In `Mcp`, a `StdinLine` is a call or an answer.
* **Schemas, Commands, Logging.** Functions over descriptors and configurations chosen at the
  start (`Declared` has of each type the types declared in it, a map's entries among them), then the calls that use them: a user who sets flags, a tool call; threads
  that ask for loggers.
* **Resources.** `pc` is the poller's goroutine in `Run`; each caller goes through
  `NoteCall`, `Wake`, `IsStale`, `PollNow`, `Get`. `Collect` is `collectAll` with the update
  of the shared state, which nobody else writes. Behaviours have calls or watchers,
  since neither looks at the other.
* **Games.** A key is an action, chance a choice; a board is a function of its squares. The rules
  are those of the code, which are not in all cases those of the game (section 5, *Games*).

## 3. Runs

| Run | Instance | Shows |
|---|---|---|
| `Supervisor_safety` | two supervisors, three generations each; one meets build, launch and context failures, the other only the end of its context | `OneLiveProcess`, `DoneMeansDead`, `DownAfterStop`, `ImplementsService`; `CrashIsAnswered` for the slot whose relaunches do not fail |
| `PluginManager_serial` | htop requires resources; three launches, calls one at a time, contexts that end, a user who edits the directory | `RegistryIsInStep` (`RegistryComplete`, `DependenciesLoaded`), `UnloadRespectsDependents` |
| `PluginManager_concurrent` | the main thread and an RPC thread in the manager at once | `StopOnce`, `NoUnsupervisedProcess`, `ShutdownKillsAll` under every interleaving |
| `SessionStore_safety` | two threads, one session, two shells, three commands that print, leave their last line unfinished or exit the shell, streams that are abandoned | `LiveShellsAreOwned`, `OwnOutput`, `NoCommandAfterFinalize`, `EveryCallReturns` |
| `SessionStore_nested` | commands that call the daemon | violates `NestedCallsEnd` |
| `BackgroundTask_safety` | all ways to get privileges, two pipes, a stream window of one, failing starts, lost connections, Sends that overlap, a stdin that is not read | `NoProcessLeft`, `TakenIsReceived`, `UnwantedTasksEnd` (`CancelEnds`, `DisconnectEnds`) |
| `Executor_calls` | two calls of a plugin, queues of one line | `OutputGoesToActiveCalls`, `OutputBeforeResponse`, `OutputKeepsItsOrder` |
| `TtySession_ends` | one call with a terminal; client and plugin may go away | `EveryMethodIsAnswered`, `LostClientEndsCall`, `TerminalsLeaveNothing` (`NothingIsLeft`, `ForwardingEnds`, `HandlerEnds`) |
| `TtySession_panic` | the same with three keys | violates `DaemonSurvives` |
| `Diagnostics_safety` | a plugin, its session, a command, a client's session; two overlapping calls, two streams with channels of one; three events at a time | `TreeIsComplete`, `PlaceIsRestored`, `EndedIsNotActive`, `StreamsAreFaithful` (`StreamIsComplete`, `StreamIsInOrder`) |
| `Diagnostics_labels` | the same | violates `LabelsHaveOneWriter` |
| `Programs_rules` | five games on small boards; scripts of up to three lines, all trees of two scripts; an MCP server with three calls and two prompts; an MCP server with two goroutines that connect, or with one and a command beside it, and a daemon that restarts; every combination of sudo channels; two sudo calls at once; three message types; loggers in ten configurations; two callers or a watcher of the poller; two daemon processes, the first with two plugins | `GamesFollowTheirRules`, `ScriptIsReported`, `AnswersReachTheirCall`, `ClientsShareSessions`, `SudoAsksAndRunsRightly`, `CredentialIsSafe` (`ReplacedIsZeroed`, `NoRefusedIsCached`), `PluginGetsWhatWasTyped`, `LoggersFollowTheirConfiguration`, `ResourcesAreFresh`, `ListsAreRight`, `DaemonsTakeTurns` |

Type invariants are checked with another invariant of their module
(`NoUnsupervisedProcess`, `LiveShellsAreOwned`, `NoProcessLeft`, `EndedIsNotActive`,
`CredentialIsSafe`) or on their own (`SupTypeOK`, `TypeOK` of `TtySession`, which has
`ExecTypeOK` in it).

`Programs_rules` is a sum and not a product: its machines share no state in the
code (games are drawn in a terminal of one user, a script runs in a request, ...),
so a behaviour that runs two of them is an interleaving of two that run one. `running`
says which, and the others stay in their initial state (the crew of clients, a constant choice,
is made only where the clients run).

**Bounds, and why they are enough.** The properties speak of at most two actors and
of one limit each, so each instance has two of what may race and one of what may
be full: a channel or queue of one is full after one element; two generations after
the first let a relaunch itself crash or fail; two threads in a store give every
pair of operations, and with one session they all collide. `MaxCmds`, `MaxLines`,
`MaxInput`, `MaxChunks`, `MaxEvents`, `MaxTime`, `MaxGen` and `MaxInFlight` bound
what is otherwise unbounded; a step that would pass one is disabled, and
`CHECK_DEADLOCK` is off because a run that has used them up, and a daemon that has
exited, really stop. `PluginManager_concurrent` keeps supervisors free of faults
and the directory fixed: those are the serial run's subject, and an interleaving
of two calls is already the largest instance here. Threads and calls in
`Executor_calls` and subscribers in `Diagnostics_safety` are symmetric; no liveness
is checked under symmetry.

In `Programs_rules`, texts have up to five characters, since a quote, an escape, a space and a
word before a second quote are five; scripts three lines, so that a step has one before and one
behind it. A graph of three types has a type that is shared, one that contains itself and one
that does so through another. Games have the smallest boards on which each rule applies: three
columns of cells for a flood that stops, two merges in a row of 2048, two suits of three ranks,
two ships, and lines of chess up to four plies from the first position and four more
(`Developed`, `Pinned`, `Cornered`, `Foolish`) in which castling, a pinned piece, en passant,
mate and a king in the other side's corner occur. Lists have up to three processes, recordings
up to four numbers, so that a history of two is full and has lost two; counts are from -1 to 3.
`MaxPlies`, `MaxAI`, `MaxRequests`, `MaxPrompts`, `MaxAsks`, `MaxSessions`, `MaxServers`,
`MaxStops`, `MaxSet`, `MaxDepth`, `MaxLoggers`, `MaxClock`, `MaxPolls`, `MaxAsked`, `MaxDaemons`
and `MaxLoads` bound the rest: with three polls a call can ask while one is under way and be
served by the next, with two ticks data becomes stale once. Three calls, of which two wait for a
password and one submits it, or two calls that prompt, are the four `MaxAsks` that can be mixed
up.

**Fairness.** Every fair action is a goroutine that Go's scheduler runs, at a point
where the code waits for nothing that may never come:

* the monitor and stop() of a supervisor: weak fairness. A plugin is never assumed
  to exit; a process that was killed is.
* threads of `SessionStore`: strong fairness, since Go's mutexes hand over to a
  waiter after a millisecond and so starve nobody. Shells are weakly fair, the
  commands of `SessionStore_safety` being ones that end. A reader that overlooks its
  delimiter has no step to take.
* `BackgroundTask`: weak fairness of the handler, of both pipe readers, of the
  reader of the client's stream and of the client, whose user is assumed to read
  `Stdout`. The command itself has none: it may run for ever, and never read its input.
* `TtySession`: weak fairness of the daemon's goroutines while the daemon lives,
  strong fairness of `CloseTty`, which waits for a mutex that others take again
  and again. Methods, plugins and clients have none.

`PluginManager`, `Diagnostics` and the machines of `Programs_rules` are checked for safety
alone.

**Mutants.** For each property `PROJECT.json` names a plausible error in the code
(a dropped guard, an early return that forgets something, a swapped order) written
as an operator beside the one it changes, with which TLC refutes the property; a
property that joins two has a mutant for each.

## 4. Theorems

All theorems hold for every value of the constants that satisfies the named assumptions of the
modules (`SupervisorAssumption`, `ManagerAssumption`, `SessionAssumption`, `TaskAssumption`,
`CacheAssumption`, `ExecutorAssumption`, `DiagnosticsAssumption`, `FiniteAssumption`,
`ScriptsAssumption`, `CommandsAssumption`, `ListsAssumption`, `MinesAssumption`,
`TilesAssumption`, `SolAssumption`, `FleetAssumption`, `ChessAssumption`, `ClientAssumption`,
`McpAssumption`, `ResourcesAssumption`, `LoggingAssumption`; `TtySession`, `SudoChannels` and
`Lifecycle` need none), so for any number of slots, plugins, threads, sessions, shells, calls,
lines, queue sizes, resources, subscribers, clients, prompts, daemons, watchers and loggers, for
texts, trees, lists and boards of any size. The assumptions say that bounds are numbers, that
sentinels are none of the values they stand beside, and what the code's data always satisfies (a
plugin does not require itself; its go.mod lists the indirect requirements). One theorem about
the tree and one about loggers have hypotheses of their own, named below.
Each inductive invariant was checked with TLC on the instances of the runs first.

**`PluginManagerProofs`, the supervisor.** `SupTypeCorrect`, `SupInvHolds`, `OneLiveProcessHolds`,
`DoneMeansDeadHolds`, `DownAfterStopHolds`, `CleanExitIsFinalHolds`,
`SupervisorImplementsService`.

`OneLiveProcess` is not inductive: it does not say that the generation after the
current one is unused when the monitor is about to launch it. The inductive
invariant is `IInv == SupTypeOK /\ SupInv`; `SupInv` is a conjunction over slots of
`SlotInv`: past generations are dead, future ones do not exist, a monitor in its
relaunch has reaped its process and has no successor yet, a monitor that is done
has nothing alive. A step of one slot leaves `SlotInv` of the others alone
(`OtherSlots`), so each action has one lemma about its own slot. The four safety
properties follow from `IInv`, `CleanExitIsFinal` as an action property of a step
under `IInv`.

For the refinement, `Phase(s)` maps a slot to `none`, `up`, `down`, `over` or, with two live processes,
`twice`, which `PluginService` does not have: it is a
function of its process and its monitor, and each action lemma shows that it stays
or makes one step of `PluginService`.

**`ExecutorProofs`.** `OutputGoesToActiveCallsHolds` and `OutputBeforeResponseHolds`,
of the composition of `Executor` and `TtySession`. `OutputBeforeResponse` speaks of
queues; what makes it true is where lines may still come from. `ExecInv` adds it:
`PushInv` (a line that a Log handler is pushing is its method's own, and that method
has not returned), `Stages` (a response is only sent for a method that has
returned), `PluginEntry` and `TtyInv` (lines of terminals are not counted as the
method's own); its types are those of the properties without their bounds, and that lines are
counted (`Counted`). Then a response that is sent with drained queues stays so: nobody is
left who could add to them (`Drained`).

`ExecTypeOKHolds` and `TypeOKHolds` need `TypeInv`. Two bounds of the types are not
inductive: that a stdin buffer never holds more than the client may send (`Input`: what is
buffered and what is on its way add up to no more than was sent), and that no queue exceeds
its channel (`Room`, by the guard of each push, `RoomKept`).

**`ProgramsProofs`.** Of a background command (`Spec`) and of machines of
`MCPrograms`, each by itself (`ClientSpec`, `McpSpec`, `LifecycleSpec`, the scripts' and the commands').

`NoProcessLeftHolds`, `TakenIsReceivedHolds`. `RunInv`: the
process runs only while the handler waits for it. `FlowInv`: per pipe, what was received
and what is on its way (in `down`, or with a reader in `Send`) is no more than what was taken, and
as much while the connection lasts and no two Sends have overlapped. `OrderInv`: the exit code is
the last message and comes after both readers are done, so who has it has everything. When Sends
of the two pipes did overlap, which nothing in the code prevents, `TakenIsReceived` promises no
more than that nothing is received that was not read. `Flow`
counts messages in a queue; the lemmas about `Count` (of an empty queue, of `Append`, of
`Tail`) say how each step changes it.

`ClientsShareSessionsHolds`. `ClientInv` says of a session (`SessionInv`) that it has a
maker while it lives, that only an open one has a key and that none outlives the daemon;
of its URL (`UrlInv`) that the client whose server it is has closed, or is connected to
this session with that server; of a client (`ProgramInv`) that whoever owns its session is
its only maker, and that its key is of no other session; of a call of `Connect` (`CallInv`) what it
relies on between its steps. Two goroutines of an MCP server may be in `Connect` at once: from
then on the client is `mixed`, and `ProgramInv`, `CallInv` and the property say nothing of what
it does, but that a session is finalized by clients that made it or are mixed. For the others
`OneAtATime` holds, which is why their Connect is as good as atomic. One lemma carries all
steps that leave the sessions alone; those that change one or all have their own.

`AnswersReachTheirCallHolds`. `McpInv`: a prompt that waits without an answer is pending,
and there is a line with its answer only once the user has given it (`PromptInv`), so the
line that the loop takes from the agent is that of a prompt that has been answered; each
call is on one line at most, which has not begun (`LineInv`), so an accepted submission is
never run again and its password goes to one call (`PasswordInv`).

`DaemonsTakeTurnsHolds`. The property does not say why a daemon
that is closed has only late plugins, or why one that is born does not listen;
`LifeInv` adds both. `DaemonInv`: until Shutdown every living plugin is being loaded, supervised
or being unloaded (`Known`); after it, what the daemon knows is late; and the unborn have nothing.
`OneChanges` is the lemma of all actions that change one daemon; the step of a restart
changes two and is done apart, with `Birth` for the new one.

`ScriptIsReportedHolds` has three parts. `RunnerInv` says of a run that it has no more results
than steps, that as long as nothing has failed they are all good, that one that is done has told
of all steps and has no event open, and that the exports are the answers in their order.
`TreesAreRight`, by induction over the levels of a tree: the walk enters only directories that
none above them excludes (`EnteredIsOpen`), and the resolver finds a script by the name it is
listed under (`ListedAs`, `TreeIsRight`). `RestIsRight` follows the parser through a text:
whether a quote is escaped depends on the characters before it (`EscapedIs`); `EndIs` and
`EndOfString` find by induction where the argument ends, counted in characters that are kept,
and `FromQuote` where the rest begins, except for the texts that the property excepts.

`EveryMethodHasItsCommandHolds`: two methods have two commands and two tools, in any set of
services whose short names differ. `EveryEnumResolvesHolds`: the short name of a value, unless
it is another's full one, is resolved to the value.

**`PluginManagerProofs`, the manager.** `StopOnceHolds` and `NoUnsupervisedProcessHolds`, with any
number of calls in the manager, any failures and a directory that changes. Neither
property is inductive: both depend on who may find a slot. `PInv` is the supervisors'
`IInv` (above), the types, and `ManagerInv`, which follows a slot from
hand to hand: the loadPlugin that launches it has it alone, so nobody has stopped it
(`HeldInv`); a slot in `supervisors` is started and not stopped (`MapInv`); a thread that
stops one took it out of the map, or is Shutdown, whose `todo` it has left and which holds
`mu` (`StopInv`, `MuInv`); one without a monitor lives only in a loader's hands
(`LaunchInv`). A step either leaves every slot where it is (`Calm`, `FrameStep`) or passes
one on (`PassesOn`, `PassStep`), and these two lemmas carry the other threads.

`ShutdownKillsAllHolds`, also with any number of calls. `DownInv` is the loop of Shutdown: a
supervisor in the map is still in its `todo`, is being stopped by it, or has a monitor that has
ended. Shutdown holds `mu`, so that the map stays as it is (`MapRests`), nobody else moves its
thread (`MainMoves`), and no step revives a monitor that has ended (`StepDoneStays`). What the
map does not have, a plugin that is still being loaded or already being unloaded, Shutdown does
not stop (section 5, *Manager*; `Lifecycle` has those as `late`). `SupervisorsAreLiveHolds`: what
an unload finds in the map can be stopped, by it alone. `ManagedSupervisorsHold`: under the
manager, which adopts and stops them, the supervisors keep the three properties that are proved
of each by itself.

`UnloadRespectsDependents` and `RegistryIsInStep` are not proved. They hold when calls come one at
a time, as the run has them; with two at a time TLC refutes both (an unload that overtakes a load
between its three critical sections, or the load of a dependent), and the code serializes no
calls.

**`SessionStoreProofs`.** `LiveShellsAreOwnedHolds`, `NoCommandAfterFinalizeHolds` and
`OwnOutputHolds`. For the first two `OwnInv` adds to the types and to the property that
a session's shell was started for it, so that a shell not yet started is nobody's, and
that a call past `ensure` has a shell. `OwnOutput` looks at one call; that nothing else
comes out of its shell's pipe needs the whole path of a command. `OutInv`: no command
is issued twice (`IssuedOnce`); whoever holds a shell's lock reads that shell; what is in
its queues belongs to the holder or to an abandoned stream, and nothing of a command
follows its delimiter (`ShellOut`). So a lock that is given up leaves an empty pipe or an
abandoned command.

**`ServicesProofs`.** Of four machines of `MCPrograms`, each by itself.

`CredentialIsSafeHolds` for any number of threads with calls in
`SudoCache`: `CacheInv` adds what each call holds at each place (`CallInv`), above all that
a password is about to be sealed only if sudo took it or did not look at it. `SudoAsksAndRunsRightlyHolds` of
`SudoChannels`, whose steps are functions on one record: `SudoInv` says of a call that is
not done what may still be asked and run (`Undecided`, `GoesOn`, `MayRun`), and one lemma
per function shows that it is kept. That a command which has succeeded is run again, or its
success not reported, is excepted for `BackgroundExec`, which does both (section 5, *Sudo*).

`ResourcesAreFreshHolds` of `ResourcesSpec`. `PollerInv`: a reading is numbered by its
poll, and what is announced is newer than what was. `CallerInv`: a call that waits is in
the queue or is served, once and not both, and the data cannot be older than its
request when it is. `WatcherInv`: a watcher's channel is in the order of the readings, with
nothing newer than what was announced, and while it was never full the watcher was sent the
last of what it asked for. The queue is a sequence of callers, so that steps on it
are `QueueGrows` and `QueueStays`. What the poller computes from the calls (`nextInterval`,
between `MinInterval` and `MaxInterval`) is arithmetic over all counts; that a list of
calls is trimmed at its first recent one uses `Least`.

`ListsAreRightHolds`: `ReorderedCounts` says of the two loops of
the sort, each by induction, that they permute a list and order it; `HistoryLists` that the ring
is the last of what was recorded, in order; `TrackSees` that the extremes are those of all that was
seen.

`LoggersFollowTheirConfigurationHolds` of `LoggingSpec`. `resolve` is a recursive function over the
configured loggers, `NameLen` one over a name's segments. `Widths` and `ChoiceSteps` unfold
them; `LongerPrefix` says that of two prefixes of a name the one with more segments has more
characters, which is why comparing lengths finds the closest ancestor
(`ChoiceIsLongest`, `LongestIsClosest`). `LogInv` says of every logger in hand and every
cached one that it was right when it was resolved, and what `AddPluginSink` may have done
since: `SinkAdded` and `LoggerAdded` carry the old ones over its two steps. The hypothesis
`PlainConfigs`: no two loggers of a configuration have one name, and none asks for the sink that
a plugin adds later. A logger that does, and is resolved before, has all sinks for ever; two
of a name have no one that is the closest.

**`DiagnosticsProofs`.** `PlaceIsRestoredHolds`, `EndedIsNotActiveHolds`,
`StreamsAreFaithfulHolds`, `TreeIsCompleteHolds`, the first three from one invariant. `EndInv`
adds that what has an end had its start pushed before, so that no late start makes it active;
`MetInv` that while an event is offered, those it is no longer to be offered to have met it;
`OfferedInv` that a stream has only events that were offered. With these `StreamIsInOrder` is
inductive.

The tree is built level by level, by a recursive function on the number of levels
(`Levels`). `TreeHasAll`: as long as parents have lower ranks than their children, the least
resource that a level lacks has its parent in that level or is a root, so each level adds
something until all are there, and there are no more levels needed than resources. The hypothesis
`NoCycles` gives the ranks: the parents that events name make no cycle, and no caller of a plugin is
below the plugin's own session. It holds of callers that are sessions of clients, which
executor_svc.go:365-373 takes from the request and protoflags.go:445-447 sends; a user who
calls a plugin with `--session` and that plugin's own session makes the session its own parent,
and so loses it from the tree during the call (section 5, *Diagnostics*).

**`GamesProofs`.** `GamesFollowTheirRulesHolds` of `GamesSpec`, from a theorem for each game. The
rules are those in the code: solitaire's colours and two kinds of chess moves are not what the
game's own rules want (section 5, *Games*).

`MinefieldAddsUpHolds`. `MinesInv` adds the types, and that bombs lie bare only in a game that is
over. `FloodIsFlooded`, by induction over the rounds of a flood: beyond the cell that is
opened it bares only hidden cells without a bomb, and nothing when that cell is one. Counts of
cells (`Revealing`, `Flagging`) then give the counter and the verdicts.

`ScoreIsEarnedHolds`, for boards of any size. `SlideInv` is a row's invariant over the tiles that
`sl` has gone through: what it has made is worth as much as those tiles, less
the score. `WorthByLines`: a board is worth the same by rows and by columns (`SumSwap`), so
`WorthOfSlid` adds up the rows of any direction. `RuleInv` compares the loop with the
rule of merging (a run of equal tiles merges in pairs from the front), for every row. `CanMove`: a
board that no direction changes is tight in all its rows (`RowStays`), so `can` finds no free cell
and no equal neighbours, and the other way round.

`CardsArePlacedByTheRulesHolds`, for any suits, ranks and columns. `Table` says that the piles
hold the deck and as many cards as it has, so that each card is held once. Each operation moves
cards between two piles: `Balanced` and `TableMade` turn what it does to two piles into what it
does to the table, `CutColumn`, `JoinColumn` and `TailColumn` say what is left of a column and
what it becomes, `PlacePile` that a foundation stays in suit. `AutoPassKeeps` and `AutoKeeps`
are inductions over columns and passes. That a new game is a table: the rounds of the deal cover
the cards before the stock, each once (`RoundOf`, `Used`). `CompleteIs`: foundations that are
all full hold the deck, since two of a suit would hold one card twice and there are as many
foundations as suits.

`BattleIsFairHolds`, for any ships. `FleetInv`: nobody has fired before the last ship is placed.
A ship takes as many cells of water as it has (`ShipHasItsSize`, `Putting`), so grids have the
cells of the ships placed so far (`FilledIs`, by induction over the ships that chance places),
and a shot turns cells of ships to hits, which count as theirs (`Shooting`).

`PositionsAreLegalHolds`. `Sound` is the invariant of a game: the right to castle implies a king
at home (`RightsStay`), no pawn stands at either end (`PawnsStay`), and the side that is not to
move is not in check, so no king can be taken (`KingIsNotTaken`). `lg` tests the king on a board
that it makes for that; `OwnKingStaysSafe` takes a piece that would strike the king on the board
that `ap` makes, and finds that it strikes it on that of `lg` too. The two boards differ after a
capture en passant and after castling; with the first, and with castling that carries the other
king (section 5, *Games*), the property promises nothing. The other moves change so few squares
that what is left of the lines between pieces follows from `BoardIs`. `ChessAssumption` asks of
the positions that games start from what the property says of them.

**`Induction`.** The library's theorems for induction and recursion take an operator as a
parameter, which the provers cannot instantiate. `SetInduction` is induction for a
set in place of a predicate; it is proved from the pigeonhole principle for finite sets
(`FS_PigeonHole`): if a set that is closed under successor lacked n, the numbers up to n that it
lacks could be shifted into those of them below n, of which there is one less. `Least` (a set of
numbers has a least one) and `Recursion` (a function exists that has a given first value and
step) follow from it. A recursive definition is a CHOOSE; each lemma that unfolds one
(`Widths`, `ChoiceSteps`, `Levels`) shows that a function with the recursion exists,
picks the chosen one, and proves by `SetInduction` that the two agree.

**Model-checked only.** Liveness (`CrashIsAnswered`, `EveryCallReturns`, `UnwantedTasksEnd` and
those of `TtySession`) is beyond the prover, and so stays with TLC. So do
`UnloadRespectsDependents` and `RegistryIsInStep` (above), `OutputKeepsItsOrder`, and
`PluginGetsWhatWasTyped`, except for the two parts of `Commands`: a schema is a tree as deep as
its types, and `Schemas` makes and reads it with recursive operators, on which the prover cannot
reason at all. A recursive function in their place needs a proof that it exists, and `Recursion`
proves that for values in a given set; trees of any depth over any types have none
that is given beforehand. `MCPrograms` composes machines that have their own theorems and has none
itself.

## 5. Where the code departs from what it says

Kept as runs that TLC violates, with a finding in `PROJECT.json`:

1. **Nested commands and finalize** (`SessionStore_nested`). `Finalize` holds
   `SessionStore.mu` while it waits for a running command; a `dotfilesctl` in that
   command waits for `SessionStore.mu`.
2. **Send after return** (`TtySession_panic`). The goroutine that forwards input looks
   at `done` only between two reads; io.go:122 says why it must not send then.
3. **Shared labels** (`Diagnostics_labels`). Every stream writes into the one labels
   map of an event.

Met while modelling; the models do what the code does:

* *Supervisor.* supervisor.go:204 and :212 log "will retry"; the loop then waits for
  a process it has reaped, `ps == nil` (:177) is taken for a clean exit, and nothing
  is retried. A stop() that comes between a relaunch and the store of its process
  kills the old one and waits for the new one to exit by itself (:210-222, :265-279).
* *Manager.* After a relaunch the registry keeps the dead process's URL (:218-222;
  docs/plugins.md:187 says otherwise). A plugin loaded by RPC is supervised under
  that request's context and dies with it. An unload between `Register` and
  `Supervise` finds no supervisor. A load that an unload overtakes returns neither
  plugin nor error; an unload may pass the test for dependents while a dependent
  is being loaded. Shutdown does not see a load or an unload in flight: the process that
  `loadPlugin` has started (manager.go:350) is not in `supervisors` before :439-441, and one that
  an unload has taken out is in no table either, so that the daemon may exit without them. A restart and an error
  of the HTTP server exit without `ShutdownPlugins`.
* *Sessions.* A stream that its client abandons leaves its output in the shell's
  pipe for the next command (session.go:288): `OwnOutput` excepts it through
  `abandoned`. The delimiter is looked for at the start of a line (session.go:253-272): behind
  output without a final newline (`printf x`) it is glued to it, and a command that reads its
  input may swallow the line that echoes it; the reader then waits for ever, with the shell's
  lock, and a Finalize after it with the store's. `EveryCallReturns` excepts both.
  `Connect` accepts a finalized session.
* *Background commands.* exec.go:828-829 promises a final exit event:
  `run` stores true in `t.exited` (background_task.go:164) before `sendExit` swaps
  it (:241), so it is never sent. `cmd.Wait` closes the pipes on unread output.
  The goroutines of the two pipes call `t.stream.Send` without a lock (:146-156, :199), and the plugin's
  `Cancel` and `Stdin()` theirs: messages may be lost or garbled, or the race panics, and with
  the daemon ends everything but its commands. `readClientStream` writes to the command's stdin
  itself (:225-226): while a full pipe makes it wait it sees no cancel and no end of the stream.
  `TakenIsReceived`, `CancelEnds` and `UnwantedTasksEnd` except these.
  Commands with a cached password run twice; those that need a new one get it as their
  `cmd.Stdin` (exec.go:884, :906), for which `StdinPipe` fails (:118-121), and are not run at all.
  `Stdin().Close` is not transmitted.
* *Sudo.* A command that fails with the cached password is run again after a prompt.
  The cache can be refilled after the session was finalized; an expired entry stays
  in memory until the next access; `GetSudoCache` may return zeroed bytes.
  `GetSharedKey` may delete an entry that was renewed meanwhile (session.go:778).
  `SudoExec` with a graphical session, no askpass and a pkexec calls itself for ever
  (exec.go:731-737). `BackgroundExec` caches a password as it was typed (exec.go:887, :907),
  though no sudo will see it: a wrong one stays until a call fails with it. What its
  `tryCachedSudo` ran to the end is started once more, and may not be let in then. While
  sudo's timestamp is valid a wrong password is accepted and cached. Like `ExecStream` it does not
  remember that elicitation does not work.
* *Daemon.* `errCh` is read only after `InitPlugins`: a daemon that has no port starts all
  its plugins, then leaves them. A signal during `InitPlugins` kills it at once. A
  restart starts the new process while the old one has the port; if that is still
  so when the new one listens, nobody serves afterwards, which no property excludes.
  A crash, like a daemon that is killed, leaves all its plugins. The comment on `recoveryMux` (server.go:202-204) says the daemon crashes; net/http recovers.
* *Scripts.* `extractFirstQuoted` cuts wrongly behind an empty string, a leading
  backslash or doubled quotes; `@input ""\` panics: `ScriptIsReported` excepts them. A README
  with front matter that has no `enabled` disables its directory. A disabled script
  can be run, `x.dsh.dsh` not by the name it is listed under. `@confirm ... as NAME`
  ignores the name (system/update.dsh:6 relies on it). Lines are run one by one, so an
  `if` of several lines hangs, with the shell's lock (session.go:181-225).
* *Clients.* `Connect` looks at `connected`, unlocks, and sets it at its end (client.go:220-225,
  412-416): two tools of an MCP server (mcp.go:569-575) may both connect it, make two servers and
  two sessions, and the client closes one of each; it may finalize a session that it was given.
  `ClientsShareSessions` excepts such clients. After a failed ping `SessionID` is kept, so that the client never finalizes
  the session it then gets. A nested client takes over the callback URL and the key
  of its parent, and leaves the URL dangling; with the key the cached password can no
  longer be read.
* *MCP.* The health check exits whatever is under way, and a prompt of any kind ends with the
  daemon's request. Some tools run in the main loop and deadlock with a script that prompts
  (the comment of mcp.go:555-561 explains it for the others). A late answer is answered with
  "unknown method". A sudo request of MCP Apps names no session, so no key is found
  and its failure has exit code 0. A submit without `request_id` takes any pending request.
  The list of plugin tools is never refreshed.
* *Requests.* A repeated message takes one field of each element. A message that directly
  contains itself recurses for ever in `addFlagsFromSchema`; two fields with one kebab name
  panic in pflag; `7x` is read as 7. Types that contain each other, and a declared type
  with a field of the type that declares it, may lose fields.
* *Logging.* A logger that is resolved before `AddPluginSink` has made the one sink it is
  configured with writes to all sinks for ever. "root", four letters long, is taken for closer
  than a configured name that is shorter. `Reconfigure` sets a variable that nobody reads.
  Plugin sinks do not reach loggers that are cached. `Child` reads the configured loggers and
  sinks without `m.mu` (logger.go:99) while `AddPluginSink` appends to them: a data race, of which
  the model has the outcomes that some order of the two gives, and no torn slice. slog levels 5 to 7 pass as errors and are
  written as info.
* *Resources.* The interval is computed right after a poll, so the poller hardly ever
  rests (poller.go:9 says it does). `PollNow` returns without fresh data when the queue is full
  (poller.go:63-66), and waits for ever when `Run` has returned. A watcher whose channel
  was full misses a change for good, and slow drift is never reported, since what is
  compared is the last response of all. The extremes of a temperature take 0 for none.
* *Games.* In minesweeper and chess a key acts some cells right of the cursor (the padding is
  not subtracted). Chess, which follows "standard chess rules" (games.proto:57): the corners
  clear the castling rights of the other side (main.go:758-785), so that a right outlasts its
  rook, and castling moves whatever stands in the corner: a black king that has taken the rook
  on a1 is carried to d1. The attempt to prove that both kings stay on the board found it;
  `PositionsAreLegal` excepts what `unseen` notes. En passant is tested with the captured pawn
  on the board; stalemate is shown as a win; the user may move for Black before the timer, and the
  timer then for White.
  Solitaire's README has columns "alternating colors" (README-solitaire.md:26); `can` compares
  halves of the suits (main.go:303-308), so that spades lie on clubs and hearts not on spades.
  It compares commands as strings, so that `3 5` and `w 9` panic. 2048 takes no keys
  after 2048 (its README says otherwise).
* *Calls.* `PushPluginOutput` prefers the plugin's entry: output of one client's call
  may go to another's (io.go:64-65), and the end of a call deletes the plugin entry
  of a later one (executor_svc.go:59-64). A resize is forwarded only after the next
  key. The handler of a terminal stays in `stream.Receive` while the method keeps the terminal,
  also after the call: nothing tells the plugin that its client is gone. `ttyConn.Close` waits for
  `readMu`, and for ever if nothing comes any more. The client's end of input is never sent
  (protoflags.go:533-535). Terminal output in flight is lost when the response
  comes, all of it when the method fails.
* *Diagnostics.* A session of `Create` may be finalized before its start event and
  is then shown as active for ever: `EndedIsNotActive` and `StreamIsInOrder` except
  such sessions. Plugins loaded or unloaded by RPC have no events, crashes none.
  `MaxAge` is never enforced and states are never evicted. Two `include_types` match
  nothing. A plugin that is called in its own session is its own parent and
  disappears from the tree; callers in the model are clients.

## 6. Left out

* *Data*: contents of output, prompts, environment, durations of backoff, formatting.
* *Pure I/O and glue*: git status, documentation, requests for descriptors, screens of
  htop, tuidiag and tmuxbar, the adapters of the small plugins, the collectors of the
  resources plugin, shell scripts, generated code. `PROJECT.json` lists each with a reason.
* *Composition*: `Programs_rules` runs its machines one at a time. A script's shell is
  `SessionStore`'s, a sudo call's credential is one answer in `SudoChannels` and a heap of
  slices in `SudoCache`: the modules share no variables.
* *Hazards without a property*, since the code as it stands meets them (section 5): a
  relaunch that is not retried, a registry entry that is stale after a relaunch, a
  plugin that dies with the request that loaded it, a load that returns nothing, a
  wait in Shutdown for a plugin's own exit, an exit event that is never sent,
  `ttyConn.Close` waiting for a key, `GetSudoCache` and `GetSharedKey` beside a writer.
* *Operating system*: whether a process dies when it is killed (assumed), ports,
  process groups, terminals' line discipline.

## 7. Plan

Done, most important first: Supervisor and PluginService, PluginManager,
SessionStore, BackgroundTask, SudoCache, Executor and TtySession, Diagnostics,
Lifecycle, Client, SudoChannels, Mcp, Scripts, Schemas and Commands, Logging, Resources and the
games; proofs of the safety properties that the runs check, but those that section 4 leaves to TLC.

Next, in this order:

1. `Schemas` with a recursive function over paths in place of trees, and what can then be proved of
   `PluginGetsWhatWasTyped` with `Induction`.
2. Abstract specifications: a session's shell as an atomic queue of
   commands, implemented by `SessionStore`; a plugin call as request, ordered
   output, response, implemented by `Executor`.
3. Liveness of `Resources` (a caller that waits returns unless the plugin stops) and of
   `Mcp` (every call is answered), under weak fairness of their goroutines.
4. `Lifecycle` over `PluginManager`: what the manager does while processes follow one
   another.
