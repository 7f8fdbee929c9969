--------------------------------- MODULE Client ---------------------------------
(***************************************************************************)
(* The clients and the sessions they share (cli/client.go, with the        *)
(* daemon's side in daemon/session.go and key.go).  A client connects to   *)
(* the session it is given, by --session or by the shell that it was       *)
(* started in, or to a new one of its own; a feedback server of its own    *)
(* receives the daemon's prompts, and a key is negotiated for passwords.   *)
(* A command connects once.  An MCP server connects before each tool: its  *)
(* loop, and the goroutines of exec_run and script_run beside it, without  *)
(* a lock across Connect.  The daemon may be restarted at any time,        *)
(* without its sessions.                                                   *)
(***************************************************************************)
EXTENDS Naturals

CONSTANTS Clients,     \* running programs
          Mcps,        \* those of them that are MCP servers
          Crews,       \* sets of goroutines <<c, n>> of clients c that connect; 0 is the first
          MaxSessions, \* sessions that the daemon creates
          MaxServers,  \* feedback servers that clients start
          MaxStops     \* how often the daemon goes down

ASSUME ClientAssumption ==
    /\ "nobody" \notin Clients /\ {MaxSessions, MaxServers} \subseteq Nat
    /\ \A crew \in Crews :
          crew \subseteq Clients \X Nat /\ \A r \in crew : r[1] \in Mcps \/ r[2] = 0

NoSession == 0
NoServer == 0
SessionIds == 1 .. MaxSessions
Servers == 1 .. MaxServers

VARIABLES
    daemon,   \* [up, stops, keys]: running, times it went down, keys negotiated
    sessions, \* SessionStore.sessions: of each id its state
    servers,  \* feedback servers that were started: [by, open]
    clients,  \* the clients: the fields of Clients that their goroutines share
    connects  \* the calls of Connect: of each caller its place and its local variables

clientVars == <<daemon, sessions, servers, clients, connects>>

Connectors == DOMAIN connects
Program(r) == r[1]

\* opened: the clients that made the session, by a request without an id.
NoSuch == [st |-> "none", url |-> NoServer, key |-> 0, opened |-> {}]
\* own: ownSession; mixed: a Connect changed what another one of the client relied on.
Off == [pc |-> "off", sid |-> NoSession, own |-> FALSE, connected |-> FALSE,
        feedback |-> NoServer, key |-> 0, mixed |-> FALSE]
\* id: the session of the request; had: hadSession; fb: its feedback server.
Idle == [pc |-> "idle", id |-> NoSession, had |-> FALSE, fb |-> NoServer]

ClientInit ==
    /\ daemon = [up |-> TRUE, stops |-> 0, keys |-> 0]
    /\ sessions = [s \in SessionIds |-> NoSuch]
    /\ servers = [v \in Servers |-> [by |-> "nobody", open |-> FALSE]]
    /\ clients = [c \in Clients |-> Off]
    /\ connects \in {[r \in crew |-> Idle] : crew \in Crews}

\* A program starts, alone or in the shell of a session.
StartClient(c) ==
    /\ clients[c].pc = "off" /\ \E r \in Connectors : Program(r) = c
    /\ \E s \in {NoSession} \cup {i \in SessionIds : sessions[i].st = "open"} :
          clients' = [clients EXCEPT ![c] = [Off EXCEPT !.pc = "on", !.sid = s]]
    /\ UNCHANGED <<daemon, sessions, servers, connects>>

\* The daemon ends, and its sessions with it.
DaemonStops ==
    /\ daemon.up /\ daemon.stops < MaxStops
    /\ daemon' = [daemon EXCEPT !.up = FALSE, !.stops = @ + 1]
    /\ sessions' = [s \in SessionIds |-> [sessions[s] EXCEPT !.st = "none", !.url = NoServer, !.key = 0]]
    /\ UNCHANGED <<servers, clients, connects>>
DaemonStarts ==
    ~daemon.up /\ daemon' = [daemon EXCEPT !.up = TRUE] /\ UNCHANGED <<sessions, servers, clients, connects>>

-------------------------------------------------------------------------------
(* Connect, of a caller r of the client Program(r).                        *)

Me(r) == clients[Program(r)]
At(r, pc) == Me(r).pc = "on" /\ connects[r].pc = pc
Goes(r, pc) == connects' = [connects EXCEPT ![r].pc = pc]
\* Between the test of connected and the return.
Busy(r) == connects[r].pc \in {"prepare", "request", "store", "own", "negotiate"}
Mixes(r) == \E q \in Connectors \ {r} : Program(q) = Program(r) /\ Busy(q)

CloseServer(v) == [servers EXCEPT ![v].open = FALSE]
CloseFeedback(c) == IF clients[c].feedback = NoServer THEN servers ELSE CloseServer(clients[c].feedback)

\* A tool is called, or the one command of a program.
CallConnect(r) ==
    /\ At(r, "idle") /\ (Program(r) \in Mcps \/ ~Me(r).connected)
    /\ Goes(r, IF Me(r).connected THEN "ping" ELSE "check")
    /\ UNCHANGED <<daemon, sessions, servers, clients>>

\* A client that is connected pings; without an answer it connects again, to the
\* session it had.
PingFails(r) ==
    /\ At(r, "ping") /\ ~daemon.up
    /\ clients' = [clients EXCEPT ![Program(r)].connected = FALSE, ![Program(r)].feedback = NoServer,
                                  ![Program(r)].mixed = @ \/ Mixes(r)]
    /\ servers' = CloseFeedback(Program(r))
    /\ Goes(r, "check")
    /\ UNCHANGED <<daemon, sessions>>
\* With one it asks for its session.
PingAnswers(r) ==
    /\ At(r, "ping") /\ daemon.up
    /\ connects' = [connects EXCEPT ![r] = IF Me(r).sid = NoSession THEN Idle
                                          ELSE [Idle EXCEPT !.pc = "get", !.id = Me(r).sid]]
    /\ UNCHANGED <<daemon, sessions, servers, clients>>
\* A finalized session still exists.
Exists(s) == daemon.up /\ sessions[s].st # "none"
\* A session that is gone, or not the client's any more, is replaced by a new one.
SessionIsStale(r) ==
    /\ At(r, "get") /\ ~(Exists(connects[r].id) /\ connects[r].id = Me(r).sid)
    /\ clients' = [clients EXCEPT
          ![Program(r)].connected = FALSE, ![Program(r)].feedback = NoServer, ![Program(r)].sid = NoSession,
          ![Program(r)].mixed = @ \/ Mixes(r) \/ Me(r).sid \notin {connects[r].id, NoSession}]
    /\ servers' = CloseFeedback(Program(r))
    /\ Goes(r, "check")
    /\ UNCHANGED <<daemon, sessions>>
IsConnected(r) ==
    /\ \/ At(r, "get") /\ Exists(connects[r].id) /\ connects[r].id = Me(r).sid
       \/ At(r, "check") /\ Me(r).connected
    /\ connects' = [connects EXCEPT ![r] = Idle]
    /\ UNCHANGED <<daemon, sessions, servers, clients>>

\* The server, and the session of the request.
NewFeedbackServer(r) ==
    /\ At(r, "check") /\ ~Me(r).connected
    /\ \E v \in Servers :
          /\ servers[v].by = "nobody" /\ \A w \in 1 .. v - 1 : servers[w].by # "nobody"
          /\ servers' = [servers EXCEPT ![v] = [by |-> Program(r), open |-> TRUE]]
          /\ clients' = [clients EXCEPT ![Program(r)].feedback = v, ![Program(r)].mixed = @ \/ Mixes(r)]
          /\ connects' = [connects EXCEPT ![r] = [pc |-> "prepare", id |-> Me(r).sid, had |-> FALSE, fb |-> v]]
    /\ UNCHANGED <<daemon, sessions>>
HadSession(r) ==
    /\ At(r, "prepare")
    /\ connects' = [connects EXCEPT ![r].pc = "request", ![r].had = Me(r).sid # NoSession]
    /\ UNCHANGED <<daemon, sessions, servers, clients>>

\* A command that does not reach the daemon ends.
ConnectFails(r) ==
    /\ At(r, "request") /\ ~daemon.up
    /\ connects' = [connects EXCEPT ![r] = Idle]
    /\ clients' = IF Program(r) \in Mcps THEN clients ELSE [clients EXCEPT ![Program(r)].pc = "closed"]
    /\ servers' = CloseServer(connects[r].fb)
    /\ UNCHANGED <<daemon, sessions>>
\* The daemon's Connect: the session with the id, also a finalized one, or one that is
\* created; its URL becomes the caller's.
Connect(r) ==
    /\ At(r, "request") /\ daemon.up
    /\ \E s \in SessionIds :
          /\ IF connects[r].id # NoSession THEN s = connects[r].id
             ELSE sessions[s].opened = {} /\ \A i \in 1 .. s - 1 : sessions[i].opened # {}
          /\ sessions' = [sessions EXCEPT
                ![s].st = IF @ = "none" THEN "open" ELSE @, ![s].url = connects[r].fb,
                ![s].opened = IF connects[r].id # NoSession THEN @ ELSE {Program(r)}]
          /\ connects' = [connects EXCEPT ![r].pc = "store", ![r].id = s]
    /\ UNCHANGED <<daemon, servers, clients>>
StoreSession(r) ==
    /\ At(r, "store")
    /\ clients' = [clients EXCEPT ![Program(r)].sid = connects[r].id]
    /\ Goes(r, "own")
    /\ UNCHANGED <<daemon, sessions, servers>>
StoreOwn(r) ==
    /\ At(r, "own")
    /\ clients' = [clients EXCEPT ![Program(r)].own = ~connects[r].had, ![Program(r)].connected = TRUE]
    /\ Goes(r, "negotiate")
    /\ UNCHANGED <<daemon, sessions, servers>>

\* negotiateKey, best effort: the session's key and the client's, or, for a session
\* that is finalized or unknown, one of a session that is thrown away.
NegotiateKey(r) ==
    LET k == daemon.keys + 1
        s == Me(r).sid
    IN /\ At(r, "negotiate")
       /\ connects' = [connects EXCEPT ![r] = Idle]
       /\ \/ ~daemon.up /\ UNCHANGED <<daemon, sessions, clients>>
          \/ /\ daemon.up
             /\ daemon' = [daemon EXCEPT !.keys = k]
             /\ clients' = [clients EXCEPT ![Program(r)].key = k]
             /\ sessions' = [i \in SessionIds |-> IF i = s /\ sessions[i].st = "open"
                                                 THEN [sessions[i] EXCEPT !.key = k] ELSE sessions[i]]
       /\ UNCHANGED servers

-------------------------------------------------------------------------------
(* The end of a program.                                                   *)

\* Mutant of FinalizeSession: whoever closes finalizes.
FinalizesAny(c) ==
    [s \in SessionIds |-> IF s = clients[c].sid /\ Exists(s) /\ sessions[s].st = "open"
                          THEN [sessions[s] EXCEPT !.st = "finalized", !.key = 0] ELSE sessions[s]]
FinalizeSession(c) ==
    [s \in SessionIds |-> IF s = clients[c].sid /\ clients[c].own /\ Exists(s) /\ sessions[s].st = "open"
                          THEN [sessions[s] EXCEPT !.st = "finalized", !.key = 0] ELSE sessions[s]]
\* The process ends, and with it its servers and goroutines.
EndProgram(c) ==
    /\ clients' = [clients EXCEPT ![c].pc = "closed", ![c].connected = FALSE]
    /\ servers' = [v \in Servers |-> IF servers[v].by = c THEN [servers[v] EXCEPT !.open = FALSE] ELSE servers[v]]
    /\ connects' = [r \in Connectors |-> IF Program(r) = c THEN Idle ELSE connects[r]]
    /\ UNCHANGED daemon
\* Close: a command that is connected is done, or the MCP server's loop read the end
\* of its input.
CloseClient(c) ==
    /\ clients[c].pc = "on" /\ (c \in Mcps \/ clients[c].connected)
    /\ \A r \in Connectors : Program(r) = c /\ r[2] = 0 => connects[r].pc = "idle"
    /\ sessions' = FinalizeSession(c)
    /\ EndProgram(c)
\* Without Close: by a signal, or by the MCP server's health check.
Killed(c) == clients[c].pc = "on" /\ UNCHANGED sessions /\ EndProgram(c)

ClientNext ==
    \/ DaemonStops \/ DaemonStarts
    \/ \E c \in Clients : StartClient(c) \/ CloseClient(c) \/ Killed(c)
    \/ \E r \in Connectors :
          \/ CallConnect(r) \/ PingFails(r) \/ PingAnswers(r) \/ SessionIsStale(r) \/ IsConnected(r)
          \/ NewFeedbackServer(r) \/ HadSession(r) \/ ConnectFails(r) \/ Connect(r)
          \/ StoreSession(r) \/ StoreOwn(r) \/ NegotiateKey(r)
ClientSpec == ClientInit /\ [][ClientNext]_clientVars

-------------------------------------------------------------------------------
\* Clients that share a session, nested in each other's shells and across restarts of
\* the daemon, do not end it for one another (the comment of ownSession): a session is
\* finalized only when the client that created it has closed.  Prompts are sent to the
\* client that connected last: while that one is connected, to its server, which runs;
\* and the key of a session is that of a client that negotiated it, never one of
\* before a restart or of another session.  All this of a client one of whose Connects
\* never changed what another relied on, which Connect does not prevent: two of an MCP
\* server may both find it not connected.
EndedByItsOwn(s) ==
    \/ \A c \in sessions[s].opened : clients[c].pc = "closed"
    \/ \E c \in Clients : clients[c].mixed /\ clients[c].pc = "closed" /\ clients[c].sid = s
ClientsShareSessions ==
    /\ \A s \in SessionIds : sessions[s].st = "finalized" => EndedByItsOwn(s)
    /\ \A s \in SessionIds, c \in Clients : ~clients[c].mixed =>
           /\ clients[c].connected /\ sessions[s].url # NoServer /\ servers[sessions[s].url].by = c
              => servers[sessions[s].url].open /\ clients[c].feedback = sessions[s].url
           /\ sessions[s].key # 0 /\ clients[c].key = sessions[s].key => clients[c].sid = s
================================================================================
