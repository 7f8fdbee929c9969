------------------------------ MODULE MCPrograms ------------------------------
(***************************************************************************)
(* The machines that serve one user at a time, for TLC: the five games,    *)
(* the script runner, the MCP server, clients that connect, sudo, requests *)
(* to a plugin, loggers, the resources plugin, and the start and end of    *)
(* daemons.  They share nothing, and so a behaviour runs one of them: its  *)
(* user picks one, and the others stay as they began.                      *)
(***************************************************************************)
EXTENDS Games, Scripts, Mcp, Client, SudoChannels, SudoCache, Schemas, Logging, Resources, Lifecycle

VARIABLE running  \* the program that the user picked

services == <<script, mcpVars, clientVars, sudo, cacheVars>>
singles == <<request, logging, resources, daemons>>
programs == <<running, games, services, singles>>

ProgramNames ==
    {"mines", "tiles", "solitaire", "fleet", "chess", "script", "mcp", "client", "sudo", "cache",
     "schemas", "logging", "resources", "daemons"}

ProgramsInit ==
    /\ running \in ProgramNames
    /\ GamesInit
    /\ ScriptInit /\ McpInit /\ ClientInit /\ SudoInit /\ CacheInit
    /\ SchemasInit /\ LoggingInit /\ ResourcesInit /\ LifecycleInit
    \* Which crew it is matters to the clients only.
    /\ running # "client" => DOMAIN connects = CHOOSE crew \in Crews : TRUE
ProgramsNext ==
    \/ running = "mines" /\ MinesNext /\ UNCHANGED <<running, tiles, sol, fleet, chess, services, singles>>
    \/ running = "tiles" /\ TilesNext /\ UNCHANGED <<running, mines, sol, fleet, chess, services, singles>>
    \/ running = "solitaire" /\ SolNext /\ UNCHANGED <<running, mines, tiles, fleet, chess, services, singles>>
    \/ running = "fleet" /\ FleetNext /\ UNCHANGED <<running, mines, tiles, sol, chess, services, singles>>
    \/ running = "chess" /\ ChessNext /\ UNCHANGED <<running, mines, tiles, sol, fleet, services, singles>>
    \/ running = "script" /\ ScriptNext /\ UNCHANGED <<running, mcpVars, clientVars, sudo, cacheVars, games, singles>>
    \/ running = "mcp" /\ McpNext /\ UNCHANGED <<running, script, clientVars, sudo, cacheVars, games, singles>>
    \/ running = "client" /\ ClientNext /\ UNCHANGED <<running, script, mcpVars, sudo, cacheVars, games, singles>>
    \/ running = "sudo" /\ SudoNext /\ UNCHANGED <<running, script, mcpVars, clientVars, cacheVars, games, singles>>
    \/ running = "cache" /\ CacheNext /\ UNCHANGED <<running, script, mcpVars, clientVars, sudo, games, singles>>
    \/ running = "schemas" /\ SchemasNext /\ UNCHANGED <<running, logging, resources, daemons, games, services>>
    \/ running = "logging" /\ LoggingNext /\ UNCHANGED <<running, request, resources, daemons, games, services>>
    \/ running = "resources" /\ ResourcesNext /\ UNCHANGED <<running, request, logging, daemons, games, services>>
    \/ running = "daemons" /\ LifecycleNext /\ UNCHANGED <<running, request, logging, resources, games, services>>
ProgramsSpec == ProgramsInit /\ [][ProgramsNext]_programs

-------------------------------------------------------------------------------
\* Requests for fields of up to three by two, with counts of bombs beyond them.
SomeWidths == {0, 3}
SomeHeights == {-1, 1}
SomeBombs == {0, 2, 20}

SomeRows == UNION {[1 .. n -> {0, 2, 4, 8}] : n \in 1 .. 4}

\* Spades and diamonds: suits of both halves.
TwoSuits == {0, 2}
\* Each kind of line, with numbers that are columns and numbers that are not.
SomeCommands ==
    {<<D>>, <<Q>>, <<1>>, <<2>>, <<12>>, <<1, 2>>, <<2, 1>>, <<2, 1, 2>>, <<Other>>, <<Other, 1>>,
     <<W, 1>>, <<W, 2>>, <<W, 3>>}

TwoShips == <<2, 1>>

\* An MCP server of two goroutines, and one with a command beside it.
SomeLoads == <<2, 0>>
SomeCrews == {{<<"a", 0>>, <<"a", 1>>}, {<<"a", 0>>, <<"b", 0>>}}

\* A game after Nf3 Nf6, g3 g6, Bg2 Bg7: both kings may castle.
Developed ==
    LET from == {<<6, 7>>, <<6, 0>>, <<6, 6>>, <<6, 1>>, <<5, 7>>, <<5, 0>>}
    IN [newCh EXCEPT !.b = [s \in Square |->
            CASE s = <<5, 5>> -> cN [] s = <<5, 2>> -> -cN [] s = <<6, 5>> -> cP [] s = <<6, 2>> -> -cP
              [] s = <<6, 6>> -> cB [] s = <<6, 1>> -> -cB
              [] s \in from \ {<<6, 6>>, <<6, 1>>} -> 0 [] OTHER -> newCh.b[s]]]
\* A game after e4 e5, Qh5: the pawn before the black king's bishop is pinned.
Pinned ==
    [newCh EXCEPT !.t = -1, !.b = [s \in Square |->
        CASE s = <<4, 4>> -> cP [] s = <<4, 3>> -> -cP [] s = <<7, 3>> -> cQ
          [] s \in {<<4, 6>>, <<4, 1>>, <<3, 7>>} -> 0 [] OTHER -> newCh.b[s]]]
\* A game in which the black king has taken the rook of White's queen's side.
Cornered ==
    [newCh EXCEPT !.b = [s \in Square |->
        CASE s = <<0, 7>> -> -cK [] s \in {<<1, 7>>, <<2, 7>>, <<3, 7>>, <<0, 6>>, <<1, 6>>, <<4, 0>>} -> 0
          [] OTHER -> newCh.b[s]],
        !.ck = [i \in 0 .. 1 |-> i = 1], !.cq = [i \in 0 .. 1 |-> i = 1]]
\* A game after f3 e5, g4 e4: once White has taken the pawn, Black's queen mates; and it may take en passant.
Foolish ==
    [newCh EXCEPT !.b = [s \in Square |->
        CASE s \in {<<5, 5>>, <<6, 4>>} -> cP [] s = <<4, 4>> -> -cP
          [] s \in {<<5, 6>>, <<6, 6>>, <<4, 1>>} -> 0 [] OTHER -> newCh.b[s]]]
SomeStarts == {newCh, Developed, Pinned, Cornered, Foolish}
\* The pinned pawn's step; fool's mate; a double step and its capture en passant; castling on both sides, with
\* and without the rook, and with a king in its place.
SomeMoves ==
    {<<5, 1, 5, 2>>, <<5, 6, 5, 5>>, <<4, 1, 4, 3>>, <<6, 6, 6, 4>>, <<3, 0, 7, 4>>,
     <<5, 5, 4, 4>>, <<4, 3, 4, 4>>, <<3, 6, 3, 4>>, <<4, 4, 3, 5>>,
     <<4, 7, 6, 7>>, <<4, 7, 2, 7>>, <<4, 0, 6, 0>>, <<7, 7, 6, 7>>, <<7, 0, 6, 0>>}

\* Arguments of directives, and lines of scripts.
SomeTexts == UNION {[1 .. n -> {Quote, Backslash, Blank, "a", "s"}] : n \in 1 .. 5}
Line_(k) == [kind |-> k, name |-> "", args |-> <<>>]
Directive(n, a) == [kind |-> "directive", name |-> n, args |-> a]
SomeLines ==
    {Line_("blank"), Line_("comment"), Line_("command"), Line_("dash"),
     Directive("confirm", <<Quote, "a", Quote>>),
     Directive("input", <<Quote, "a", Quote, Blank, "a", "s", Blank, "a">>),
     Directive("input", <<Quote, Quote, Backslash>>),
     Directive("input", <<"a">>),
     Directive("choose", <<Quote, "a", Quote, Quote, "a">>),
     Directive("choose", <<Quote, "a", Quote, Blank, Quote, "s", Quote, "a", "s", Blank, "a">>),
     Directive("other", <<Quote>>)}
SomeScripts == UNION {[1 .. n -> SomeLines] : n \in 0 .. 3}

\* A tree of a directory d with a directory x in it, with one or two scripts.
Name(stem, dsh) == [stem |-> stem, dsh |-> dsh]
SomeDirs == {<<>>, <<Name("d", 0)>>, <<Name("d", 0), Name("x", 0)>>}
SomeFiles == {Append(d, Name(n, k)) : d \in SomeDirs, n \in {"x", "y"}, k \in {1, 2}}
Readme(kind, enabled, exclude) == [kind |-> kind, enabled |-> enabled, exclude |-> exclude]
SomeReadmes ==
    {Readme("none", TRUE, {}), Readme("broken", TRUE, {}), Readme("plain", TRUE, {}),
     Readme("front", FALSE, {"x"}), Readme("front", TRUE, {"d"})}
SomeTrees ==
    {[dirs |-> SomeDirs, files |-> {f, g}, readme |-> r] :
        f \in SomeFiles, g \in SomeFiles, r \in [SomeDirs -> SomeReadmes]}

\* Descriptors: types that share types, that contain themselves through a list, through
\* another type, or at once; names with capitals and with underscores.
Field_(name, kind, type, rep) == [name |-> name, kind |-> kind, type |-> type, repeated |-> rep]
FieldInt(n) == Field_(n, "int", "", FALSE)
FieldOf(n, t) == Field_(n, "message", t, FALSE)
SomeGraphs ==
    {[A |-> <<f>> \o g, B |-> b, C |-> c] :
        f \in {FieldInt(<<"a">>), FieldOf(<<"a">>, "B"), Field_(<<"a">>, "message", "B", TRUE), FieldOf(<<"a">>, "A")},
        g \in {<<>>, <<FieldOf(<<"b", "B">>, "C")>>, <<FieldOf(<<"b", "_", "b">>, "C"), FieldInt(<<"b", "B">>)>>,
               <<FieldInt(<<"b", "_", "b">>), FieldInt(<<"b", "B">>)>>},
        b \in {<<FieldInt(<<"d">>)>>, <<FieldOf(<<"c">>, "C"), FieldInt(<<"d">>)>>, <<FieldOf(<<"a">>, "A")>>},
        c \in {<<Field_(<<"e">>, "bool", "", FALSE)>>,
               <<FieldOf(<<"b">>, "B"), Field_(<<"e", "F">>, "enum", "", TRUE)>>}}
\* C is declared in the request.
SomeDeclared == [t \in {"A", "B", "C"} |-> IF t = "A" THEN <<"C">> ELSE <<>>]
Svc(short, system, methods) == [short |-> short, system |-> system, methods |-> methods]
SomeServices ==
    UNION {[1 .. n -> {Svc(<<s>>, y, m) : s \in {"S", "T"}, y \in BOOLEAN,
                       m \in {<<>>, <<<<"A">>>>, <<<<"A", "b">>, <<"B">>>>}}] : n \in 1 .. 2}
SomeEnums == SUBSET {<<"P", "x">>, <<"x">>, <<"P", "P", "x">>, <<"y">>, <<"P">>}
Key(i, p, v) == [idx |-> i, path |-> p, value |-> v]
SomeItems ==
    {{Key(0, <<<<"d">>>>, "7x")}, {Key(1, <<<<"d">>>>, "7")}, {Key(0, <<<<"d">>>>, "x")},
     {Key(0, <<<<"c">>, <<"e">>>>, "yes"), Key(1, <<<<"d">>>>, "7")},
     {Key(0, <<<<"c">>, <<"e">>>>, "yes"), Key(0, <<<<"d">>>>, "7")}}
Arg(k, v) == [key |-> k, value |-> v]
SomeArgs ==
    {s \in SUBSET {Arg("session_id", ""), Arg("session_id", "s1"), Arg("_render_output", "true"),
                   Arg("session", "x"), Arg("plain", "v")} :
        \A a, b \in s : a.key = b.key => a = b}

\* Loggers that are configured in several orders, with sinks and levels that are not known.
SomeSegments ==
    [s \in {"root", "plugin", "p", "daemon", "daemonx", "cli", "shell"} |->
        CASE s = "root" -> 4 [] s = "plugin" -> 6 [] s = "p" -> 1 [] s = "daemon" -> 6
          [] s = "daemonx" -> 7 [] s = "cli" -> 3 [] s = "shell" -> 5]
LoggerOf(n, l, s) == [name |-> n, level |-> l, sinks |-> s]
SinkOf(n, t) == [name |-> n, type |-> t]
SomeLoggers ==
    {<<>>, <<LoggerOf(Root, "info", {"stdout"})>>,
     <<LoggerOf(<<"daemon">>, "warning", {"file", "none"}), LoggerOf(Root, "debug", {"none"})>>,
     <<LoggerOf(Root, "trace", {"stdout"}), LoggerOf(<<"daemon", "shell">>, "error", {}),
       LoggerOf(<<"daemon">>, "fatal", {"file"})>>,
     <<LoggerOf(<<"plugin">>, "other", {"file"}), LoggerOf(<<"cli">>, "error", {"file"}),
       LoggerOf(Root, "info", {"stdout"})>>}
SomeConfigs ==
    {[sinks |-> s, loggers |-> l] : l \in SomeLoggers,
        s \in {<<SinkOf("stdout", "stdout"), SinkOf("file", "rotating_file")>>,
               <<SinkOf("stdout", "stdout"), SinkOf("x", "unknown")>>}}
SomeNames == {Root, <<"daemon">>, <<"daemonx">>, <<"daemon", "shell">>, <<"plugin", "p">>}

SomeReadings == {[number |-> 0, word |-> "x"], [number |-> 3, word |-> "y"]}
Process(p, c, m) == [pid |-> p, cpu |-> c, mem |-> m]
SomeLists == UNION {[1 .. n -> {Process(1, 0, 2), Process(2, 1, 1), Process(3, 1, 0)}] : n \in 0 .. 3}
SomeRecordings == UNION {[1 .. n -> 0 .. 2] : n \in 0 .. 4}
SomeCounts == -1 .. 3
================================================================================
