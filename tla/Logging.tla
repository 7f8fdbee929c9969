-------------------------------- MODULE Logging --------------------------------
(***************************************************************************)
(* Named loggers (logging/manager.go, logger.go, sink.go, level.go) and    *)
(* the bridge for code that uses slog.  A name is a sequence of segments;  *)
(* a logger's level and sinks are those of the configured logger that is   *)
(* its closest ancestor, found at the first call and kept.                 *)
(***************************************************************************)
EXTENDS Integers, Sequences, FiniteSets, SequencesExt

CONSTANTS LogConfigs,  \* configurations: [sinks, loggers]
          LogNames,    \* names that are asked for
          SegmentLen,  \* the characters of each segment
          LogThreads,
          MaxLoggers   \* bound on the loggers in hand

Segments == DOMAIN SegmentLen
Root == <<"root">>

ASSUME LoggingAssumption ==
    /\ \A s \in Segments : SegmentLen[s] \in Nat \ {0}
    /\ {"root", "plugin", "p"} \subseteq Segments
    /\ LogNames \subseteq Seq(Segments) \ {<<>>}
    /\ \A c \in LogConfigs :
          /\ c.loggers \in Seq(Range(c.loggers))
          /\ \A lc \in Range(c.loggers) : lc.name \in Seq(Segments) \ {<<>>}

\* len(lc.Name), with its dots.
NameLen(n) ==
    LET width[i \in 0 .. Len(n)] == IF i = 0 THEN 0 ELSE width[i - 1] + SegmentLen[n[i]]
    IN  Len(n) - 1 + width[Len(n)]

-------------------------------------------------------------------------------
(* Levels are those of slog: -8, -4, 0, 4, 8 and 12.                       *)

ParseLevel(s) ==
    CASE s = "trace" -> -8 [] s = "debug" -> -4 [] s = "info" -> 0
      [] s \in {"warn", "warning"} -> 4 [] s = "error" -> 8 [] s = "fatal" -> 12
      [] OTHER -> 0
\* slogHandler: what Enabled asks for, and what Handle logs a record as.
EnabledAs(l) == IF l <= -8 THEN -8 ELSE IF l < 0 THEN -4 ELSE IF l = 0 THEN 0 ELSE IF l = 4 THEN 4 ELSE 8
HandledAs(l) ==
    IF l <= -8 THEN -8 ELSE IF l < 0 THEN -4 ELSE IF l = 4 THEN 4 ELSE IF l >= 8 THEN 8 ELSE 0

-------------------------------------------------------------------------------

VARIABLE logging  \* the manager and its callers

\* loggers, sinks: of the manager, and base the former as configured; resolved: its
\* cache; threads: calls of Logger; hands: the loggers that callers have.
Caller == [pc |-> "idle", name |-> <<>>]
NoLogging == [pc |-> "idle", base |-> <<>>, loggers |-> <<>>, sinks |-> {}, resolved |-> <<>>,
              threads |-> [t \in LogThreads |-> Caller], hands |-> {}]

\* buildSinks, and what NewManager does when it fails: every named sink and one called
\* default, or that one only.
buildSinks(sinks) ==
    {"default"} \cup
    IF \E i \in DOMAIN sinks : sinks[i].type = "unknown" THEN {}
    ELSE {sinks[i].name : i \in DOMAIN sinks}

\* A configured logger is for a name, for what is below it, and root for all.
Applies(lc, n) == lc.name = Root \/ IsPrefix(lc.name, n)
\* resolve: the longest in the configuration's order; an equal name beats what came before.
Better(lc, n, best) == NameLen(lc.name) > NameLen(best) \/ (lc.name = n /\ best # n)
resolve(loggers, sinks, n) ==
    LET Chosen[i \in 0 .. Len(loggers)] ==
            IF i = 0 THEN 0
            ELSE LET best == IF Chosen[i - 1] = 0 THEN <<>> ELSE loggers[Chosen[i - 1]].name
                 IN IF Applies(loggers[i], n) /\ Better(loggers[i], n, best)
                    THEN i ELSE Chosen[i - 1]
        cfg == loggers[Chosen[Len(loggers)]]
        known == cfg.sinks \cap sinks
    IN IF Chosen[Len(loggers)] = 0 THEN [level |-> 0, sinks |-> sinks]
       ELSE [level |-> ParseLevel(cfg.level), sinks |-> IF known = {} THEN sinks ELSE known]
Resolved(n) == resolve(logging.loggers, logging.sinks, n)

-------------------------------------------------------------------------------

\* Configure: a new manager.
Configure ==
    /\ logging.pc = "idle"
    /\ \E c \in LogConfigs :
          logging' = [logging EXCEPT !.pc = "running", !.base = c.loggers, !.loggers = c.loggers,
                                     !.sinks = buildSinks(c.sinks)]

HandsFree == Cardinality(logging.hands) < MaxLoggers
Hand(n, r, via) == [name |-> n, level |-> r.level, sinks |-> r.sinks, via |-> via]
\* Logger: the cache under the read lock.
LoggerFromCache(t, n) ==
    /\ logging.pc # "idle" /\ HandsFree /\ logging.threads[t].pc = "idle"
    /\ IF n \in DOMAIN logging.resolved
       THEN logging' = [logging EXCEPT !.hands = @ \cup {Hand(n, logging.resolved[n], "Logger")}]
       ELSE logging' = [logging EXCEPT !.threads[t] = [pc |-> "miss", name |-> n]]
\* Mutant of Cached: the cache is not looked at again.
NotLookedAt(n) == FALSE
Cached(n) == n \in DOMAIN logging.resolved
\* Logger: the cache again, under the lock, or the configuration.
LoggerResolves(t) ==
    LET n == logging.threads[t].name
        r == IF Cached(n) THEN logging.resolved[n] ELSE Resolved(n)
    IN /\ logging.threads[t].pc = "miss"
       /\ logging' = [logging EXCEPT
             !.resolved = [m \in DOMAIN @ \cup {n} |-> IF m = n THEN r ELSE @[m]],
             !.threads[t] = Caller, !.hands = @ \cup {Hand(n, r, "Logger")}]

\* Child: resolved by the name below the parent's, past the cache and without m.mu.  It
\* reads sinks, loggers and sinks again while AddPluginSink adds a sink and then a logger
\* for it, so that it finds what it would have found before one of these additions or
\* after it.
Child(h, n) ==
    /\ HandsFree
    /\ IF h.name = Root THEN Len(n) = 1 ELSE Front(n) = h.name
    /\ logging' = [logging EXCEPT !.hands = @ \cup {Hand(n, Resolved(n), "Child")}]

\* AddPluginSink, in two steps: the sink, and a logger of the same name that writes to
\* it at every level from debug on.  The cache is not told.
PluginLogger == [name |-> <<"plugin", "p">>, level |-> "debug", sinks |-> {"plugin.p", "stdout"}]
AddPluginSink ==
    /\ logging.pc = "running" /\ "plugin.p" \notin logging.sinks
    /\ logging' = [logging EXCEPT !.pc = "adding", !.sinks = @ \cup {"plugin.p"}]
AddPluginLogger ==
    /\ logging.pc = "adding"
    /\ logging' = [logging EXCEPT !.pc = "running", !.loggers = Append(@, PluginLogger)]

\* log, and a record that slog hands to the bridge when it is enabled: what is written.
Enabled(h, l) == l >= h.level
SlogWrites(h, l) == Enabled(h, EnabledAs(l)) /\ Enabled(h, HandledAs(l))

LoggingInit == logging = NoLogging
LoggingNext ==
    \/ Configure \/ AddPluginSink \/ AddPluginLogger
    \/ \E t \in LogThreads : LoggerResolves(t) \/ \E n \in LogNames : LoggerFromCache(t, n)
    \/ \E h \in logging.hands, n \in LogNames : Child(h, n)

LoggingSpec == LoggingInit /\ [][LoggingNext]_logging

-------------------------------------------------------------------------------
\* The level and the sinks of the closest configured ancestor.
Closest(loggers, n) ==
    LET above == {lc \in Range(loggers) : IsPrefix(lc.name, n)}
        closest == CHOOSE lc \in above : \A o \in above : Len(o.name) <= Len(lc.name)
        roots == {lc \in Range(loggers) : lc.name = Root}
    IN IF above # {} THEN {closest} ELSE roots
Follows(h, loggers, sinks) ==
    \A lc \in Closest(loggers, h.name) :
        /\ h.level = ParseLevel(lc.level)
        /\ h.sinks \subseteq lc.sinks \/ lc.sinks \cap sinks = {}

LongNames(loggers) == \A lc \in Range(loggers) : lc.name = Root \/ NameLen(lc.name) > NameLen(Root)

\* A logger has the level and the sinks of the configured logger that is its closest
\* ancestor, as the comment of resolve has it and in whatever order they are
\* configured (for names longer than "root"), also while loggers are asked for by
\* several callers and a plugin's sink is added; all who ask the manager for one
\* name get the same; and a record of slog's levels is written exactly when its level is
\* the logger's or above it.
LoggersFollowTheirConfiguration ==
    /\ \A h \in logging.hands :
           LongNames(logging.loggers) => \/ Follows(h, logging.loggers, logging.sinks)
                                         \/ Follows(h, logging.base, logging.sinks)
    /\ \A h, g \in logging.hands : h.via = "Logger" /\ g.via = "Logger" /\ h.name = g.name => h = g
    /\ \A h \in logging.hands, l \in {-8, -4, 0, 4, 8} : h.level # 12 => (SlogWrites(h, l) <=> l >= h.level)
================================================================================
