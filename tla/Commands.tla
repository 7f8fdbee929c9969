------------------------------- MODULE Commands -------------------------------
(***************************************************************************)
(* The names of a plugin's commands, tools and enum values: the command    *)
(* line (cli/protoflags.go) and the MCP server (cli/mcp.go) make one of    *)
(* each method.  A name is a sequence of characters, because commands and  *)
(* flags are named by converting it.                                       *)
(***************************************************************************)
EXTENDS Integers, Sequences, FiniteSets, SequencesExt

CONSTANTS ServiceSets, \* of a plugin: sequences of services
          EnumSets     \* sets of names of an enum's values, each a sequence of words

ASSUME CommandsAssumption ==
    /\ \A services \in ServiceSets :
           /\ services \in Seq(Range(services))
           /\ \A i \in DOMAIN services : services[i].methods \in Seq(Range(services[i].methods))
    /\ \A values \in EnumSets : \A v \in values : v \in Seq(Range(v))

-------------------------------------------------------------------------------
(* Names.                                                                  *)

Lowers == <<"a", "b", "c", "d", "e", "f">>
Uppers == <<"A", "B", "C", "D", "E", "F">>
IsLower(c) == c \in Range(Lowers)
IsUpper(c) == c \in Range(Uppers)
ToLower(c) == Lowers[CHOOSE i \in DOMAIN Uppers : Uppers[i] = c]

\* camelToKebab: a hyphen for an underscore, and before a capital that follows a small
\* letter or is followed by one.
camelToKebab(s) ==
    LET Starts_(i) == i > 1 /\ (IsLower(s[i - 1]) \/ (i < Len(s) /\ IsLower(s[i + 1])))
        Piece(i) == IF s[i] = "_" THEN <<"-">>
                    ELSE IF ~IsUpper(s[i]) THEN <<s[i]>>
                    ELSE (IF Starts_(i) THEN <<"-">> ELSE <<>>) \o <<ToLower(s[i])>>
    IN FlattenSeq([i \in DOMAIN s |-> Piece(i)])

\* stripEnumPrefix and resolveEnumValue, for an enum whose name gives the prefix, a
\* sequence of words as the values are.
stripEnumPrefix(v, prefix) ==
    IF Len(v) > Len(prefix) /\ IsPrefix(prefix, v) THEN SubSeq(v, Len(prefix) + 1, Len(v)) ELSE v
resolveEnumValue(input, values, prefix) ==
    IF input \in values \/ prefix \o input \notin values THEN input ELSE prefix \o input

-------------------------------------------------------------------------------
(* Commands and tools of the services.                                     *)

IsSystem(s) == s.system
ServiceIds(services) == {i \in DOMAIN services : ~IsSystem(services[i])}
\* BuildPluginCommand: the path of a method's command.  A level is left out where it
\* has one entry only.
CommandPath(services, i, j) ==
    (IF Cardinality(ServiceIds(services)) = 1 THEN <<>> ELSE <<services[i].short>>)
    \o (IF Len(services[i].methods) = 1 THEN <<>> ELSE <<camelToKebab(services[i].methods[j])>>)
MethodsOf(services) == 
    UNION {{<<i, j>> : j \in DOMAIN services[i].methods} : i \in ServiceIds(services)}
\* getPluginTools: tools are found by the method's name, the last of two that have the same.
ToolTarget(services, name) ==
    LET named == {m \in MethodsOf(services) : services[m[1]].methods[m[2]] = name}
    IN CHOOSE m \in named : \A n \in named : n[1] < m[1] \/ (n[1] = m[1] /\ n[2] <= m[2])

-------------------------------------------------------------------------------
\* Different methods are reached by different commands, in spite of the levels that are
\* left out, if services differ by their short names and the methods of one by theirs;
\* and a tool calls the method of its name, if that is the only one.
EveryMethodHasItsCommand ==
    \A services \in ServiceSets :
        LET M == MethodsOf(services)
            Name(m) == services[m[1]].methods[m[2]]
        IN /\ (\A i, j \in ServiceIds(services) : i # j => services[i].short # services[j].short)
              /\ (\A m, n \in M : m # n /\ m[1] = n[1] => camelToKebab(Name(m)) # camelToKebab(Name(n)))
              => \A m, n \in M : m # n => CommandPath(services, m[1], m[2]) # CommandPath(services, n[1], n[2])
           /\ (\A m, n \in M : m # n => Name(m) # Name(n)) => \A m \in M : ToolTarget(services, Name(m)) = m

\* The short name of a value, unless it is itself a value, is sent as that value.
EveryEnumResolves ==
    \A values \in EnumSets : \A v \in values :
        LET typed == stripEnumPrefix(v, <<"P">>)
        IN typed = v \/ typed \notin values => resolveEnumValue(typed, values, <<"P">>) = v
================================================================================
