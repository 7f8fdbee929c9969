-------------------------------- MODULE Schemas --------------------------------
(***************************************************************************)
(* From a plugin's descriptors to what is sent to it.  The daemon turns    *)
(* descriptors into schemas (rpcreflection.go); the command line makes     *)
(* commands and flags of them and a request body of the flags that are set *)
(* (cli/protoflags.go); the MCP server makes tools of them and a request   *)
(* body of a tool's arguments (cli/mcp.go).  Executor has the call itself. *)
(*                                                                         *)
(* Message types are a graph: of each type its fields, in order.           *)
(***************************************************************************)
EXTENDS Commands

CONSTANTS Graphs,     \* descriptors: [type -> sequence of fields]; "A" is the request
          Declared,   \* of each type those declared in it, a map's entries among them
          Items,      \* what is typed for a repeated message: sets of keys
          ToolArgs,   \* arguments of tool calls
          MaxSet,     \* bound on the flags that are set
          MaxDepth    \* the depth at which a recursion is taken for one without end

-------------------------------------------------------------------------------
(* Schemas: a message's name, its fields, and the schemas of the messages  *)
(* that they refer to.                                                     *)

NoSchema == [name |-> "none", fields |-> <<>>, messages |-> <<>>]
\* typeNameString, kindToProto and labelToProto give a field's kind, type and repeated.
IsMessage(f) == f.kind = "message"
SingleMessage(f) == IsMessage(f) /\ ~f.repeated

\* The types whose schemas are below that of t: declared in it, or of its fields.
TypesBelow(G, t) ==
    LET refs == SelectSeq(G[t], IsMessage) IN Declared[t] \o [k \in DOMAIN refs |-> refs[k].type]
\* Mutant of Path: types before it are visited for good.
PathAndSiblings(G, t, k, visited) == visited \cup {t} \cup {TypesBelow(G, t)[j] : j \in 1 .. k - 1}
\* What buildMessageSchema has visited on the way to the k-th type below t.
Path(G, t, k, visited) == visited \cup {t}
RECURSIVE buildMessageSchema(_, _, _)
buildMessageSchema(G, t, visited) ==
    IF t \in visited THEN [NoSchema EXCEPT !.name = t]
    ELSE LET types == TypesBelow(G, t)
         IN [name |-> t, fields |-> G[t],
             messages |-> [k \in DOMAIN types |->
                 buildMessageSchema(G, types[k], Path(G, t, k, visited))]]

\* The first of some schemas that is one.
FirstFound(found) ==
    LET hits == {i \in DOMAIN found : found[i] # NoSchema}
    IN IF hits = {} THEN NoSchema ELSE found[Min(hits)]
\* findNestedMessageInSchema, of the command line: the message itself comes first.
RECURSIVE findNestedMessageInSchema(_, _)
findNestedMessageInSchema(msg, t) ==
    IF msg.name = t THEN msg
    ELSE FirstFound([i \in DOMAIN msg.messages |-> findNestedMessageInSchema(msg.messages[i], t)])
\* findNestedMessage, of the MCP server: the message itself comes last.
RECURSIVE findNestedMessage(_, _)
findNestedMessage(msg, t) ==
    LET Below(m) == IF m.name = t THEN m ELSE findNestedMessage(m, t)
        found == FirstFound([i \in DOMAIN msg.messages |-> Below(msg.messages[i])])
    IN IF found = NoSchema /\ msg.name = t THEN msg ELSE found

-------------------------------------------------------------------------------
(* Flags.                                                                  *)

Flag(name, f, unknown) == [name |-> name, kind |-> f.kind, repeated |-> f.repeated, unknown |-> unknown]
FlagName(prefix, f) == camelToKebab(prefix \o f.name)
Endless == <<Flag(<<>>, [kind |-> "endless", repeated |-> FALSE], TRUE)>>
\* addFlagsFromSchema, addScalarFlag, addRepeatedFlag: in order, with repetitions.  The
\* field's own message, found where it refers to itself, has no end.
RECURSIVE addFlagsFromSchema(_, _, _)
addFlagsFromSchema(msg, prefix, depth) ==
    LET Of(f) ==
            LET nested == findNestedMessageInSchema(msg, f.type)
            IN IF ~SingleMessage(f) THEN <<Flag(FlagName(prefix, f), f, FALSE)>>
               ELSE IF nested = NoSchema THEN <<Flag(FlagName(prefix, f), f, TRUE)>>
               ELSE addFlagsFromSchema(nested, FlagName(prefix, f) \o <<".">>, depth + 1)
    IN IF depth > MaxDepth THEN Endless
       ELSE FlattenSeq([i \in DOMAIN msg.fields |-> Of(msg.fields[i])])

\* protoSchemaToToolSchema, protoFieldToPropSchema: the leaves of a tool's properties.
RECURSIVE PropertiesOf(_, _)
PropertiesOf(msg, depth) ==
    UNION {IF ~IsMessage(f) \/ findNestedMessage(msg, f.type) = NoSchema \/ depth > MaxDepth THEN {<<f.name>>}
           ELSE {<<f.name>> \o p : p \in PropertiesOf(findNestedMessage(msg, f.type), depth + 1)} :
           f \in Range(msg.fields)}

-------------------------------------------------------------------------------
(* The request body: a set of leaves, each with the path of its field, the *)
(* place in a list of messages, and the value; or the error.               *)

NoItem == [idx |-> -1, path |-> <<>>]
Leaf(path, item, value) == [path |-> path, item |-> item, value |-> value]
Failure == [ok |-> FALSE, leaves |-> {}]
Leaves(s) == [ok |-> TRUE, leaves |-> s]

\* parseScalarValue: what is typed is a number, one with something behind it, a word
\* for a truth value, or another word.
parseScalarValue(v, kind) ==
    CASE kind = "int" -> IF v \in {"7", "7x"} THEN "7" ELSE "error"
      [] kind = "bool" -> IF v = "yes" THEN "true" ELSE "error"
      [] kind \notin {"int", "bool"} -> v

\* setNestedField: the value that a path of field names leads to, or "error".
RECURSIVE setNestedField(_, _, _)
setNestedField(msg, path, v) ==
    LET named == {i \in DOMAIN msg.fields : msg.fields[i].name = Head(path)}
        f == msg.fields[Min(named)]
        nested == findNestedMessageInSchema(msg, f.type)
    IN IF named = {} THEN "error"
       ELSE IF Len(path) = 1 THEN parseScalarValue(v, f.kind)
       ELSE IF ~IsMessage(f) \/ nested = NoSchema THEN "error"
       ELSE setNestedField(nested, Tail(path), v)

\* buildRepeatedMessageFromSchema.  Two keys with one index are an error, and so are
\* indices with a gap: each element can be given one field.
buildRepeatedMessageFromSchema(msg, f, keys) ==
    LET nested == findNestedMessageInSchema(msg, f.type)
        indices == {k.idx : k \in keys}
        Value(k) == setNestedField(nested, k.path, k.value)
    IN IF \/ nested = NoSchema
          \/ \E k \in keys : k.idx < 0 \/ Value(k) = "error"
          \/ Cardinality(indices) # Cardinality(keys)
          \/ indices # 0 .. Cardinality(indices) - 1
       THEN Failure
       ELSE Leaves({Leaf(<<>>, [idx |-> k.idx, path |-> k.path], Value(k)) : k \in keys})

Under(name, b) == [b EXCEPT !.leaves = {[l EXCEPT !.path = <<name>> \o @] : l \in @}]
Together(bodies) ==
    IF \E b \in bodies : ~b.ok THEN Failure ELSE Leaves(UNION {b.leaves : b \in bodies})

\* Mutant of Recurses: the flags of a message are looked at if it has been set itself.
RecursesIfSet(set, name) == name \in DOMAIN set
\* buildJSONFromSchema looks below a message whether or not its flag was set.
Recurses(set, name) == TRUE
\* buildJSONFromSchema, buildScalarFromSchema and buildRepeatedFromSchema; set gives the
\* values of the flags that were set.
RECURSIVE buildJSONFromSchema(_, _, _)
buildJSONFromSchema(msg, prefix, set) ==
    LET Body(f) ==
            LET name == FlagName(prefix, f)
                nested == findNestedMessageInSchema(msg, f.type)
            IN IF SingleMessage(f)
               THEN IF nested = NoSchema \/ ~Recurses(set, name) THEN Leaves({})
                    ELSE Under(f.name, buildJSONFromSchema(nested, name \o <<".">>, set))
               ELSE IF name \notin DOMAIN set THEN Leaves({})
               ELSE IF IsMessage(f) THEN Under(f.name, buildRepeatedMessageFromSchema(msg, f, set[name]))
               ELSE Leaves({Leaf(<<f.name>>, NoItem, "set")})
    IN Together({Body(f) : f \in Range(msg.fields)})

-------------------------------------------------------------------------------
(* A command line, or a tool call.                                         *)

VARIABLE request  \* the plugin's schema, its flags, and the request that is made

NoRequestYet == [pc |-> "idle", graph |-> <<>>, schema |-> NoSchema, flags |-> <<>>, set |-> <<>>,
                 body |-> Leaves({}), args |-> {}, payload |-> {}, render |-> FALSE]

\* The registry's answer, and the flags of the request.  A name that is taken, and a
\* recursion without end, are the end of the program.
LoadPlugin ==
    /\ request.pc = "idle"
    /\ \E G \in Graphs :
          LET s == buildMessageSchema(G, "A", {})
              flags == addFlagsFromSchema(s, <<>>, 0)
              Broken == Range(Endless) \subseteq Range(flags)
                        \/ Cardinality({g.name : g \in Range(flags)}) < Len(flags)
          IN request' = [request EXCEPT !.pc = IF Broken THEN "panic" ELSE "flags",
                                        !.graph = G, !.schema = s, !.flags = flags]

SetFlag ==
    /\ request.pc = "flags" /\ Cardinality(DOMAIN request.set) < MaxSet
    /\ \E g \in Range(request.flags) :
          /\ g.name \notin DOMAIN request.set
          /\ \E v \in IF g.kind = "message" /\ g.repeated THEN Items ELSE {{}} :
                request' = [request EXCEPT !.set = (g.name :> v) @@ @]

\* makeRunEProtoFromSchema.  The size of the terminal is added for methods that read keys,
\* by a name that no flag gives.
TerminalSize == Leaf(<<<<"width">>>>, NoItem, "size")
RunE ==
    /\ request.pc = "flags"
    /\ LET b == buildJSONFromSchema(request.schema, <<>>, request.set)
       IN \/ ~b.ok /\ request' = [request EXCEPT !.pc = "error"]
          \/ /\ b.ok
             /\ \E size \in {{}, {TerminalSize}} :
                   request' = [request EXCEPT !.pc = "sent", !.body = Leaves(b.leaves \cup size)]

\* dispatchPluginTool: the bridge's own arguments are taken out, session becomes the
\* session that session_id names.  Without a schema the call has no method and fails.
dispatchPluginTool ==
    /\ request.pc = "flags" /\ request.set = <<>>
    /\ \E args \in ToolArgs :
          LET own == {a \in args : a.key \in {"session_id", "_render_output"}}
              named == {a \in own : a.key = "session_id" /\ a.value \notin {"", "true"}}
              plain == {a \in args \ own : named = {} \/ a.key # "session"}
          IN request' = [request EXCEPT
                !.pc = "called", !.args = args,
                !.render = [key |-> "_render_output", value |-> "true"] \in args,
                !.payload = plain \cup {[a EXCEPT !.key = "session"] : a \in named}]

SchemasInit == request = NoRequestYet
SchemasNext == LoadPlugin \/ SetFlag \/ RunE \/ dispatchPluginTool

-------------------------------------------------------------------------------
\* The types somewhere below a type, and the paths of a message's fields in the descriptors.
RECURSIVE Reaches(_, _, _)
Reaches(G, t, n) ==
    LET next == Range(TypesBelow(G, t))
    IN IF n = 0 THEN {} ELSE next \cup UNION {Reaches(G, u, n - 1) : u \in next}
Acyclic(G) == \A t \in DOMAIN G : t \notin Reaches(G, t, Cardinality(DOMAIN G))
RECURSIVE FieldPaths(_, _, _)
FieldPaths(G, t, intoLists) ==
    UNION {IF ~IsMessage(f) \/ (f.repeated /\ ~intoLists) THEN {<<f.name>>}
           ELSE {<<f.name>> \o p : p \in FieldPaths(G, f.type, intoLists)} : f \in Range(G[t])}
Dotted(path) ==
    LET d[n \in 0 .. Len(path)] ==
            IF n = 0 THEN <<>> ELSE camelToKebab((IF n = 1 THEN <<>> ELSE d[n - 1] \o <<".">>) \o path[n])
    IN d[Len(path)]

\* A plugin gets what its user has typed.  Every field of a request, however deep and
\* however many messages share its type, has a flag and a property of its tool (for
\* types that neither contain themselves nor refer to one that declares them;
\* buildMessageSchema's comment); the body has a
\* leaf for each flag that was set, at the path of its field, and no other (but the
\* terminal's size); each method has a command of its own, and an enum's value is sent by its full name.  A
\* tool's payload has the bridge's own arguments taken out and the others unchanged.
PluginGetsWhatWasTyped ==
    /\ EveryMethodHasItsCommand /\ EveryEnumResolves
    /\ request.pc # "idle" /\ Acyclic(request.graph) =>
         /\ {g.name : g \in Range(request.flags)} = {Dotted(p) : p \in FieldPaths(request.graph, "A", FALSE)}
         /\ PropertiesOf(request.schema, 0) = FieldPaths(request.graph, "A", TRUE)
    /\ \A g \in Range(request.flags) : g.kind # "endless" => ~g.unknown
    /\ request.pc = "sent" =>
         LET Of(g) == {l \in request.body.leaves : l # TerminalSize /\ Dotted(l.path) = g}
         IN /\ \A g \in DOMAIN request.set :
                  IF request.set[g] = {} THEN Cardinality(Of(g)) = 1
                  ELSE {l.item : l \in Of(g)} = {[idx |-> k.idx, path |-> k.path] : k \in request.set[g]}
            /\ request.body.leaves \ {TerminalSize} = UNION {Of(g) : g \in DOMAIN request.set}
    /\ request.pc = "called" =>
         /\ \A a \in request.payload : a.key \notin {"session_id", "_render_output"}
         /\ \A a \in request.args : a.key = "plain" => a \in request.payload
================================================================================
