-------------------------------- MODULE Scripts --------------------------------
(***************************************************************************)
(* Scripts of the daemon: the parser and the runner (daemon/script.go),    *)
(* the registry of a directory tree (daemon/scripts_registry.go), and the  *)
(* client that starts a script (cli/script.go).  SessionStore has the      *)
(* shell that the steps run in; here a shell is what is exported into it.  *)
(*                                                                         *)
(* A line is blank, a comment, a command, or a directive with the text of  *)
(* its arguments, a sequence of characters.                                *)
(***************************************************************************)
EXTENDS Integers, Sequences, FiniteSets, SequencesExt

CONSTANTS Texts,      \* arguments of directives on which the parser is checked
          ScriptFiles,\* contents of scripts: sequences of lines
          ScriptTrees \* directory trees for the registry

Lines == [kind : {"blank", "comment", "command", "dash", "directive"}, name : STRING, args : Seq(STRING)]
\* How many times it ends in ".dsh", and what it is without.
FileNames == [stem : STRING, dsh : Nat]

ASSUME ScriptsAssumption ==
    /\ Texts \subseteq Seq(STRING) /\ ScriptFiles \subseteq Seq(Lines)
    /\ \A tree \in ScriptTrees :
          /\ IsFiniteSet(tree.dirs) /\ tree.dirs \cup tree.files \subseteq Seq(FileNames)
          /\ <<>> \in tree.dirs \ tree.files

Quote == "\""
Backslash == "\\"
Blank == " "

-------------------------------------------------------------------------------
(* The parser.                                                             *)

TrimSpace(s) ==
    LET N == {i \in DOMAIN s : s[i] # Blank}
    IN IF N = {} THEN <<>> ELSE SubSeq(s, Min(N), Max(N))

\* A character behind a backslash that is not itself behind one.
Escaped(s) ==
    LET esc[i \in 0 .. Len(s)] == i > 2 /\ s[i - 1] = Backslash /\ ~esc[i - 1] IN esc
Closing(s) == {i \in 2 .. Len(s) : s[i] = Quote /\ ~Escaped(s)[i]}
ParseError == [ok |-> FALSE, panic |-> FALSE, val |-> <<>>, rest |-> <<>>]
\* extractQuotedString: s begins with a quote; what follows the closing one is ignored.
extractQuotedString(s) ==
    LET t == TrimSpace(s)
    IN IF Len(t) < 2 \/ t[1] # Quote \/ Closing(t) = {} THEN ParseError
       ELSE LET c == Min(Closing(t))
                Kept(i) == t[i] # Backslash \/ Escaped(t)[i]
                keep == SelectSeq([i \in 1 .. c - 2 |-> i + 1], Kept)
            IN [ok |-> TRUE, panic |-> FALSE, rest |-> <<>>, val |-> [k \in DOMAIN keep |-> t[keep[k]]]]

\* Mutant of EndOfQuoted: no escapes.
EndAtFirst(t, from) == Min({p \in from .. Len(t) + 1 : p > Len(t) \/ t[p] = Quote}) + 1
\* extractFirstQuoted: the first quoted string, and what is left behind it.  Its end is
\* sought from the second character behind the opening quote on, two quotes in a row
\* do not end it, and a backslash skips the next character, of which there may be none.
EndOfQuoted(t, from) ==
    LET end[p \in 1 .. Len(t) + 2] ==
            CASE p > Len(t) -> p
              [] p <= Len(t) /\ t[p] = Quote ->
                     IF p < Len(t) /\ t[p + 1] = Quote THEN end[p + 1] ELSE p + 1
              [] p <= Len(t) /\ t[p] = Backslash -> end[p + 2]
              [] OTHER -> end[p + 1]
    IN end[from]
extractFirstQuoted(s) ==
    LET t == TrimSpace(s)
        quotes == {i \in DOMAIN t : t[i] = Quote}
        idx == Min(quotes)
        q == extractQuotedString(SubSeq(t, idx, Len(t)))
        end == EndOfQuoted(t, idx + 2)
    IN IF quotes = {} \/ ~q.ok THEN ParseError
       ELSE [q EXCEPT !.panic = end > Len(t) + 1,
                      !.rest = IF end > Len(t) THEN <<>> ELSE TrimSpace(SubSeq(t, end, Len(t)))]

\* "as NAME" at the head of what is left.
NamesVariable(r) == Len(r) >= 3 /\ r[1] = "a" /\ r[2] = "s" /\ r[3] = Blank
VariableIn(r, default) ==
    IF NamesVariable(r) /\ TrimSpace(SubSeq(r, 4, Len(r))) # <<>> THEN "named" ELSE default

\* parseChooseArgs: quoted options until "as NAME", the end, or what is not quoted.
IsOver(r) == r = <<>> \/ NamesVariable(r)
EndsOptions(r, q) == IsOver(r) \/ ~q.ok \/ q.panic
Rests(r) ==
    LET left[k \in 0 .. Len(r)] == IF k = 0 THEN r ELSE extractFirstQuoted(left[k - 1]).rest
    IN left
OptionCount(left) == Min({k \in DOMAIN left : EndsOptions(left[k], extractFirstQuoted(left[k]))})
OptionsBefore(n, r) ==
    [options |-> n, var |-> IF IsOver(r) THEN VariableIn(r, "_choose") ELSE "_choose",
     panic |-> ~IsOver(r) /\ extractFirstQuoted(r).panic]
OptionsIn(left) == OptionsBefore(OptionCount(left), left[OptionCount(left)])

\* parseDirective.  A line is a record [kind, name, args]; q: its quoted argument, o: the
\* options behind it.
Malformed == [kind |-> "error", var |-> "", options |-> 0]
Panicked == [kind |-> "panic", var |-> "", options |-> 0]
Directed(line, q, o) ==
    CASE line.args = <<>> \/ line.name \notin {"confirm", "input", "choose"} \/ ~q.ok -> Malformed
      [] line.args # <<>> /\ q.ok /\ line.name = "confirm" -> [kind |-> "confirm", var |-> "_confirm", options |-> 0]
      [] line.args # <<>> /\ q.ok /\ line.name = "input" ->
             IF q.panic THEN Panicked
             ELSE [kind |-> "input", options |-> 0,
                   var |-> IF NamesVariable(q.rest) THEN "named" ELSE "_input"]
      [] line.args # <<>> /\ q.ok /\ line.name = "choose" ->
             IF q.panic \/ o.panic THEN Panicked
             ELSE IF o.options = 0 THEN Malformed
             ELSE [kind |-> "choose", var |-> o.var, options |-> o.options]
Quoted(line) == IF line.name = "confirm" THEN extractQuotedString(line.args) ELSE extractFirstQuoted(line.args)
parseDirective(line) == Directed(line, Quoted(line), OptionsIn(Rests(Quoted(line).rest)))

\* parseScript: a step for each line that is not blank or a comment.
StepOf(line) ==
    IF line.kind = "directive" THEN parseDirective(line) ELSE [kind |-> "exec", var |-> "", options |-> 0]
parseScript(lines) ==
    LET parsed[i \in 0 .. Len(lines)] ==
            IF i = 0 THEN <<>>
            ELSE IF lines[i].kind \in {"blank", "comment"} THEN parsed[i - 1]
            ELSE Append(parsed[i - 1], StepOf(lines[i]))
    IN parsed[Len(lines)]

\* splitFrontMatter: what stands between a first line "---" and the next one is not run.
IsDash(l) == l.kind = "dash"
FirstLine(lines) == Min({i \in DOMAIN lines : lines[i].kind # "blank"} \cup {Len(lines) + 1})
splitFrontMatter(lines) ==
    LET first == FirstLine(lines)
        ends == {i \in first + 1 .. Len(lines) : IsDash(lines[i])}
    IN IF first > Len(lines) \/ ~IsDash(lines[first]) \/ ends = {} THEN lines
       ELSE SubSeq(lines, Min(ends) + 1, Len(lines))

-------------------------------------------------------------------------------
(* The registry.  A tree is [dirs, files, readme]: dirs and files are      *)
(* paths (sequences of names, the root is <<>>), readme[d] is what the     *)
(* README.md of a directory says.                                          *)

Parent(p) == SubSeq(p, 1, Len(p) - 1)
Defaults == [kind |-> "front", enabled |-> TRUE, exclude |-> {}]
\* parseDirFrontMatter: none or a broken one leaves what came from above; one without
\* front matter enables everything.
FrontMatterOf(tree, d) ==
    LET from[n \in 0 .. Len(d)] ==
            CASE tree.readme[SubSeq(d, 1, n)].kind = "front" -> tree.readme[SubSeq(d, 1, n)]
              [] tree.readme[SubSeq(d, 1, n)].kind = "plain" -> Defaults
              [] OTHER -> IF n = 0 THEN Defaults ELSE from[n - 1]
    IN from[Len(d)]

\* The directories that scanDir enters, level by level: no one on the way excludes them.
\* No path has more directories than there are.
Entered(tree) ==
    LET level[n \in 0 .. Cardinality(tree.dirs)] ==
            IF n = 0 THEN {<<>>}
            ELSE {e \in tree.dirs : /\ e # <<>> /\ Parent(e) \in level[n - 1]
                                    /\ Last(e).stem \notin FrontMatterOf(tree, Parent(e)).exclude}
    IN UNION {level[n] : n \in 0 .. Cardinality(tree.dirs)}
\* scanDir: the scripts in them.
Lists(tree, f) ==
    /\ Parent(f) \in Entered(tree) /\ Last(f).dsh > 0
    /\ Last(f).dsh > 1 \/ Last(f).stem \notin FrontMatterOf(tree, Parent(f)).exclude
scanDir(tree) ==
    {[path |-> Append(Parent(f), [Last(f) EXCEPT !.dsh = @ - 1]), file |-> f,
      enabled |-> FrontMatterOf(tree, Parent(f)).enabled] : f \in {g \in tree.files : Lists(tree, g)}}

\* ResolveScriptPath: without the suffix, with one, or as it is.
ResolveScriptPath(tree, p) ==
    LET bare == [p EXCEPT ![Len(p)].dsh = IF @ > 0 THEN @ - 1 ELSE 0]
        with == [bare EXCEPT ![Len(p)].dsh = @ + 1]
    IN IF with \in tree.files \cup tree.dirs THEN with
       ELSE IF bare \in tree.files THEN bare ELSE <<>>

-------------------------------------------------------------------------------
(* RunScript.                                                              *)

VARIABLE script  \* the running request, or NoScript

\* results: how each step went, "ok" or "failed"; exported: what the shell was told;
\* open: diagnostics events that were started and not stopped; error: of the answer.
NoScript == [pc |-> "idle", steps |-> <<>>, results |-> <<>>, exported |-> <<>>, open |-> 0,
             allOK |-> TRUE, error |-> "", client |-> ""]

Answer(s, error) == [s EXCEPT !.pc = "done", !.error = error, !.allOK = @ /\ error = ""]
\* The first line that does not parse ends everything.
Begun(steps) ==
    LET bad == {i \in DOMAIN steps : steps[i].kind \in {"error", "panic"}}
    IN IF bad = {} THEN [NoScript EXCEPT !.pc = "run", !.steps = steps, !.open = 1]
       ELSE IF steps[Min(bad)].kind = "error" THEN Answer(NoScript, "parse error")
       ELSE [NoScript EXCEPT !.pc = "panic"]
Beginnings ==
    {Begun(parseScript(IF registered THEN splitFrontMatter(f) ELSE f)) : f \in ScriptFiles, registered \in BOOLEAN}
\* RunScript up to the first step.  The shell may fail to start, the file may not be there.
RunScript ==
    /\ script.pc = "idle"
    /\ \/ \E e \in {"no shell", "no source", "cannot read"} : script' = Answer(script, e)
       \/ \E s \in Beginnings : script' = s

Step == script.steps[Len(script.results) + 1]
\* Mutant of Result: the last step decides.
ForgetsFailure(r) == [script EXCEPT !.results = Append(@, r), !.allOK = r = "ok"]
Result(r) == [script EXCEPT !.results = Append(@, r), !.allOK = @ /\ r = "ok"]
HasStep(kinds) ==
    script.pc = "run" /\ Len(script.results) < Len(script.steps) /\ Step.kind \in kinds
\* A command: its events enclose it.
ExecStep == HasStep({"exec"}) /\ \E code \in {"ok", "failed"} : script' = Result(code)
\* A prompt: without a callback, with an error, or when a choice is cancelled it fails;
\* an answer, also "false", is exported.
PromptStep ==
    /\ HasStep({"confirm", "input", "choose"})
    /\ \/ script' = Result("failed")
       \/ script' = [Result("ok") EXCEPT !.exported = Append(@, Step.var)]
FinishScript ==
    /\ script.pc = "run" /\ Len(script.results) = Len(script.steps)
    /\ script' = [Answer(script, IF script.allOK THEN "" ELSE "steps failed") EXCEPT !.open = 0]
\* printScriptResult: the client fails when the script did, or when the request did.
ClientReports ==
    /\ script.pc \in {"done", "panic"} /\ script.client = ""
    /\ script' = [script EXCEPT !.client = IF script.pc = "done" /\ script.allOK THEN "ok" ELSE "error"]

ScriptInit == script = NoScript
ScriptNext == RunScript \/ ExecStep \/ PromptStep \/ FinishScript \/ ClientReports

-------------------------------------------------------------------------------
RestIsWhatFollows(t) ==
    LET q == extractFirstQuoted(t)
        s == SubSeq(TrimSpace(t), Min({i \in DOMAIN TrimSpace(t) : TrimSpace(t)[i] = Quote}), Len(TrimSpace(t)))
        c == Min(Closing(s))
    IN q.ok /\ c > 2 /\ s[2] # Backslash /\ (c = Len(s) \/ s[c + 1] # Quote)
       => ~q.panic /\ q.rest = TrimSpace(SubSeq(s, c + 1, Len(s)))
EveryRestIsRight == \A t \in Texts : RestIsWhatFollows(t)

ListedCanBeRun(tree) ==
    \A e \in scanDir(tree) : Last(e.path).dsh = 0 => ResolveScriptPath(tree, e.path) = e.file
ExcludedIsNotListed(tree) ==
    \A e \in scanDir(tree) : \A n \in 1 .. Len(e.path) :
        e.path[n].dsh = 0 => e.path[n].stem \notin FrontMatterOf(tree, SubSeq(e.path, 1, n - 1)).exclude
EveryTreeIsRight == \A tree \in ScriptTrees : ListedCanBeRun(tree) /\ ExcludedIsNotListed(tree)

\* The steps whose answers have been exported.
Exported == {i \in DOMAIN script.results : script.results[i] = "ok" /\ script.steps[i].kind # "exec"}

\* Scripts are read and reported as they are written.  What stands behind a quoted
\* argument is what the parser goes on with (the comment of extractFirstQuoted), for
\* texts that are not empty, do not begin with a backslash and have no two quotes at
\* their end; a script that the registry lists, at any depth and below any README, is
\* the file that running it by that name reads.  The answer of a script and the client's
\* exit status tell of every step: one result for each, success only if all of them and
\* the parser succeeded; what the shell has been told are the answers in their order;
\* and every diagnostics event that was started is stopped, also for a script that does
\* not parse.
ScriptIsReported ==
    /\ EveryRestIsRight /\ EveryTreeIsRight
    /\ script.pc = "done" => /\ script.open = 0
                             /\ script.allOK <=> script.error = ""
                             /\ script.error \in {"", "steps failed"} => Len(script.results) = Len(script.steps)
    /\ script.client = "ok" => \A i \in DOMAIN script.results : script.results[i] = "ok"
    /\ Len(script.exported) = Cardinality(Exported)
    /\ \A i \in Exported : script.exported[Cardinality({j \in Exported : j <= i})] = script.steps[i].var
================================================================================
