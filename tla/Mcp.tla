---------------------------------- MODULE Mcp ----------------------------------
(***************************************************************************)
(* The MCP server of dotfilesctl (cli/mcp.go, mcp_bridge.go, and the       *)
(* handlers of cli/feedback.go behind a daemon's prompts).  One loop reads *)
(* the agent's lines; exec_run and script_run get a goroutine of their     *)
(* own, every other tool is served by the loop itself.  A daemon's prompt  *)
(* becomes an elicitation request to the agent, whose answer comes by the  *)
(* same line as its calls; a password for sudo may also come as a call of  *)
(* a tool, _sudo_submit_password, from a web view.                         *)
(***************************************************************************)
EXTENDS Naturals, Sequences, FiniteSets, SequencesExt

CONSTANTS MaxRequests, \* calls that the agent makes
          MaxPrompts,  \* elicitations of all the calls
          MaxAsks,     \* calls and elicitations together
          PromptKinds, \* "input", "confirm", "choose"
          Sayings      \* what the agent answers: "yes", "unknown", "decline", "cancel", "error"

\* An agent that says none has not answered.
ASSUME McpAssumption == "none" \notin Sayings

Requests == 1 .. MaxRequests
Prompts == 1 .. MaxPrompts
Nobody == 0

VARIABLES
    mcpPc,    \* "idle" before RunMCP, "running", "exited"
    loop,     \* the request that the reading loop itself serves, or Nobody
    stdin,    \* lines of the agent that have not been read
    calls,    \* the requests
    prompts,  \* elicitations by number, and what became of them
    pending   \* MCPBridge.pending: prompts whose answer is expected

mcpVars == <<mcpPc, loop, stdin, calls, prompts, pending>>

\* tool: "script_run" and "exec_run"; "apps" is exec_run with sudo for a client with
\* MCP Apps; "submit" is _sudo_submit_password; "other" any other, of which those that
\* run a registered script (dotfiles_git, config_reload) may prompt.  For a
\* submission, for is the request_id, or Nobody.
\* password: what is in passwordCh, a submission or Nobody; used: what sudo was given.
NoRequest == [tool |-> "other", st |-> "none", for |-> Nobody, prompt |-> Nobody,
              password |-> Nobody, used |-> Nobody, answer |-> "none"]
\* said: the agent's answer; got: what SendRequestCtx returned for it; value: what
\* the daemon was told.
NoPrompt == [st |-> "none", call |-> Nobody, kind |-> "input", said |-> "none", got |-> "none",
             value |-> "none"]

\* The handlers of input, confirm and choose on the agent's answer: "yes" is accepted
\* content, "unknown" an accepted choice that is not among the options.
NoValue(said) == IF said = "cancel" THEN "canceled" ELSE "unavailable"
InputValue(said) ==
    IF said \in {"yes", "unknown"} THEN "given"
    ELSE IF said = "decline" THEN "permission denied" ELSE NoValue(said)
ConfirmValue(said) ==
    IF said \in {"yes", "unknown"} THEN "given" ELSE IF said = "decline" THEN "false" ELSE NoValue(said)
ChooseValue(said) ==
    IF said = "yes" THEN "given" ELSE IF said = "unknown" THEN "internal error"
    ELSE IF said = "decline" THEN "-1" ELSE NoValue(said)
PromptValue(kind, said) ==
    IF kind = "input" THEN InputValue(said)
    ELSE IF kind = "confirm" THEN ConfirmValue(said) ELSE ChooseValue(said)

McpInit ==
    /\ mcpPc = "idle" /\ loop = Nobody /\ stdin = <<>> /\ pending = {}
    /\ calls = [r \in Requests |-> NoRequest]
    /\ prompts = [p \in Prompts |-> NoPrompt]

RunMCP == mcpPc = "idle" /\ mcpPc' = "running" /\ UNCHANGED <<loop, stdin, calls, prompts, pending>>

\* The line ends, or the health check fails and exits whatever the loop is at: what is
\* under way is lost with the process.
ExitMCP ==
    /\ mcpPc = "running"
    /\ mcpPc' = "exited" /\ loop' = Nobody /\ stdin' = <<>> /\ pending' = {}
    /\ calls' = [r \in Requests |-> NoRequest]
    /\ prompts' = [p \in Prompts |-> NoPrompt]

-------------------------------------------------------------------------------
(* The agent.                                                              *)

StdinLine(kind, n) == [kind |-> kind, n |-> n]

NewCalls == {r \in Requests : calls[r].st = "none" /\ \A q \in 1 .. r - 1 : calls[q].st # "none"}
NewPrompts == {p \in Prompts : prompts[p].st = "none" /\ \A q \in 1 .. p - 1 : prompts[q].st # "none"}
\* Bound.
MayAsk ==
    LET asked == {r \in Requests : calls[r].st # "none"}
        prompted == {p \in Prompts : prompts[p].st # "none"}
    IN Cardinality(asked) + Cardinality(prompted) < MaxAsks

AgentCalls(r, tool, for) ==
    /\ mcpPc = "running" /\ MayAsk
    /\ for # Nobody => tool = "submit" /\ calls[for].tool = "apps"
    /\ calls' = [calls EXCEPT ![r] = [NoRequest EXCEPT !.tool = tool, !.st = "sent", !.for = for]]
    /\ stdin' = Append(stdin, StdinLine("call", r))
    /\ UNCHANGED <<mcpPc, loop, prompts, pending>>

\* A form is answered once, whenever the user comes to it.
AgentAnswers(p, action) ==
    /\ mcpPc = "running"
    /\ prompts[p].st # "none" /\ prompts[p].said = "none"
    /\ prompts' = [prompts EXCEPT ![p].said = action]
    /\ stdin' = Append(stdin, StdinLine("answer", p))
    /\ UNCHANGED <<mcpPc, loop, calls, pending>>

-------------------------------------------------------------------------------
(* The reading loop.                                                       *)

Background(r) == calls[r].tool \in {"exec_run", "script_run", "apps"}

\* Mutant of HandleResponse: the answer is given to the first that waits.
HandleOldest(p) ==
    IF pending = {} THEN UNCHANGED <<prompts, pending>>
    ELSE LET first == CHOOSE q \in pending : \A o \in pending : q <= o
         IN /\ pending' = pending \ {first}
            /\ prompts' = [prompts EXCEPT ![first].got = prompts[p].said]
\* HandleResponse; an answer that nobody waits for any more is taken for a request
\* without a method, and answered with an error.
HandleResponse(p) ==
    IF p \in pending
    THEN /\ pending' = pending \ {p}
         /\ prompts' = [prompts EXCEPT ![p].got = prompts[p].said]
    ELSE UNCHANGED <<prompts, pending>>

ReadAnswer ==
    /\ mcpPc = "running" /\ loop = Nobody
    /\ stdin # <<>> /\ Head(stdin).kind = "answer"
    /\ HandleResponse(Head(stdin).n)
    /\ stdin' = Tail(stdin)
    /\ UNCHANGED <<mcpPc, loop, calls>>

\* The goroutine of a call, or the loop, begins with it.
ReadCall ==
    /\ mcpPc = "running" /\ loop = Nobody
    /\ stdin # <<>> /\ Head(stdin).kind = "call"
    /\ LET r == Head(stdin).n
       IN /\ loop' = IF Background(r) THEN Nobody ELSE r
          /\ calls' = [calls EXCEPT ![r].st = "running"]
    /\ stdin' = Tail(stdin)
    /\ UNCHANGED <<mcpPc, prompts, pending>>

-------------------------------------------------------------------------------
(* Calls.                                                                  *)

\* The response is written; the loop goes on reading if it served this call.
Answers(r, answer) ==
    /\ calls' = [calls EXCEPT ![r].st = "answered", ![r].answer = answer]
    /\ loop' = IF loop = r THEN Nobody ELSE loop

\* callTool: no daemon, arguments that are refused, or the daemon's one answer.
CallEnds(r) ==
    /\ mcpPc = "running" /\ calls[r].st = "running" /\ calls[r].tool # "submit"
    /\ Answers(r, "done")
    /\ UNCHANGED <<mcpPc, stdin, prompts, pending>>

\* SendRequestCtx for a prompt of the daemon: of a script's directive, or of sudo.
SendRequestCtx(r, p, kind) ==
    /\ mcpPc = "running"
    /\ calls[r].st = "running" /\ calls[r].tool \in {"other", "script_run", "exec_run"}
    /\ MayAsk
    /\ kind \in IF calls[r].tool = "exec_run" THEN {"input"} ELSE PromptKinds
    /\ prompts' = [prompts EXCEPT ![p].st = "waiting", ![p].call = r, ![p].kind = kind]
    /\ pending' = pending \cup {p}
    /\ calls' = [calls EXCEPT ![r].st = "prompting", ![r].prompt = p]
    /\ UNCHANGED <<mcpPc, loop, stdin>>

\* The answer has come, and the daemon gets its value.
PromptReturns(r) ==
    LET p == calls[r].prompt
    IN /\ mcpPc = "running"
       /\ calls[r].st = "prompting" /\ prompts[p].got # "none"
       /\ prompts' = [prompts EXCEPT ![p].st = "returned", ![p].value = PromptValue(prompts[p].kind, prompts[p].got)]
       /\ calls' = [calls EXCEPT ![r].st = "running", ![r].prompt = Nobody]
       /\ UNCHANGED <<mcpPc, loop, stdin, pending>>

\* The prompt for a password has a deadline; any ends with the daemon's request, when
\* what it was for is gone.
PromptTimesOut(r) ==
    LET p == calls[r].prompt
    IN /\ mcpPc = "running"
       /\ calls[r].st = "prompting"
       /\ prompts' = [prompts EXCEPT ![p].st = "cancelled"]
       /\ pending' = pending \ {p}
       /\ calls' = [calls EXCEPT ![r].st = "running", ![r].prompt = Nobody]
       /\ UNCHANGED <<mcpPc, loop, stdin>>

-------------------------------------------------------------------------------
(* MCP Apps: the call waits in pendingRequests for a password.             *)

WaitForPassword(r) ==
    /\ mcpPc = "running" /\ calls[r].st = "running" /\ calls[r].tool = "apps" /\ calls[r].used = Nobody
    /\ calls' = [calls EXCEPT ![r].st = "password"]
    /\ UNCHANGED <<mcpPc, loop, stdin, prompts, pending>>

PendingSudo == {r \in Requests : calls[r].st = "password"}
\* Mutant of AskedFor: the request_id is not looked at.
AnyAsked(s) == PendingSudo
\* The request with the given request_id; without one, whichever Range finds first.
AskedFor(s) == IF calls[s].for = Nobody THEN PendingSudo ELSE PendingSudo \cap {calls[s].for}

SubmitPassword(s) ==
    /\ mcpPc = "running" /\ calls[s].st = "running" /\ calls[s].tool = "submit"
    /\ loop' = Nobody
    /\ IF AskedFor(s) = {} THEN calls' = [calls EXCEPT ![s].st = "answered", ![s].answer = "error"]
       ELSE \E r \in AskedFor(s) :
              IF calls[r].password # Nobody
              THEN calls' = [calls EXCEPT ![s].st = "answered", ![s].answer = "error"]
              ELSE calls' = [calls EXCEPT ![s].st = "answered", ![s].answer = "ok", ![r].password = s]
    /\ UNCHANGED <<mcpPc, stdin, prompts, pending>>

\* The password is encrypted with the negotiated key, if there is one, and sent
\* without a session: the daemon then does not find that key, and says so in a result
\* that has exit code 0.
SudoExecApps(r) ==
    /\ mcpPc = "running" /\ calls[r].st = "password" /\ calls[r].password # Nobody
    /\ calls' = [calls EXCEPT ![r].st = "answered", ![r].used = calls[r].password, ![r].password = Nobody,
                              ![r].answer = "done"]
    /\ UNCHANGED <<mcpPc, loop, stdin, prompts, pending>>

PasswordTimesOut(r) ==
    /\ mcpPc = "running" /\ calls[r].st = "password"
    /\ calls' = [calls EXCEPT ![r].st = "answered", ![r].answer = "error"]
    /\ UNCHANGED <<mcpPc, loop, stdin, prompts, pending>>

McpNext ==
    \/ RunMCP \/ ExitMCP \/ ReadAnswer \/ ReadCall
    \/ \E r \in NewCalls, tool \in {"other", "script_run", "exec_run", "apps", "submit"},
          for \in Requests \cup {Nobody} : AgentCalls(r, tool, for)
    \/ \E p \in Prompts, action \in Sayings : AgentAnswers(p, action)
    \/ \E r \in Requests :
          \/ CallEnds(r) \/ PromptReturns(r) \/ PromptTimesOut(r)
          \/ \E p \in NewPrompts, kind \in PromptKinds \cup {"input"} : SendRequestCtx(r, p, kind)
          \/ WaitForPassword(r) \/ SubmitPassword(r) \/ SudoExecApps(r) \/ PasswordTimesOut(r)
McpSpec == McpInit /\ [][McpNext]_mcpVars

-------------------------------------------------------------------------------
\* Answers find their way although they share a line with calls, prompts give up and
\* several calls run at once: a prompt that waits and has been answered gets its own
\* answer, which the loop has yet to read or has handed over; a password given for a
\* request is used by that one only, and no password by two.  What the user has not
\* granted is never taken for granted.
AnswersReachTheirCall ==
    /\ \A p \in Prompts : prompts[p].got \in {"none", prompts[p].said}
    /\ \A p \in Prompts : prompts[p].st = "waiting" /\ prompts[p].said # "none" =>
           prompts[p].got # "none" \/ (StdinLine("answer", p) \in Range(stdin) /\ p \in pending)
    /\ \A p \in Prompts : prompts[p].value = "given" => prompts[p].said \in {"yes", "unknown"}
    /\ \A r, s \in Requests : s # Nobody /\ s \in {calls[r].password, calls[r].used} =>
           /\ calls[s].for \in {Nobody, r} /\ calls[s].answer = "ok"
           /\ \A q \in Requests \ {r} : s \notin {calls[q].password, calls[q].used}
================================================================================
