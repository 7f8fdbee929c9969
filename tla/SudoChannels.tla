------------------------------ MODULE SudoChannels ------------------------------
(***************************************************************************)
(* How the daemon gets root for a command (daemon/exec.go, helpers.go):    *)
(* Exec, ExecStream, SudoExec and BackgroundExec with sudo, one call of a  *)
(* session after the other.  sudo -n is tried first, then the password in  *)
(* the session's cache (SudoCache has what concurrent calls do to it),     *)
(* then the first channel that the client and the desktop offer.           *)
(***************************************************************************)
EXTENDS Naturals

CONSTANT Apis  \* calls that are made: "Exec", "ExecStream", "SudoExec", "BackgroundExec"

VARIABLE sudo  \* the session, and its call in progress

\* caps, tools: what the client and the machine offer; unavailable: the variable
\* _elicitation_unavailable; cached: the password in the cache.  Of the call: its
\* method, how often the user was asked, how often without an answer; the outcome of
\* the last execution of the command; and what must not happen: an execution after
\* the user declined, and one after another that succeeded.
NoSudo ==
    [pc |-> "idle", caps |-> {}, tools |-> {}, callback |-> FALSE, unavailable |-> FALSE, cached |-> "none",
     api |-> "Exec", method |-> "none", given |-> "none", asked |-> 0, unanswered |-> 0, declined |-> FALSE,
     last |-> "none", ranDeclined |-> FALSE, ranAgain |-> FALSE, answer |-> "none"]
SudoInit == sudo = NoSudo

SudoGoto(pc) == sudo' = [sudo EXCEPT !.pc = pc]
Ends(s, answer) == [s EXCEPT !.pc = "done", !.answer = answer, !.given = "none"]
\* The command is executed, with some exit code.
Ran(s, code) == [s EXCEPT !.last = code, !.ranDeclined = @ \/ s.declined, !.ranAgain = @ \/ s.last = "ok"]
ExitCodes == {"ok", "failed"}

SudoSession ==
    /\ sudo.pc = "idle"
    /\ \E caps \in SUBSET {"terminal", "graphical", "elicitation"},
          tools \in SUBSET {"sudo", "askpass", "pkexec"}, callback \in BOOLEAN :
          sudo' = [sudo EXCEPT !.pc = "done", !.caps = caps, !.tools = tools, !.callback = callback]

SudoCall ==
    /\ sudo.pc = "done"
    /\ \E api \in Apis, method \in {"none", "nopass", "graphical"}, given \in {"none", "right", "wrong", "lost key"} :
          /\ api # "SudoExec" => method = "none" /\ given = "none"
          /\ sudo' = [NoSudo EXCEPT
                !.pc = IF given = "none" THEN "sudo -n" ELSE "given", !.caps = sudo.caps, !.tools = sudo.tools,
                !.callback = sudo.callback, !.unavailable = sudo.unavailable, !.cached = sudo.cached,
                !.api = api, !.method = method, !.given = given]

\* sudo -S with a password, which is cached when the command succeeds.  A wrong one
\* executes nothing, but where sudo's own timestamp is still valid, so that it is not
\* looked at: then it is cached like a right one.
WithPassword(s, password) ==
    (IF password = "wrong" \/ "sudo" \notin s.tools THEN {Ends(s, "failed")} ELSE {})
    \cup (IF "sudo" \notin s.tools THEN {}
          ELSE {Ends([Ran(s, code) EXCEPT !.cached = IF code = "ok" THEN password ELSE @], code) : code \in ExitCodes})

\* SudoExec with a password; one whose key the session does not have cancels.
SudoExecGiven ==
    /\ sudo.pc = "given"
    /\ IF sudo.given = "lost key" \/ "sudo" \notin sudo.tools THEN sudo' = Ends(sudo, "cancelled")
       ELSE sudo' \in WithPassword(sudo, sudo.given)

\* BackgroundExec starts a command that tryCachedSudo has run, and tells its exit later:
\* with sudo -n again, which may not authenticate this time.
Started(s) == {Ends(s, "failed")} \cup {Ends(Ran(s, code), code) : code \in ExitCodes}

\* tryCachedSudo, sudo -n: it may authenticate by its own timestamp; a command that
\* fails is not told from a password that is missing.
SudoN ==
    /\ sudo.pc = "sudo -n"
    /\ \/ SudoGoto("cached")
       \/ /\ "sudo" \in sudo.tools
          /\ \E code \in ExitCodes :
                IF code = "failed" THEN sudo' = [Ran(sudo, code) EXCEPT !.pc = "cached"]
                ELSE IF sudo.api = "BackgroundExec" THEN sudo' \in Started(Ran(sudo, code))
                ELSE sudo' = Ends(Ran(sudo, code), code)

\* tryCachedSudo, the session's password: sudo refuses a wrong one, or does not look at it.
CachedSudo ==
    /\ sudo.pc = "cached"
    /\ \/ sudo.cached = "none" /\ SudoGoto("channel")
       \/ /\ sudo.cached = "wrong" \/ "sudo" \notin sudo.tools
          /\ sudo.cached # "none"
          /\ sudo' = [sudo EXCEPT !.pc = "channel", !.cached = "none"]
       \/ /\ sudo.cached # "none" /\ "sudo" \in sudo.tools
          /\ \E code \in ExitCodes :
                IF code = "failed" THEN sudo' = [Ran(sudo, code) EXCEPT !.pc = "channel", !.cached = "none"]
                ELSE IF sudo.api = "BackgroundExec" THEN sudo' \in Started(Ran(sudo, code))
                ELSE sudo' = Ends(Ran(sudo, code), code)

\* The first channel of the four that can be used.
Channel ==
    IF "terminal" \in sudo.caps /\ sudo.callback THEN "terminal"
    ELSE IF "graphical" \in sudo.caps /\ "askpass" \in sudo.tools THEN "askpass"
    ELSE IF "graphical" \in sudo.caps /\ "pkexec" \in sudo.tools THEN "pkexec"
    ELSE IF "elicitation" \in sudo.caps /\ ~sudo.unavailable /\ sudo.callback THEN "elicitation"
    ELSE "none"

Asked == [sudo EXCEPT !.asked = @ + 1]
\* feedbackSudoPassword, graphicalSudoPassword: a password.  BackgroundExec caches it
\* at once and hands it to the command as its Stdin, for which the task's StdinPipe then
\* fails: the command is never started.
PasswordTyped ==
    /\ sudo.pc = "channel" /\ Channel \in {"terminal", "askpass", "elicitation"}
    /\ \E password \in {"right", "wrong"} :
          IF sudo.api = "BackgroundExec"
          THEN sudo' = Ends([Asked EXCEPT !.cached = password], "failed")
          ELSE sudo' \in WithPassword(Asked, password)

\* Mutant of isUserDecline: a refusal is taken for a channel that does not work.
NeverDeclined == FALSE
\* isUserDecline, of the error that the user's refusal is.
isUserDecline == TRUE
\* The channel's failure: the user refuses, or the form is not answered.  What is not
\* a refusal marks elicitation as unavailable in Exec and SudoExec, which go on.
Fails(s, refused) ==
    IF Channel = "elicitation" /\ ~refused /\ sudo.api \in {"Exec", "SudoExec"}
    THEN [s EXCEPT !.unavailable = TRUE, !.pc = "methods"] ELSE Ends(s, "error")
UserDeclines ==
    /\ sudo.pc = "channel" /\ Channel \in {"terminal", "askpass", "elicitation"}
    /\ sudo' = Fails([Asked EXCEPT !.declined = TRUE], isUserDecline)
PromptUnanswered ==
    /\ sudo.pc = "channel" /\ Channel \in {"terminal", "elicitation"}
    /\ sudo' = Fails([Asked EXCEPT !.unanswered = @ + 1], FALSE)

\* pkexec asks by itself.  SudoExec calls itself, with a method that it will not come
\* to: its recursive call chooses the same channel, and so on until sudo -n succeeds.
Pkexec(s) ==
    {Ends([s EXCEPT !.asked = @ + 1, !.declined = TRUE], "failed")}
    \cup {Ends(Ran([s EXCEPT !.asked = @ + 1], code), code) : code \in ExitCodes}
RunPkexec ==
    /\ sudo.pc = "channel" /\ Channel = "pkexec"
    /\ IF sudo.api = "SudoExec" THEN sudo' = [sudo EXCEPT !.pc = "sudo -n", !.method = "graphical"]
       ELSE sudo' \in Pkexec(sudo)

NoChannel ==
    /\ sudo.pc = "channel" /\ Channel = "none"
    /\ IF sudo.api = "SudoExec" THEN SudoGoto("methods") ELSE sudo' = Ends(sudo, "error")
\* SudoExec's preferred methods, and the challenge; the end of Exec without a channel.
SudoMethods ==
    /\ sudo.pc = "methods"
    /\ sudo' \in
           IF sudo.method = "nopass" /\ "sudo" \in sudo.tools
           THEN {Ends(sudo, "failed")} \cup {Ends(Ran(sudo, code), code) : code \in ExitCodes}
           ELSE IF sudo.method = "graphical" /\ "pkexec" \in sudo.tools THEN Pkexec(sudo)
           ELSE IF sudo.method # "none" THEN {Ends(sudo, "cancelled")}
           ELSE {Ends(sudo, IF sudo.api = "Exec" THEN "error" ELSE "challenge")}

SudoNext ==
    \/ SudoSession \/ SudoCall \/ SudoExecGiven \/ SudoN \/ CachedSudo \/ PasswordTyped \/ UserDeclines
    \/ PromptUnanswered \/ RunPkexec \/ NoChannel \/ SudoMethods

-------------------------------------------------------------------------------
\* However the channels follow one another and fall back: a command is not executed
\* once the user has declined; success is reported only when the last execution
\* succeeded; and the user is asked a second time only if the first prompt got no
\* answer.  Of Exec, ExecStream and SudoExec besides: a command that has succeeded is
\* not executed again, and its success is reported.  BackgroundExec does repeat what
\* tryCachedSudo ran, and reports a failure where the repetition is not let in.
SudoAsksAndRunsRightly ==
    /\ ~sudo.ranDeclined
    /\ sudo.ranAgain => sudo.api = "BackgroundExec"
    /\ sudo.answer = "ok" => sudo.last = "ok"
    /\ sudo.pc = "done" /\ sudo.last = "ok" => sudo.answer = "ok" \/ sudo.api = "BackgroundExec"
    /\ sudo.asked <= 1 + sudo.unanswered
================================================================================
