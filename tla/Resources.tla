------------------------------- MODULE Resources -------------------------------
(***************************************************************************)
(* The resources plugin: a poller that adapts to how often it is asked     *)
(* (resources/poller.go), the readings it shares, the calls that want them *)
(* fresh and the watchers that are told what changes (resources/main.go).  *)
(* The collectors, which read /proc and /sys, are one reading: a number,   *)
(* compared with a threshold, and a word, compared as it is.               *)
(***************************************************************************)
EXTENDS Integers, Sequences, FiniteSets, SequencesExt

CONSTANTS Callers,       \* calls of Current, Top, PS and History
          Watchers,      \* calls of Watch
          Readings,      \* what the collectors find: [number, word]
          Threshold,     \* a change of the number that is none
          QueueLen,      \* of the channel to the poller
          ChanLen,       \* of the channel of a watcher
          IdleTimeout, MinInterval, MaxInterval, DecayWindow, BusyThreshold,
          MaxClock, MaxPolls, MaxAsked,  \* bounds on time, polls and calls
          ProcessLists,  \* lists of processes: [pid, cpu, mem]
          Recordings,    \* sequences of numbers that are collected one after the other
          Counts,        \* what is asked for: how many, and which process
          DefaultCount, MaxHistory

ASSUME ResourcesAssumption ==
    /\ "nobody" \notin Callers
    /\ Readings # {} /\ \A r \in Readings : r.number \in Int
    /\ {MinInterval, MaxInterval, DecayWindow, IdleTimeout} \subseteq Nat /\ MinInterval <= MaxInterval
    /\ BusyThreshold \in Nat \ {0}
ASSUME ListsAssumption ==
    /\ ProcessLists \subseteq Seq([pid : Int, cpu : Int, mem : Int])
    /\ Recordings \subseteq Seq(Int) /\ Counts \subseteq Int
    /\ {DefaultCount, MaxHistory} \subseteq Nat \ {0}

VARIABLE resources

Nobody_ == "nobody"
Never == -1
NoReading == [n |-> 0, at |-> Never, number |-> 0, word |-> "none"]
NotCalling == [pc |-> "off", since |-> 0, waited |-> FALSE, skipped |-> FALSE, got |-> NoReading]
NotWatching == [on |-> FALSE, filter |-> "nil", ch |-> <<>>, missed |-> FALSE,
                word |-> "none", last |-> NoReading, joined |-> 0]

\* pc: of the goroutine in Run, for: whose request it serves; queue: pollReqCh; data:
\* SharedState; last: lastResponse.  Of a watcher: word and last, of what was sent last.
NoResources ==
    [pc |-> "off", now |-> 0, polls |-> 0, for |-> Nobody_, until |-> 0, lastPoll |-> Never,
     calls |-> <<>>, asked |-> 0, queue |-> <<>>, data |-> NoReading, last |-> NoReading,
     callers |-> [c \in Callers |-> NotCalling], subs |-> [w \in Watchers |-> NotWatching]]

-------------------------------------------------------------------------------
(* The poller.                                                             *)

isIdle == resources.lastPoll = Never \/ resources.now - resources.lastPoll > IdleTimeout
QueueFull == Len(resources.queue) >= QueueLen
countRecentCalls ==
    Cardinality({i \in DOMAIN resources.calls : resources.calls[i] > resources.now - DecayWindow})
calcInterval(n) ==
    IF n <= 0 THEN MaxInterval ELSE IF n >= BusyThreshold THEN MinInterval
    ELSE MaxInterval - (n * (MaxInterval - MinInterval)) \div BusyThreshold
\* nextInterval goes idle without calls; Run has then just polled.
nextInterval ==
    IF countRecentCalls = 0 /\ resources.lastPoll # Never /\ isIdle THEN Never ELSE calcInterval(countRecentCalls)
\* trimCalls: from the first recent one on.
Trimmed(calls) ==
    LET recent == {i \in DOMAIN calls : calls[i] > resources.now - DecayWindow}
    IN IF recent = {} THEN <<>> ELSE SubSeq(calls, Min(recent), Len(calls))

\* Run, at the start: a poll for nobody.
Run == resources.pc = "off" /\ resources' = [resources EXCEPT !.pc = "collect"]
\* Calls do not look at what was read.
Found == IF resources.asked = 0 THEN Readings ELSE {CHOOSE r \in Readings : TRUE}
\* collectAll, and update under the lock of SharedState, which only the poller writes.
Collect ==
    /\ resources.pc = "collect" /\ resources.polls < MaxPolls
    /\ \E r \in Found :
          resources' = [resources EXCEPT !.pc = "broadcast", !.polls = @ + 1,
              !.data = [n |-> resources.polls + 1, at |-> resources.now, number |-> r.number, word |-> r.word]]

Apart(x, y) == (IF x > y THEN x - y ELSE y - x) > Threshold
\* fieldsChanged, for a filter that is nil, the number or the word.
fieldsChanged(filter, old, cur) ==
    \/ filter = "nil" \/ old = NoReading
    \/ filter = "number" /\ Apart(old.number, cur.number)
    \/ filter = "word" /\ old.word # cur.word
\* Sent to a watcher, or not when its channel is full.
Told(s, r) ==
    IF Len(s.ch) < ChanLen THEN [s EXCEPT !.ch = Append(@, r), !.last = r, !.word = r.word]
    ELSE [s EXCEPT !.missed = TRUE]
\* Mutant of Previous: the response is stored before it is compared.
StoredAlready == resources.data
\* broadcast compares with the last response, whoever got it.
Previous == resources.last
broadcast ==
    /\ resources.pc = "broadcast"
    /\ resources' = [resources EXCEPT !.pc = "record", !.last = resources.data,
          !.subs = [w \in Watchers |->
              IF resources.subs[w].on /\ fieldsChanged(resources.subs[w].filter, Previous, resources.data)
              THEN Told(resources.subs[w], resources.data) ELSE resources.subs[w]]]

\* Mutant of Closed: a poll answers all who wait.
ClosedAll == {resources.for} \cup Range(resources.queue)
\* Whose channels Run closes after a poll.
Closed == {resources.for}
recordPoll ==
    /\ resources.pc = "record"
    /\ resources' = [resources EXCEPT !.pc = "next", !.lastPoll = resources.now, !.for = Nobody_,
          !.callers = [c \in Callers |->
              IF c \in Closed THEN [resources.callers[c] EXCEPT !.pc = "get"] ELSE resources.callers[c]]]
Next_ ==
    /\ resources.pc = "next"
    /\ resources' = [resources EXCEPT
          !.pc = IF nextInterval = Never THEN "resting" ELSE "waiting", !.calls = Trimmed(@),
          !.until = IF nextInterval = Never THEN @ ELSE resources.now + nextInterval]
TimerFires ==
    /\ resources.pc = "waiting" /\ resources.now >= resources.until
    /\ resources' = [resources EXCEPT !.pc = "collect", !.until = 0]
TakeRequest ==
    /\ resources.pc \in {"waiting", "resting"} /\ resources.queue # <<>>
    /\ resources' = [resources EXCEPT !.pc = "collect", !.for = Head(resources.queue), !.queue = Tail(@), !.until = 0]
\* The plugin's signal closes stop, which Run sees between polls.
RunReturns == resources.pc \in {"waiting", "resting"} /\ resources' = [resources EXCEPT !.pc = "stopped"]
TimePasses == resources.now < MaxClock /\ resources' = [resources EXCEPT !.now = @ + 1]

-------------------------------------------------------------------------------
(* Calls: ensureFreshData, and the answer.                                 *)

AtCall(c, pc) == resources.callers[c].pc = pc
NoteCall(c) ==
    /\ AtCall(c, "off") /\ resources.asked < MaxAsked
    /\ resources' = [resources EXCEPT !.asked = @ + 1, !.calls = Trimmed(Append(@, resources.now)),
          !.callers[c] = [NotCalling EXCEPT !.pc = IF isIdle THEN "wake" ELSE "check"]]
Wake(c) ==
    /\ AtCall(c, "wake")
    /\ resources' = [resources EXCEPT !.callers[c].pc = "check",
                                      !.queue = IF QueueFull THEN @ ELSE Append(@, Nobody_)]
IsStale(c) ==
    /\ AtCall(c, "check")
    /\ resources' = [resources EXCEPT !.callers[c].pc = IF isIdle THEN "pollnow" ELSE "get"]
PollNow(c) ==
    /\ AtCall(c, "pollnow")
    /\ resources' =
           IF QueueFull
           THEN [resources EXCEPT !.callers[c].pc = "get", !.callers[c].skipped = TRUE]
           ELSE [resources EXCEPT !.callers[c].pc = "polled", !.callers[c].waited = TRUE,
                                  !.callers[c].since = resources.now, !.queue = Append(@, c)]
\* get, under the lock of SharedState.
Get(c) ==
    /\ AtCall(c, "get")
    /\ resources' = [resources EXCEPT !.callers[c].pc = "answered", !.callers[c].got = resources.data]
Returns(c) == AtCall(c, "answered") /\ resources' = [resources EXCEPT !.callers[c] = NotCalling]

Watch(w) ==
    /\ ~resources.subs[w].on
    /\ \E filter \in {"nil", "number", "word"} :
          resources' = [resources EXCEPT !.subs[w] =
              [NotWatching EXCEPT !.on = TRUE, !.filter = filter, !.joined = resources.last.n, !.word = resources.last.word]]
Send(w) ==
    /\ resources.subs[w].on /\ resources.subs[w].ch # <<>>
    /\ resources' = [resources EXCEPT !.subs[w].ch = Tail(@)]
Unwatch(w) == resources.subs[w].on /\ resources' = [resources EXCEPT !.subs[w] = NotWatching]

ResourcesInit == resources = NoResources
ResourcesNext ==
    \/ Run
    \/ /\ resources.pc # "off"
       /\ \/ Collect \/ broadcast \/ recordPoll \/ Next_ \/ TimerFires \/ TakeRequest
          \/ RunReturns \/ TimePasses
          \/ \E c \in Callers :
                ((\A w \in Watchers : ~resources.subs[w].on) /\ NoteCall(c)) \/ Wake(c) \/ IsStale(c) \/ PollNow(c) \/ Get(c) \/ Returns(c)
          \/ \E w \in Watchers : (resources.asked = 0 /\ Watch(w)) \/ Send(w) \/ Unwatch(w)

-------------------------------------------------------------------------------
(* Lists of processes, histories and extremes.                             *)

Swapped(s, i, j) == [s EXCEPT ![i] = s[j], ![j] = s[i]]
\* less, of the process before and the one behind.
Misplaced(p, q, by) ==
    CASE by = "memory" -> p.mem < q.mem [] by = "pid" -> p.pid > q.pid [] OTHER -> p.cpu < q.cpu
Compared(s, i, j, by) == IF Misplaced(s[i], s[j], by) THEN Swapped(s, i, j) ELSE s
\* The inner loop, over those behind i.
Settled(s, i, by) ==
    LET passed[k \in 0 .. Len(s) - i] == IF k = 0 THEN s ELSE Compared(passed[k - 1], i, i + k, by)
    IN passed[Len(s) - i]
sortProcesses(procs, by) ==
    LET sorted[i \in 0 .. Len(procs)] == IF i = 0 THEN procs ELSE Settled(sorted[i - 1], i, by)
    IN sorted[Len(procs)]
FirstOf(s, count) == IF Len(s) > count THEN SubSeq(s, 1, count) ELSE s
OrDefault(count) == IF count <= 0 THEN DefaultCount ELSE count
Top(procs, by, count) == FirstOf(sortProcesses(procs, by), OrDefault(count))
\* PS with a process, the first of that pid, or with none.
PS(procs, pid, by, count) ==
    LET found == {i \in DOMAIN procs : procs[i].pid = pid}
    IN IF pid <= 0 THEN Top(procs, by, count) ELSE IF found = {} THEN <<>> ELSE <<procs[Min(found)]>>

\* Mutant of appendRing: what is full stays as it is.
KeepsFull(buf, val, max) == IF Len(buf) < max THEN Append(buf, val) ELSE buf
appendRing(buf, val, max) == IF Len(buf) < max THEN Append(buf, val) ELSE Append(Tail(buf), val)
lastN(buf, n) == SubSeq(buf, Len(buf) - (IF n > Len(buf) THEN Len(buf) ELSE n) + 1, Len(buf))
History(values, count) ==
    LET ring[i \in 0 .. Len(values)] == IF i = 0 THEN <<>> ELSE appendRing(ring[i - 1], values[i], MaxHistory)
    IN lastN(ring[Len(values)], OrDefault(count))
\* track: extremes that are both 0 are taken for none.
track(t, temp) ==
    LET s == IF t.min = 0 /\ t.max = 0 THEN [min |-> temp, max |-> temp] ELSE t
    IN [min |-> IF temp < s.min THEN temp ELSE s.min, max |-> IF temp > s.max THEN temp ELSE s.max]
\* collectCPUTempWithTracker, of each reading: one that is not above 0 is none.
Extremes(temps) ==
    LET seen[i \in 0 .. Len(temps)] ==
            IF i = 0 THEN [min |-> 0, max |-> 0]
            ELSE IF temps[i] <= 0 THEN seen[i - 1] ELSE track(seen[i - 1], temps[i])
    IN seen[Len(temps)]

ResourcesSpec == ResourcesInit /\ [][ResourcesNext]_resources

-------------------------------------------------------------------------------
\* What Top lists is sorted as asked, has as many as asked, and nothing that is left out
\* belongs before it; sorting neither loses nor repeats a process.
Occurrences(s, p) == Cardinality({i \in DOMAIN s : s[i] = p})
TopIsRight(procs, by, count) ==
    LET sorted == sortProcesses(procs, by)
        top == Top(procs, by, count)
    IN /\ top = SubSeq(sorted, 1, Min({Len(procs), OrDefault(count)}))
       /\ \A i, j \in DOMAIN sorted : i < j => ~Misplaced(sorted[i], sorted[j], by)
       /\ \A p \in Range(sorted) \cup Range(procs) : Occurrences(sorted, p) = Occurrences(procs, p)
\* PS with a pid lists a process of it, if there is one.
PSIsRight(procs, pid) ==
    LET list == PS(procs, pid, "cpu", 0)
        found == {p \in Range(procs) : p.pid = pid}
    IN pid > 0 => Range(list) \subseteq found /\ Len(list) = IF found = {} THEN 0 ELSE 1
\* A history is the end of what was recorded, no longer than the ring or than asked.
HistoryIsRight(values, count) ==
    History(values, count)
    = SubSeq(values, Len(values) - Min({Len(values), MaxHistory, OrDefault(count)}) + 1, Len(values))
\* Extremes are those of all temperatures that were read.
ExtremesAreRight(temps) ==
    LET known == {t \in Range(temps) : t > 0}
    IN known # {} => Extremes(temps) = [min |-> Min(known), max |-> Max(known)]
RightLists ==
    /\ \A procs \in ProcessLists, by \in {"cpu", "memory", "pid"}, count \in Counts : TopIsRight(procs, by, count)
    /\ \A procs \in ProcessLists, pid \in Counts : PSIsRight(procs, pid)
    /\ \A values \in Recordings, count \in Counts : HistoryIsRight(values, count)
    /\ \A temps \in Recordings : ExtremesAreRight(temps)

\* Whatever Top, PS and History are asked for while the plugin runs, they list what is right.
ListsAreRight == resources.pc # "off" => RightLists

\* Whoever asks gets what is fresh, and watchers miss nothing.  A call that waited for
\* the poller has a reading that was collected after it asked; no call has the zero
\* reading, except one that found the queue full; a call that waits has its request in
\* the queue or being served, unless the plugin stops; the poller waits no longer than
\* its longest interval.  A watcher's readings are in order, and as long as its channel
\* was never full it has been told every word that changed, and without a filter the
\* last reading.
ResourcesAreFresh ==
    /\ \A c \in Callers :
          LET call == resources.callers[c]
          IN /\ call.pc = "answered" /\ call.waited => call.got.at >= call.since
             /\ call.pc = "answered" /\ ~call.skipped => call.got # NoReading
             /\ call.pc = "polled" =>
                   c \in Range(resources.queue) \cup {resources.for} \/ resources.pc = "stopped"
    /\ resources.pc = "waiting" => resources.until <= resources.now + MaxInterval
    /\ \A w \in Watchers :
          LET sub == resources.subs[w]
          IN /\ \A i, j \in DOMAIN sub.ch : i < j => sub.ch[i].n < sub.ch[j].n
             /\ sub.on /\ ~sub.missed =>
                  /\ sub.filter = "nil" /\ resources.last.n > sub.joined => sub.last = resources.last
                  /\ sub.filter = "word" => sub.word = resources.last.word
================================================================================
