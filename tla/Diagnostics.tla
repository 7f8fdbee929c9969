----------------------------- MODULE Diagnostics -----------------------------
(***************************************************************************)
(* The diagnostics engine (dotfilesd/internal/pkg/diagnostics) with those  *)
(* who push events to it, the calls that move a plugin's session in its    *)
(* tree (daemon/executor_svc.go) and the clients that stream its events    *)
(* (daemon/diagnostics_svc.go).                                            *)
(*                                                                         *)
(* PushEvent updates the resource and the history in one critical section  *)
(* of Engine.mu and notifies the subscribers in a later one of subsMu,     *)
(* which several pushers may hold for reading at a time.                   *)
(***************************************************************************)
EXTENDS Naturals, Sequences, FiniteSets

CONSTANTS Resources,    \* resource ids that events are about
          EventParent,  \* the parent that a resource's events name, or Root
          Events,       \* the events that may be pushed
          Created,      \* sessions that SessionStore.Create makes
          Labelled,     \* resources whose events come by PostEvent, with Labels
          PluginSession, Calls, Caller,  \* calls of a plugin and their sessions
          Subs,         \* clients of StreamEvents
          ChanSize,     \* capacity of a subscriber's channel: 100 in the code
          MaxCount,     \* RetentionPolicy.MaxCount
          MaxEvents     \* bound on the events that are pushed

Root == "root"
None == "none"
Starts == {"start"}
Ends == {"stop", "again"}  \* "again": a session may be finalized twice

Event(r, k) == [res |-> r, kind |-> k]
NoEvent == Event(None, None)

ASSUME DiagnosticsAssumption ==
    /\ {Root, None} \cap Resources = {}
    /\ EventParent \in [Resources -> Resources \cup {Root}]
    /\ Events \subseteq [res : Resources, kind : Starts \cup Ends]
    /\ \A e \in Events : Event(e.res, "start") \in Events
    /\ PluginSession \in Resources
    /\ Caller \in [Calls -> Resources]
    /\ {ChanSize, MaxCount} \subseteq Nat \ {0}
    /\ MaxEvents \in Nat
ASSUME FiniteAssumption == IsFiniteSet(Resources)

VARIABLES
    at,       \* at[e]: how far the goroutine that pushes e is
    todo,     \* todo[e]: subscribers that e has yet to be offered to
    state,    \* StateCache.resources
    history,  \* history[t]: the ring of the events of type t
    call,     \* call[c]: control state of CallPlugin
    sub,      \* sub[s]: control state of StreamEvents
    chan,     \* chan[s]: the subscriber's channel
    hold,     \* hold[s]: the event that the handler has taken from it
    past      \* past[s]: events pushed before s subscribed, dropped because
              \* chan[s] was full, or sent to the client

cache == <<state, history>>
pushing == <<at, todo>>
streams == <<sub, chan, hold, past>>
vars == <<pushing, cache, call, streams>>

NoResource == [status |-> None, parent |-> Root, started |-> FALSE, fin |-> None]

Init ==
    /\ at = [e \in Events |-> "idle"]
    /\ todo = [e \in Events |-> {}]
    /\ state = [r \in Resources |-> NoResource]
    /\ history = [t \in Starts \cup {"stop"} |-> <<>>]
    /\ call = [c \in Calls |-> "idle"]
    /\ sub = [s \in Subs |-> "off"]
    /\ chan = [s \in Subs |-> <<>>]
    /\ hold = [s \in Subs |-> NoEvent]
    /\ past = [s \in Subs |-> {}]

Exists(r) == state[r].status # None
Subscribers == {s \in Subs : sub[s] = "on"}

\* subsMu is held for reading by those who notify.
NobodyNotifies == \A e \in Events : at[e] # "notify"

-------------------------------------------------------------------------------
(* Those who push.                                                         *)

\* Mutant of Returned: PushEvent leaves the notification to a goroutine.
ReturnedEarly(e) == at[e] \in {"applied", "notify", "done"}

Returned(e) == at[e] = "done"

\* Mutant of MayPush: no store pushes under its lock.
MayPushEarly(e) ==
    LET start == Event(e.res, "start") IN
    IF e.kind \in Starts THEN e.res \notin Created
    ELSE (e.res \in Created => at[start] # "idle")

\* A resource's end is pushed by the goroutine that has pushed its start; that
\* of a session by whoever finalizes it.  CreateWithID and CreateNamed push
\* under the store's lock, Create does after it has released it.
MayPush(e) ==
    LET start == Event(e.res, "start") IN
    IF e.kind \in Starts THEN e.res \notin Created
    ELSE IF e.res \in Created THEN at[start] # "idle" ELSE Returned(start)

Room == Cardinality({e \in Events : at[e] # "idle"}) < MaxEvents

\* Create has put the session in the store and is about to call PushEvent.
Create(e) ==
    /\ e.kind \in Starts
    /\ e.res \in Created
    /\ at[e] = "idle"
    /\ Room
    /\ at' = [at EXCEPT ![e] = "created"]
    /\ UNCHANGED <<todo, cache, call, streams>>

Started(rs) ==
    IF rs.started THEN rs ELSE [rs EXCEPT !.status = "active", !.started = TRUE]
Ended(rs, e) ==
    IF rs.fin # None THEN rs ELSE [rs EXCEPT !.status = "finished", !.fin = e.kind]

applyEvent(e) ==
    LET rs == IF Exists(e.res) THEN state[e.res]
              ELSE [NoResource EXCEPT !.status = "pending", !.parent = EventParent[e.res]]
    IN  [state EXCEPT ![e.res] = IF e.kind \in Starts THEN Started(rs) ELSE Ended(rs, e)]

Type(e) == IF e.kind \in Starts THEN e.kind ELSE "stop"

\* Mutant of Recorded: the ring is cut before the event is appended.
CutsFirst(h, e) == Append(IF Len(h) > MaxCount THEN Tail(h) ELSE h, e)

Recorded(h, e) == IF Len(h) = MaxCount THEN Append(Tail(h), e) ELSE Append(h, e)

PushEvent(e) ==
    /\ \/ at[e] = "created"
       \/ at[e] = "idle" /\ Room /\ MayPush(e)
    /\ state' = applyEvent(e)
    /\ history' = [history EXCEPT ![Type(e)] = Recorded(@, e)]
    /\ at' = [at EXCEPT ![e] = "applied"]
    /\ UNCHANGED <<todo, call, streams>>

\* notifySubscribers takes the read lock; nobody can subscribe until it is back.
RLock(e) ==
    /\ at[e] = "applied"
    /\ todo' = [todo EXCEPT ![e] = Subscribers]
    /\ at' = [at EXCEPT ![e] = IF Subscribers = {} THEN "done" ELSE "notify"]
    /\ UNCHANGED <<cache, call, streams>>

\* The next subscriber of the range over the map.
Offered(e, s) ==
    /\ todo' = [todo EXCEPT ![e] = @ \ {s}]
    /\ at' = [at EXCEPT ![e] = IF todo[e] = {s} THEN "done" ELSE "notify"]

\* Mutant of Notify: a full channel ends the loop.
NotifyStops(e, s) ==
    /\ at[e] = "notify"
    /\ s \in todo[e]
    /\ IF Len(chan[s]) < ChanSize
       THEN chan' = [chan EXCEPT ![s] = Append(@, e)] /\ Offered(e, s) /\ UNCHANGED past
       ELSE /\ past' = [past EXCEPT ![s] = @ \cup {e}]
            /\ at' = [at EXCEPT ![e] = "done"]
            /\ UNCHANGED <<chan, todo>>
    /\ UNCHANGED <<cache, call, sub, hold>>

Notify(e, s) ==
    /\ at[e] = "notify"
    /\ s \in todo[e]
    /\ Offered(e, s)
    /\ IF Len(chan[s]) < ChanSize
       THEN chan' = [chan EXCEPT ![s] = Append(@, e)] /\ UNCHANGED past
       ELSE past' = [past EXCEPT ![s] = @ \cup {e}] /\ UNCHANGED chan
    /\ UNCHANGED <<cache, call, sub, hold>>

-------------------------------------------------------------------------------
(* CallPlugin moves the plugin's session below that of its caller, and     *)
(* back when it returns.                                                   *)

UpdateParent(r, p) ==
    state' = IF Exists(r) THEN [state EXCEPT ![r].parent = p] ELSE state

CallPlugin(c) ==
    /\ call[c] = "idle"
    /\ UpdateParent(PluginSession, Caller[c])
    /\ call' = [call EXCEPT ![c] = "running"]
    /\ UNCHANGED <<pushing, history, streams>>

\* Mutant of CallReturns: the deferred call captures execParent.
RestoresCaller(c) ==
    /\ call[c] = "running"
    /\ UpdateParent(PluginSession, Caller[c])
    /\ call' = [call EXCEPT ![c] = "returned"]
    /\ UNCHANGED <<pushing, history, streams>>

CallReturns(c) ==
    /\ call[c] = "running"
    /\ UpdateParent(PluginSession, EventParent[PluginSession])
    /\ call' = [call EXCEPT ![c] = "returned"]
    /\ UNCHANGED <<pushing, history, streams>>

-------------------------------------------------------------------------------
(* StreamEvents.                                                           *)

Subscribe(s) ==
    /\ sub[s] = "off"
    /\ NobodyNotifies
    /\ sub' = [sub EXCEPT ![s] = "on"]
    /\ past' = [past EXCEPT ![s] = {e \in Events : at[e] = "done"}]
    /\ UNCHANGED <<pushing, cache, call, chan, hold>>

\* From here to Send the handler writes event_type into the event's Labels, and
\* reads them.
Receive(s) ==
    /\ sub[s] = "on"
    /\ hold[s] = NoEvent
    /\ chan[s] # <<>>
    /\ hold' = [hold EXCEPT ![s] = Head(chan[s])]
    /\ chan' = [chan EXCEPT ![s] = Tail(@)]
    /\ UNCHANGED <<pushing, cache, call, sub, past>>

Send(s) ==
    /\ hold[s] # NoEvent
    /\ past' = [past EXCEPT ![s] = @ \cup {hold[s]}]
    /\ hold' = [hold EXCEPT ![s] = NoEvent]
    /\ UNCHANGED <<pushing, cache, call, sub, chan>>

\* The client goes away; the deferred unsubscription takes the write lock.  The
\* next client begins anew.
Unsubscribe(s) ==
    /\ sub[s] = "on"
    /\ NobodyNotifies
    /\ sub' = [sub EXCEPT ![s] = "off"]
    /\ chan' = [chan EXCEPT ![s] = <<>>]
    /\ hold' = [hold EXCEPT ![s] = NoEvent]
    /\ past' = [past EXCEPT ![s] = {}]
    /\ UNCHANGED <<pushing, cache, call>>

-------------------------------------------------------------------------------

Next ==
    \/ \E e \in Events : Create(e) \/ PushEvent(e) \/ RLock(e) \/ \E s \in Subs : Notify(e, s)
    \/ \E c \in Calls : CallPlugin(c) \/ CallReturns(c)
    \/ \E s \in Subs : Subscribe(s) \/ Receive(s) \/ Send(s) \/ Unsubscribe(s)

Spec == Init /\ [][Next]_vars

-------------------------------------------------------------------------------
(* Queries.                                                                *)

\* filterSnapshot for each window: active resources alone, those and the ones
\* that finished recently, or all.  A resource that is pending has no end, and
\* passes every window but the first.
Windows == {{r \in Resources : state[r].status = "active"}}
               \cup {{r \in Resources : Exists(r)} \ old :
                        old \in SUBSET {r \in Resources : state[r].fin # None
                                                          /\ state[r].status # "active"}}

\* Mutant of Roots: a resource whose parent is filtered out is left out too.
OnlyRoots(keep) == {r \in keep : state[r].parent = Root}

\* Orphans are promoted to roots.
Roots(keep) == {r \in keep : state[r].parent \notin keep}

\* buildNode from every root: the nodes of the tree, level by level.
Tree(keep) ==
    LET upTo[n \in 0 .. Cardinality(keep)] ==
            IF n = 0 THEN Roots(keep)
            ELSE upTo[n - 1] \cup {r \in keep : state[r].parent \in upTo[n - 1]}
    IN  upTo[Cardinality(keep)]

-------------------------------------------------------------------------------
(* Properties.                                                             *)

\* Every variable has its type; the rings and the channels keep their bounds.
TypeOK ==
    /\ at \in [Events -> {"idle", "created", "applied", "notify", "done"}]
    /\ todo \in [Events -> SUBSET Subs]
    /\ state \in [Resources -> [status : {None, "pending", "active", "finished"},
                                parent : Resources \cup {Root}, started : BOOLEAN,
                                fin : Ends \cup {None}]]
    /\ \A t \in DOMAIN history : history[t] \in Seq(Events) /\ Len(history[t]) <= MaxCount
    /\ call \in [Calls -> {"idle", "running", "returned"}]
    /\ sub \in [Subs -> {"off", "on"}]
    /\ \A s \in Subs : chan[s] \in Seq(Events) /\ Len(chan[s]) <= ChanSize
    /\ hold \in [Subs -> Events \cup {NoEvent}]
    /\ past \in [Subs -> SUBSET Events]

\* Whatever the time window, every resource that passes the filter is in the
\* tree: a child of a resource that is filtered out, or that has not started
\* yet, is not lost with it (tree.go:52 "Orphan -- promote to root").
TreeIsComplete == \A keep \in Windows : Tree(keep) = keep

\* Calls of a plugin that overlap move its session about, but when the last of
\* them has returned the session is below its plugin again, so that "background
\* exec calls appear under the plugin node" (executor_svc.go:260).
PlaceIsRestored ==
    (\A c \in Calls : call[c] # "running") /\ Exists(PluginSession)
        => state[PluginSession].parent = EventParent[PluginSession]

\* What has ended is not shown as active, in whatever order the events of
\* different goroutines come.  Sessions that Create makes are excepted: their
\* end may be pushed before their start.
EndedIsNotActive ==
    /\ TypeOK
    /\ \A e \in Events :
           e.kind \in Ends /\ e.res \notin Created /\ at[e] \in {"applied", "notify", "done"}
               => state[e.res].status # "active"

\* A subscriber gets every event that is pushed while it is subscribed, or its
\* channel was full: another that does not read its own never costs it one.
StreamIsComplete ==
    \A s \in Subscribers, e \in Events :
        at[e] = "done" =>
            \/ e \in past[s] \cup {hold[s]}
            \/ \E i \in DOMAIN chan[s] : chan[s][i] = e

\* No client sees a resource end before it starts, although events are sent
\* outside the engine's lock.
StreamIsInOrder ==
    \A s \in Subs, e \in Events :
        e.kind \in Ends /\ e.res \notin Created =>
            \A i \in DOMAIN chan[s] :
                chan[s][i] = Event(e.res, "start") =>
                    hold[s] # e /\ \A j \in 1 .. i : chan[s][j] # e

\* What a subscriber sees is complete, but for a full channel, and in order.
StreamsAreFaithful == StreamIsComplete /\ StreamIsInOrder

\* "All public methods are goroutine-safe" (engine.go:78): of the handlers that
\* were given one event, at most one at a time writes to its labels.
LabelsHaveOneWriter ==
    \A s, u \in Subs :
        s # u /\ hold[s] # NoEvent /\ hold[s].res \in Labelled => hold[u] # hold[s]

===============================================================================
