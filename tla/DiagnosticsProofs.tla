-------------------------- MODULE DiagnosticsProofs --------------------------
(***************************************************************************)
(* Theorems about the diagnostics engine: a plugin's place in the tree,    *)
(* the state of what has ended, and what the subscribers see.              *)
(***************************************************************************)
EXTENDS Diagnostics, Induction

Resource == [status : {None, "pending", "active", "finished"}, parent : Resources \cup {Root},
             started : BOOLEAN, fin : Ends \cup {None}]
Types ==
    /\ TypeOK
    /\ history \in [Starts \cup {"stop"} -> Seq(Events)]
    /\ chan \in [Subs -> Seq(Events)]

\* EndedIsNotActive, and what makes it last: a resource that has an end is not active, and
\* its only start was pushed, and seen, before.
EndInv ==
    /\ \A e \in Events : e.kind \in Ends /\ e.res \notin Created /\ at[e] # "idle" =>
          at[Event(e.res, "start")] = "done" /\ state[e.res].fin # None
    /\ \A r \in Resources \ Created : state[r].fin # None =>
          /\ state[r].status # "active"
          /\ Event(r, "start") \in Events /\ at[Event(r, "start")] = "done"

\* Event e was sent to s, dropped or pushed before s came, or is on its way to it.
Met(s, e) == e \in past[s] \cup {hold[s]} \/ \E i \in 1 .. Len(chan[s]) : chan[s][i] = e
\* While an event is offered, subscribers neither come nor go; all that it is no longer to
\* be offered to have met it, and only events that were offered are on their way.
MetInv ==
    /\ \A e \in Events : at[e] = "notify" => todo[e] \subseteq Subscribers
    /\ \A s \in Subscribers, e \in Events :
          at[e] = "done" \/ (at[e] = "notify" /\ s \notin todo[e]) => Met(s, e)
OfferedInv ==
    \A s \in Subs : /\ \A i \in 1 .. Len(chan[s]) : at[chan[s][i]] \in {"notify", "done"}
                    /\ hold[s] # NoEvent => at[hold[s]] \in {"notify", "done"}
Inv == Types /\ PlaceIsRestored /\ EndInv /\ MetInv /\ OfferedInv /\ StreamIsInOrder

USE DiagnosticsAssumption

LEMMA EventTypes ==
    /\ \A e \in Events : /\ e.res \in Resources /\ e.kind \in Starts \cup Ends
                         /\ e = Event(e.res, e.kind) /\ e # NoEvent
                         /\ Event(e.res, "start") \in Events /\ Event(e.res, "start").kind = "start"
                         /\ Event(e.res, "start").res = e.res
    /\ \A e \in Events : e.kind \in Starts => e = Event(e.res, "start")
    /\ EventParent[PluginSession] \in Resources \cup {Root} /\ \A c \in Calls : Caller[c] \in Resources
    /\ Starts \cap Ends = {} /\ None \notin Ends /\ None # "active"
  <1>1. ASSUME NEW e \in Events
        PROVE  /\ e.res \in Resources /\ e.kind \in Starts \cup Ends /\ e = Event(e.res, e.kind)
               /\ e.kind \in Starts => e = Event(e.res, "start")
    BY DEF DiagnosticsAssumption, Event, Starts
  <1>2. ASSUME NEW e \in Events PROVE e # NoEvent
    BY <1>1 DEF NoEvent, Event, DiagnosticsAssumption
  <1> QED BY <1>1, <1>2 DEF DiagnosticsAssumption, Event, Starts, Ends, None

-------------------------------------------------------------------------------
(* What the steps do to a resource.                                        *)

\* PushEvent of an event: the resource that it is about is made if there was none, and is
\* started or ended but not both.
LEMMA Applied ==
    ASSUME TypeOK, NEW e \in Events
    PROVE  LET r == e.res
               new == applyEvent(e)[r]
           IN  /\ applyEvent(e) \in [Resources -> Resource]
               /\ \A q \in Resources \ {r} : applyEvent(e)[q] = state[q]
               /\ new.parent = IF Exists(r) THEN state[r].parent ELSE EventParent[r]
               /\ e.kind \in Starts => new.fin \in {state[r].fin, None}
               /\ e.kind \in Ends => /\ new.fin # None
                                     /\ new.status \in {state[r].status, "finished"}
                                     /\ new.status # "finished" => state[r].fin # None
  <1> DEFINE r == e.res
             rs == IF Exists(r) THEN state[r]
                   ELSE [NoResource EXCEPT !.status = "pending", !.parent = EventParent[r]]
  <1>0. r \in Resources /\ e.kind \in Starts \cup Ends /\ state[r] \in Resource
        /\ EventParent[r] \in Resources \cup {Root}
    BY EventTypes DEF TypeOK, Resource, DiagnosticsAssumption
  <1>1. /\ rs \in Resource /\ rs.fin \in {state[r].fin, None}
        /\ rs.parent = IF Exists(r) THEN state[r].parent ELSE EventParent[r]
        /\ rs.fin # None => rs = state[r]
    BY <1>0 DEF NoResource, Resource
  <1>2. applyEvent(e) = [state EXCEPT ![r] = IF e.kind \in Starts THEN Started(rs) ELSE Ended(rs, e)]
    BY DEF applyEvent
  <1> HIDE DEF r, rs
  <1>3. /\ Started(rs) \in Resource /\ Started(rs).parent = rs.parent /\ Started(rs).fin = rs.fin
    BY <1>1 DEF Started, Resource
  <1>4. ASSUME e.kind \in Ends
        PROVE  /\ Ended(rs, e) \in Resource /\ Ended(rs, e).parent = rs.parent /\ Ended(rs, e).fin # None
               /\ Ended(rs, e).status \in {state[r].status, "finished"}
               /\ Ended(rs, e).status # "finished" => state[r].fin # None
    <2>1. CASE rs.fin # None BY <1>1, <2>1 DEF Ended
    <2>2. CASE rs.fin = None
      <3>1. Ended(rs, e) = [rs EXCEPT !.status = "finished", !.fin = e.kind] BY <2>2 DEF Ended
      <3> QED BY ZenonT(60), <1>1, <1>4, <3>1, EventTypes DEF Resource
    <2> QED BY <2>1, <2>2
  <1>5. state \in [Resources -> Resource] BY DEF TypeOK, Resource
  <1>6. applyEvent(e)[r] = IF e.kind \in Starts THEN Started(rs) ELSE Ended(rs, e)
    BY <1>0, <1>2, <1>5
  <1>7. /\ applyEvent(e) \in [Resources -> Resource]
        /\ \A q \in Resources \ {r} : applyEvent(e)[q] = state[q]
    BY <1>0, <1>2, <1>3, <1>4, <1>5
  <1>8. e.kind \in Starts => e.kind \notin Ends BY EventTypes
  <1> QED BY <1>0, <1>1, <1>3, <1>4, <1>6, <1>7, <1>8 DEF r

\* UpdateParent changes no more than the place of one resource.
LEMMA Moved ==
    ASSUME TypeOK, NEW r \in Resources, NEW p \in Resources \cup {Root}, UpdateParent(r, p)
    PROVE  /\ state' \in [Resources -> Resource]
           /\ \A q \in Resources : /\ state'[q].status = state[q].status /\ state'[q].fin = state[q].fin
           /\ Exists(r) => state'[r].parent = p
  <1>1. state \in [Resources -> Resource] BY DEF TypeOK, Resource
  <1>2. CASE Exists(r)
    <2>1. state' = [state EXCEPT ![r].parent = p] BY <1>2 DEF UpdateParent
    <2> QED BY <1>1, <2>1 DEF Resource
  <1>3. CASE ~Exists(r) BY <1>1, <1>3 DEF UpdateParent
  <1> QED BY <1>2, <1>3

\* PushEvent's record of an event: the ring keeps its bound.
LEMMA RecordedType ==
    ASSUME NEW h \in Seq(Events), Len(h) <= MaxCount, NEW e \in Events
    PROVE  Recorded(h, e) \in Seq(Events) /\ Len(Recorded(h, e)) <= MaxCount
  <1>1. CASE Len(h) = MaxCount
    <2>1. h # <<>> BY <1>1 DEF DiagnosticsAssumption
    <2>2. Tail(h) \in Seq(Events) /\ Len(Tail(h)) = Len(h) - 1 BY <2>1
    <2> QED BY <1>1, <2>2 DEF Recorded
  <1>2. CASE Len(h) # MaxCount BY <1>2 DEF Recorded, DiagnosticsAssumption
  <1> QED BY <1>1, <1>2

-------------------------------------------------------------------------------
(* Every step keeps the types.                                             *)

LEMMA InitInv == Init => Inv
  <1> SUFFICES ASSUME Init PROVE Inv
    OBVIOUS
  <1>1. NoResource \in Resource BY DEF NoResource, Resource
  <1>2. <<>> \in Seq(Events) /\ Len(<<>>) = 0 /\ 0 <= MaxCount /\ 0 <= ChanSize
    BY DEF DiagnosticsAssumption
  <1>3. TypeOK
    <2>1. state \in [Resources -> Resource] BY <1>1 DEF Init
    <2> QED BY <1>2, <2>1 DEF Init, TypeOK, Resource, Starts
  <1>4. Types BY <1>2, <1>3 DEF Init, Types
  <1>5. PlaceIsRestored BY <1>1 DEF Init, PlaceIsRestored, Exists, NoResource, DiagnosticsAssumption
  <1>6. EndInv BY DEF Init, EndInv, NoResource
  <1>7. MetInv /\ OfferedInv /\ StreamIsInOrder
    BY DEF Init, MetInv, OfferedInv, StreamIsInOrder, Subscribers
  <1> QED BY <1>4, <1>5, <1>6, <1>7 DEF Inv

LEMMA TypesStep == Types /\ [Next]_vars => Types'
  <1> SUFFICES ASSUME Types, [Next]_vars PROVE Types'
    OBVIOUS
  <1> TypeOK /\ chan \in [Subs -> Seq(Events)] /\ history \in [Starts \cup {"stop"} -> Seq(Events)]
    BY DEF Types
  <1>1. ASSUME NEW e \in Events, Create(e) PROVE Types'
    BY <1>1 DEF Create, Types, TypeOK, cache, streams
  <1>2. ASSUME NEW e \in Events, PushEvent(e) PROVE Types'
    <2>1. /\ at' = [at EXCEPT ![e] = "applied"] /\ state' = applyEvent(e)
          /\ history' = [history EXCEPT ![Type(e)] = Recorded(@, e)]
          /\ UNCHANGED <<todo, call, streams>>
      BY <1>2 DEF PushEvent
    <2>2. Type(e) \in Starts \cup {"stop"} BY DEF Type
    <2>3. history[Type(e)] \in Seq(Events) /\ Len(history[Type(e)]) <= MaxCount
      BY <2>2 DEF TypeOK
    <2>4. Recorded(history[Type(e)], e) \in Seq(Events) /\ Len(Recorded(history[Type(e)], e)) <= MaxCount
      BY <2>3, RecordedType
    <2>5. /\ history' \in [Starts \cup {"stop"} -> Seq(Events)]
          /\ \A t \in DOMAIN history' : history'[t] \in Seq(Events) /\ Len(history'[t]) <= MaxCount
      BY <2>1, <2>2, <2>4 DEF TypeOK
    <2>6. state' \in [Resources -> Resource] BY <2>1, Applied
    <2> QED BY <2>1, <2>5, <2>6 DEF Types, TypeOK, Resource, streams
  <1>3. ASSUME NEW e \in Events, RLock(e) PROVE Types'
    BY <1>3 DEF RLock, Subscribers, Types, TypeOK, cache, streams
  <1>4. ASSUME NEW e \in Events, NEW s \in Subs, Notify(e, s) PROVE Types'
    <2>1. chan' \in [Subs -> Seq(Events)] /\ \A u \in Subs : Len(chan'[u]) <= ChanSize
      <3>1. Append(chan[s], e) \in Seq(Events) /\ Len(Append(chan[s], e)) = Len(chan[s]) + 1
            /\ Len(chan[s]) \in Nat
        OBVIOUS
      <3>2. Len(chan[s]) < ChanSize => Len(chan[s]) + 1 <= ChanSize
        BY <3>1 DEF DiagnosticsAssumption
      <3>3. CASE chan' = [chan EXCEPT ![s] = Append(@, e)] /\ Len(chan[s]) < ChanSize
        BY <3>1, <3>2, <3>3 DEF TypeOK
      <3>4. CASE chan' = chan BY <3>4 DEF TypeOK
      <3> QED BY <1>4, <3>3, <3>4 DEF Notify
    <2>2. past' \in [Subs -> SUBSET Events] BY <1>4 DEF Notify, TypeOK
    <2>3. /\ at' \in [Events -> {"idle", "created", "applied", "notify", "done"}]
          /\ todo' \in [Events -> SUBSET Subs]
      BY <1>4 DEF Notify, Offered, TypeOK
    <2> QED BY <1>4, <2>1, <2>2, <2>3 DEF Notify, Types, TypeOK, cache
  <1>5. ASSUME NEW c \in Calls, CallPlugin(c) \/ CallReturns(c) PROVE Types'
    <2>1. \E p \in Resources \cup {Root} : UpdateParent(PluginSession, p)
      BY <1>5, EventTypes DEF CallPlugin, CallReturns
    <2>2. state' \in [Resources -> Resource] BY <2>1, Moved DEF DiagnosticsAssumption
    <2> QED BY ZenonT(60), <1>5, <2>2 DEF CallPlugin, CallReturns, Types, TypeOK, Resource, pushing, streams
  <1>6. ASSUME NEW s \in Subs, Subscribe(s) \/ Send(s) \/ Unsubscribe(s) PROVE Types'
    <2>1. /\ sub' \in [Subs -> {"off", "on"}] /\ hold' \in [Subs -> Events \cup {NoEvent}]
          /\ past' \in [Subs -> SUBSET Events]
      <3>1. CASE Subscribe(s) BY <3>1 DEF Subscribe, TypeOK
      <3>2. CASE Send(s)
        <4>1. hold[s] \in Events BY <3>2 DEF Send, TypeOK
        <4> QED BY <3>2, <4>1 DEF Send, TypeOK
      <3>3. CASE Unsubscribe(s) BY <3>3 DEF Unsubscribe, TypeOK
      <3> QED BY <1>6, <3>1, <3>2, <3>3
    <2>2. chan' \in [Subs -> Seq(Events)] /\ \A u \in Subs : Len(chan'[u]) <= ChanSize
      <3>1. CASE chan' = chan BY <3>1 DEF TypeOK
      <3>2. CASE chan' = [chan EXCEPT ![s] = <<>>]
        <4>1. <<>> \in Seq(Events) /\ Len(<<>>) = 0 /\ 0 <= ChanSize BY DEF DiagnosticsAssumption
        <4> QED BY <3>2, <4>1 DEF TypeOK
      <3> QED BY <1>6, <3>1, <3>2 DEF Subscribe, Send, Unsubscribe
    <2> QED BY <1>6, <2>1, <2>2 DEF Subscribe, Send, Unsubscribe, Types, TypeOK, pushing, cache
  <1>7. ASSUME NEW s \in Subs, Receive(s) PROVE Types'
    <2>1. chan[s] # <<>> /\ chan' = [chan EXCEPT ![s] = Tail(@)] /\ hold' = [hold EXCEPT ![s] = Head(chan[s])]
          /\ UNCHANGED <<pushing, cache, call, sub, past>>
      BY <1>7 DEF Receive
    <2>2. /\ Head(chan[s]) \in Events /\ Tail(chan[s]) \in Seq(Events)
          /\ Len(Tail(chan[s])) = Len(chan[s]) - 1 /\ Len(chan[s]) \in Nat
      BY <2>1
    <2>3. chan' \in [Subs -> Seq(Events)] /\ \A u \in Subs : Len(chan'[u]) <= ChanSize
      BY <2>1, <2>2 DEF TypeOK, DiagnosticsAssumption
    <2> QED BY <2>1, <2>2, <2>3 DEF Types, TypeOK, pushing, cache
  <1>8. CASE UNCHANGED vars
    BY <1>8 DEF vars, Types, TypeOK, pushing, cache, streams
  <1> QED BY <1>1, <1>2, <1>3, <1>4, <1>5, <1>6, <1>7, <1>8 DEF Next

-------------------------------------------------------------------------------
(* The resources.                                                          *)

LEMMA PlaceStep == Types /\ PlaceIsRestored /\ [Next]_vars => PlaceIsRestored'
  <1> SUFFICES ASSUME Types, PlaceIsRestored, [Next]_vars PROVE PlaceIsRestored'
    OBVIOUS
  <1> TypeOK BY DEF Types
  <1>0. PluginSession \in Resources BY DEF DiagnosticsAssumption
  <1>1. ASSUME NEW e \in Events, PushEvent(e) PROVE PlaceIsRestored'
    <2>1. state' = applyEvent(e) /\ call' = call BY <1>1 DEF PushEvent
    <2>2. CASE e.res = PluginSession
      <3>1. state'[PluginSession].parent = IF Exists(PluginSession) THEN state[PluginSession].parent
                                           ELSE EventParent[PluginSession]
        BY <2>1, <2>2, Applied
      <3> QED BY <2>1, <3>1 DEF PlaceIsRestored
    <2>3. CASE e.res # PluginSession
      <3>1. state'[PluginSession] = state[PluginSession] BY <1>0, <2>1, <2>3, Applied
      <3> QED BY <2>1, <3>1 DEF PlaceIsRestored, Exists
    <2> QED BY <2>2, <2>3
  <1>2. ASSUME NEW c \in Calls, CallPlugin(c) PROVE PlaceIsRestored'
    <2>1. call'[c] = "running" BY <1>2 DEF CallPlugin, TypeOK
    <2> QED BY <2>1 DEF PlaceIsRestored
  <1>3. ASSUME NEW c \in Calls, CallReturns(c) PROVE PlaceIsRestored'
    <2>1. UpdateParent(PluginSession, EventParent[PluginSession]) BY <1>3 DEF CallReturns
    <2>2. /\ state'[PluginSession].status = state[PluginSession].status
          /\ Exists(PluginSession) => state'[PluginSession].parent = EventParent[PluginSession]
      BY <1>0, <2>1, Moved, EventTypes
    <2> QED BY <2>2 DEF PlaceIsRestored, Exists
  <1>4. ASSUME UNCHANGED <<state, call>> PROVE PlaceIsRestored'
    BY <1>4 DEF PlaceIsRestored, Exists
  <1>5. \/ \E e \in Events : PushEvent(e)
        \/ \E c \in Calls : CallPlugin(c) \/ CallReturns(c)
        \/ UNCHANGED <<state, call>>
    BY DEF Next, vars, cache, Create, RLock, Notify, Subscribe, Receive, Send, Unsubscribe
  <1> QED BY <1>1, <1>2, <1>3, <1>4, <1>5

LEMMA EndStep == Types /\ EndInv /\ [Next]_vars => EndInv'
  <1> SUFFICES ASSUME Types, EndInv, [Next]_vars PROVE EndInv'
    OBVIOUS
  <1> TypeOK BY DEF Types
  <1> DEFINE start(e) == Event(e.res, "start")
  \* An event goes on without touching a resource; what is done stays done.
  <1>1. ASSUME NEW e \in Events, NEW a, at' = [at EXCEPT ![e] = a], UNCHANGED state,
               at[e] # "done", at[e] = "idle" => e.kind \in Starts
        PROVE  EndInv'
    <2>1. \A f \in Events : at'[f] = IF f = e THEN a ELSE at[f] BY <1>1 DEF TypeOK
    <2>2. \A f \in Events : at[f] = "done" => at'[f] = "done" BY <1>1, <2>1
    <2>3. ASSUME NEW f \in Events, f.kind \in Ends, f.res \notin Created, at'[f] # "idle"
          PROVE  at'[start(f)] = "done" /\ state'[f.res].fin # None
      <3>1. at[f] # "idle" BY <1>1, <2>1, <2>3, EventTypes
      <3> QED BY <1>1, <2>2, <2>3, <3>1, EventTypes DEF EndInv
    <2> QED BY <1>1, <2>2, <2>3 DEF EndInv
  <1>2. ASSUME NEW e \in Events, PushEvent(e) PROVE EndInv'
    <2>1. at' = [at EXCEPT ![e] = "applied"] /\ state' = applyEvent(e) /\ at[e] \in {"created", "idle"}
      BY <1>2 DEF PushEvent
    <2>2. \A f \in Events : at'[f] = IF f = e THEN "applied" ELSE at[f] BY <2>1 DEF TypeOK
    <2>3. \A f \in Events : at[f] = "done" => at'[f] = "done" BY <2>1, <2>2
    <2>4. e.kind \in Ends /\ e.res \notin Created => at[start(e)] = "done"
      <3>1. at[e] = "idle" /\ e.kind \in Ends => e.res \in Created \/ Returned(start(e))
        BY <1>2, EventTypes DEF PushEvent, MayPush
      <3> QED BY <2>1, <3>1 DEF EndInv, Returned
    <2>5. e.kind \in Starts /\ e.res \notin Created => state[e.res].fin = None
      BY <2>1, EventTypes DEF EndInv
    <2>6. ASSUME NEW f \in Events, f.kind \in Ends, f.res \notin Created, at'[f] # "idle"
          PROVE  at'[start(f)] = "done" /\ state'[f.res].fin # None
      <3>1. CASE f = e BY <2>1, <2>3, <2>4, <2>6, <3>1, Applied, EventTypes
      <3>2. CASE f # e
        <4>1. at[start(f)] = "done" /\ state[f.res].fin # None /\ start(f) \in Events /\ f.res \in Resources
          BY <2>2, <2>6, <3>2, EventTypes DEF EndInv
        <4>2. CASE e.res # f.res BY <2>1, <2>3, <4>1, <4>2, Applied
        <4>3. CASE e.res = f.res
          <5>1. e.kind \in Ends BY <2>5, <2>6, <4>1, <4>3, EventTypes
          <5> QED BY <2>1, <2>3, <4>1, <4>3, <5>1, Applied
        <4> QED BY <4>2, <4>3
      <3> QED BY <3>1, <3>2
    <2>7. ASSUME NEW r \in Resources \ Created, state'[r].fin # None
          PROVE  /\ state'[r].status # "active"
                 /\ Event(r, "start") \in Events /\ at'[Event(r, "start")] = "done"
      <3>1. CASE r # e.res
        <4>1. state'[r] = state[r] BY <2>1, <3>1, Applied
        <4> QED BY <2>3, <2>7, <4>1 DEF EndInv
      <3>2. CASE r = e.res
        <4>1. e.kind \in Ends BY <2>1, <2>5, <2>7, <3>2, Applied, EventTypes
        <4>2. state'[r].status \in {state[r].status, "finished"}
              /\ (state'[r].status # "finished" => state[r].fin # None)
          BY <2>1, <3>2, <4>1, Applied
        <4>3. state'[r].status # "active" BY <2>7, <4>2 DEF EndInv
        <4> QED BY <2>3, <2>4, <2>7, <3>2, <4>1, <4>3, EventTypes
      <3> QED BY <3>1, <3>2
    <2> QED BY <2>6, <2>7 DEF EndInv
  <1>3. ASSUME NEW c \in Calls, CallPlugin(c) \/ CallReturns(c) PROVE EndInv'
    <2>1. \E p \in Resources \cup {Root} : UpdateParent(PluginSession, p)
      BY <1>3, EventTypes DEF CallPlugin, CallReturns
    <2>2. \A q \in Resources : state'[q].status = state[q].status /\ state'[q].fin = state[q].fin
      BY <2>1, Moved DEF DiagnosticsAssumption
    <2>3. at' = at BY <1>3 DEF CallPlugin, CallReturns, pushing
    <2> QED BY <2>2, <2>3, EventTypes DEF EndInv
  <1>4. CASE UNCHANGED <<at, state>> BY <1>4 DEF EndInv
  <1>5. \/ \E e \in Events : PushEvent(e)
        \/ \E e \in Events, a \in {"created", "notify", "done"} :
              /\ at' = [at EXCEPT ![e] = a] /\ at[e] # "done" /\ (at[e] = "idle" => e.kind \in Starts)
              /\ UNCHANGED state
        \/ \E c \in Calls : CallPlugin(c) \/ CallReturns(c)
        \/ UNCHANGED <<at, state>>
    BY DEF Next, vars, pushing, cache, Create, RLock, Notify, Offered, Subscribe, Receive, Send, Unsubscribe
  <1> QED BY <1>1, <1>2, <1>3, <1>4, <1>5

-------------------------------------------------------------------------------
(* The subscribers.                                                        *)

\* Every step of an event forwards: what is offered, or was, has started its way.
LEMMA StreamStep ==
    Types /\ EndInv /\ MetInv /\ OfferedInv /\ StreamIsInOrder /\ [Next]_vars
        => MetInv' /\ OfferedInv' /\ StreamIsInOrder'
  <1> SUFFICES ASSUME Types, EndInv, MetInv, OfferedInv, StreamIsInOrder, [Next]_vars
               PROVE  MetInv' /\ OfferedInv' /\ StreamIsInOrder'
    OBVIOUS
  <1> TypeOK BY DEF Types
  <1>seq. \A s \in Subs : chan[s] \in Seq(Events) BY DEF Types
  <1>len. \A s \in Subs : Len(chan[s]) \in Nat BY <1>seq
  <1>types. \A s \in Subs : /\ \A i \in 1 .. Len(chan[s]) : chan[s][i] \in Events
                            /\ hold[s] \in Events \cup {NoEvent}
    BY <1>seq DEF TypeOK
  <1>inSeq. \A s \in Subs : DOMAIN chan'[s] = 1 .. Len(chan'[s])
    <2>1. Types' BY TypesStep
    <2> QED BY <2>1 DEF Types
  \* The steps that take no event to a subscriber.
  <1>1. ASSUME NEW e \in Events, NEW a \in {"created", "applied"}, at' = [at EXCEPT ![e] = a],
               at[e] \in {"idle", "created"}, UNCHANGED <<todo, streams>>
        PROVE  MetInv' /\ OfferedInv' /\ StreamIsInOrder'
    <2>1. \A f \in Events : at'[f] = IF f = e THEN a ELSE at[f] BY <1>1 DEF TypeOK
    <2>2. MetInv' BY <1>1, <2>1 DEF MetInv, Met, Subscribers, streams
    <2>3. OfferedInv' BY <1>1, <2>1, <1>types, EventTypes DEF OfferedInv, streams
    <2> QED BY <1>1, <2>2, <2>3 DEF StreamIsInOrder, streams
  <1>2. ASSUME NEW e \in Events, RLock(e) PROVE MetInv' /\ OfferedInv' /\ StreamIsInOrder'
    <2>1. /\ at[e] = "applied" /\ todo' = [todo EXCEPT ![e] = Subscribers]
          /\ at' = [at EXCEPT ![e] = IF Subscribers = {} THEN "done" ELSE "notify"]
          /\ UNCHANGED streams
      BY <1>2 DEF RLock
    <2>2. \A f \in Events : /\ at'[f] = IF f # e THEN at[f] ELSE IF Subscribers = {} THEN "done" ELSE "notify"
                            /\ todo'[f] = IF f = e THEN Subscribers ELSE todo[f]
      BY <2>1 DEF TypeOK
    <2>3. Subscribers' = Subscribers BY <2>1 DEF Subscribers, streams
    <2>4. \A s, f : Met(s, f)' = Met(s, f) BY <2>1 DEF Met, streams
    <2>5. MetInv' BY <2>2, <2>3, <2>4 DEF MetInv
    <2>6. OfferedInv' BY <2>1, <2>2, <1>types, EventTypes DEF OfferedInv, streams
    <2> QED BY <2>1, <2>5, <2>6 DEF StreamIsInOrder, streams
  <1>3. ASSUME NEW e \in Events, NEW s \in Subs, Notify(e, s)
        PROVE  MetInv' /\ OfferedInv' /\ StreamIsInOrder'
    <2>0. /\ at[e] = "notify" /\ s \in todo[e] /\ UNCHANGED <<cache, call, sub, hold>>
          /\ todo' = [todo EXCEPT ![e] = @ \ {s}]
          /\ at' = [at EXCEPT ![e] = IF todo[e] = {s} THEN "done" ELSE "notify"]
      BY <1>3 DEF Notify, Offered
    <2>1. \A f \in Events : /\ at'[f] = IF f # e THEN at[f] ELSE IF todo[e] = {s} THEN "done" ELSE "notify"
                            /\ todo'[f] = IF f = e THEN todo[e] \ {s} ELSE todo[f]
      BY <2>0 DEF TypeOK
    \* What s has in its channel, and what it has met.
    <2>n. PICK n \in Nat : n = Len(chan[s]) BY <1>len
    <2>2. /\ \A u \in Subs \ {s} : chan'[u] = chan[u] /\ past'[u] = past[u]
          /\ \/ chan'[s] = chan[s] /\ past'[s] = past[s] \cup {e}
             \/ /\ Len(chan'[s]) = n + 1 /\ chan'[s][n + 1] = e
                /\ \A i \in 1 .. n : chan'[s][i] = chan[s][i]
                /\ past'[s] = past[s]
      <3>1. CASE past' = [past EXCEPT ![s] = @ \cup {e}] /\ UNCHANGED chan BY <3>1 DEF TypeOK
      <3>2. CASE chan' = [chan EXCEPT ![s] = Append(@, e)] /\ UNCHANGED past
        <4>1. chan'[s] = Append(chan[s], e) /\ \A u \in Subs \ {s} : chan'[u] = chan[u]
          BY <3>2 DEF Types
        <4>2. /\ Len(Append(chan[s], e)) = n + 1 /\ Append(chan[s], e)[n + 1] = e
              /\ \A i \in 1 .. n : Append(chan[s], e)[i] = chan[s][i]
          BY <2>n, <1>seq
        <4> QED BY <3>2, <4>1, <4>2
      <3> QED BY <1>3, <3>1, <3>2 DEF Notify
    <2>3. ASSUME NEW u \in Subs, NEW f \in Events, Met(u, f) PROVE Met(u, f)'
      <3>1. hold'[u] = hold[u] /\ past[u] \subseteq past'[u] BY <2>0, <2>2
      <3>2. ASSUME NEW i \in 1 .. Len(chan[u]) PROVE i \in 1 .. Len(chan'[u]) /\ chan'[u][i] = chan[u][i]
        BY SMTT(30), <2>n, <2>2
      <3> QED BY <2>3, <3>1, <3>2 DEF Met
    <2>4. Met(s, e)'
      <3>1. n + 1 \in 1 .. n + 1 OBVIOUS
      <3> QED BY <2>2, <3>1 DEF Met
    <2>5. MetInv'
      <3>1. Subscribers' = Subscribers /\ Subscribers \subseteq Subs BY <2>0 DEF Subscribers
      <3>2. \A f \in Events : at'[f] = "notify" => todo'[f] \subseteq Subscribers
        BY <2>0, <2>1 DEF MetInv
      <3>3. ASSUME NEW u \in Subscribers, NEW f \in Events,
                   at'[f] = "done" \/ (at'[f] = "notify" /\ u \notin todo'[f])
            PROVE  Met(u, f)'
        <4>1. CASE f = e /\ u = s BY <2>4, <4>1
        <4>2. CASE f = e /\ u # s
          <5>1. at[f] = "notify" /\ u \notin todo[f] BY <2>0, <2>1, <3>3, <4>2
          <5> QED BY <2>3, <3>1, <5>1 DEF MetInv
        <4>3. CASE f # e BY <2>1, <2>3, <3>1, <3>3, <4>3 DEF MetInv
        <4> QED BY <4>1, <4>2, <4>3
      <3> QED BY <3>1, <3>2, <3>3 DEF MetInv
    <2>6. OfferedInv'
      <3>1. \A f \in Events : at[f] \in {"notify", "done"} => at'[f] \in {"notify", "done"}
        BY <2>1
      <3>2. \A u \in Subs : \A i \in 1 .. Len(chan'[u]) :
               chan'[u][i] = e \/ (i \in 1 .. Len(chan[u]) /\ chan'[u][i] = chan[u][i])
        <4>1. ASSUME NEW i \in 1 .. n + 1 PROVE i = n + 1 \/ i \in 1 .. n OBVIOUS
        <4> QED BY <2>n, <2>2, <4>1
      <3>3. at'[e] \in {"notify", "done"} BY <2>0, <2>1
      <3>4. \A u \in Subs : \A i \in 1 .. Len(chan'[u]) : at'[chan'[u][i]] \in {"notify", "done"}
        BY SMTT(30), <3>1, <3>2, <3>3, <1>types DEF OfferedInv
      <3>5. \A u \in Subs : hold'[u] # NoEvent => at'[hold'[u]] \in {"notify", "done"}
        BY <2>0, <3>1, <1>types DEF OfferedInv
      <3> QED BY <3>4, <3>5 DEF OfferedInv
    <2>7. StreamIsInOrder'
      <3> SUFFICES ASSUME NEW u \in Subs, NEW f \in Events, f.kind \in Ends, f.res \notin Created,
                          NEW i \in 1 .. Len(chan'[u]), chan'[u][i] = Event(f.res, "start")
                   PROVE  hold'[u] # f /\ \A j \in 1 .. i : chan'[u][j] # f
        BY ZenonT(60), <1>inSeq DEF StreamIsInOrder
      <3>1. CASE i \in 1 .. Len(chan[u]) /\ chan'[u][i] = chan[u][i]
        <4>0. i \in 1 .. Len(chan[u]) /\ chan[u][i] = Event(f.res, "start") BY <3>1
        <4>1. hold[u] # f /\ \A j \in 1 .. i : chan[u][j] # f
          BY SMTT(30), <4>0, <1>seq DEF StreamIsInOrder
        <4>2. \A j \in 1 .. i : chan'[u][j] = chan[u][j]
          <5>1. \A j \in 1 .. i : j \in 1 .. Len(chan[u]) BY <3>1, <1>len
          <5> QED BY <2>n, <2>2, <5>1
        <4> QED BY <2>0, <4>1, <4>2
      <3>2. CASE u = s /\ i = n + 1 /\ chan'[s][i] = e /\ \A j \in 1 .. n : chan'[s][j] = chan[s][j]
        <4>1. e = Event(f.res, "start") /\ e # f
          <5>1. e = Event(f.res, "start") BY <3>2
          <5>2. e.kind = "start" /\ f.kind # "start" BY <5>1, EventTypes DEF Starts
          <5> QED BY <5>1, <5>2
        <4>2. at[f] = "idle" BY <2>0, <4>1 DEF EndInv
        <4>3. hold[s] # f BY <4>2, EventTypes DEF OfferedInv
        <4>4. \A j \in 1 .. n : chan[s][j] # f BY <2>n, <4>2 DEF OfferedInv
        <4>5. \A j \in 1 .. i : j \in 1 .. n \/ j = i BY <3>2
        <4> QED BY <2>0, <3>2, <4>1, <4>3, <4>4, <4>5
      <3>3. ASSUME NEW j \in 1 .. n + 1 PROVE j = n + 1 \/ j \in 1 .. n OBVIOUS
      <3> QED BY <2>n, <2>2, <3>1, <3>2, <3>3
    <2> QED BY <2>5, <2>6, <2>7
  \* The steps of the subscribers.
  <1>4. ASSUME NEW s \in Subs, Subscribe(s) PROVE MetInv' /\ OfferedInv' /\ StreamIsInOrder'
    <2>0. /\ NobodyNotifies /\ sub' = [sub EXCEPT ![s] = "on"]
          /\ past' = [past EXCEPT ![s] = {e \in Events : at[e] = "done"}]
          /\ UNCHANGED <<at, todo, chan, hold>>
      BY <1>4 DEF Subscribe, pushing
    <2>1. \A u \in Subs : /\ past'[u] = IF u = s THEN {e \in Events : at[e] = "done"} ELSE past[u]
                          /\ sub'[u] = IF u = s THEN "on" ELSE sub[u]
      BY <2>0 DEF TypeOK
    <2>2. \A e \in Events : at'[e] # "notify" BY <2>0 DEF NobodyNotifies
    <2>3. ASSUME NEW u \in Subs, sub'[u] = "on", NEW e \in Events, at'[e] = "done" PROVE Met(u, e)'
      <3>1. CASE u = s
        <4>1. at[e] = "done" BY <2>0, <2>3
        <4>2. e \in past'[u] BY <2>1, <3>1, <4>1
        <4> QED BY <4>2 DEF Met
      <3>2. CASE u # s
        <4>1. Met(u, e) BY <2>0, <2>1, <2>3, <3>2 DEF MetInv, Subscribers
        <4> QED BY <2>0, <2>1, <3>2, <4>1 DEF Met
      <3> QED BY <3>1, <3>2
    <2>4. MetInv' BY <2>2, <2>3 DEF MetInv, Subscribers
    <2> QED BY <2>0, <2>4 DEF OfferedInv, StreamIsInOrder
  <1>5. ASSUME NEW s \in Subs, Receive(s) PROVE MetInv' /\ OfferedInv' /\ StreamIsInOrder'
    <2>0. /\ hold[s] = NoEvent /\ chan[s] # <<>>
          /\ hold' = [hold EXCEPT ![s] = Head(chan[s])] /\ chan' = [chan EXCEPT ![s] = Tail(@)]
          /\ UNCHANGED <<at, todo, sub, past>>
      BY <1>5 DEF Receive, pushing
    <2>n. PICK n \in Nat : n = Len(Tail(chan[s]))
      <3>1. Tail(chan[s]) \in Seq(Events) BY <2>0, <1>seq
      <3>2. Len(Tail(chan[s])) \in Nat BY <3>1
      <3> QED BY <3>2
    <2>1. /\ \A u \in Subs \ {s} : chan'[u] = chan[u] /\ hold'[u] = hold[u]
          /\ hold'[s] = chan[s][1] /\ 1 \in 1 .. Len(chan[s])
          /\ Len(chan[s]) = n + 1 /\ Len(chan'[s]) = n
          /\ \A i \in 1 .. n : i + 1 \in 1 .. n + 1 /\ chan'[s][i] = chan[s][i + 1]
      <3>1. chan'[s] = Tail(chan[s]) /\ hold'[s] = Head(chan[s]) /\ \A u \in Subs \ {s} : chan'[u] = chan[u]
        BY <2>0 DEF TypeOK, Types
      <3>2. /\ Head(chan[s]) = chan[s][1] /\ 1 \in 1 .. Len(chan[s])
            /\ Len(chan[s]) = n + 1
            /\ \A i \in 1 .. n : i + 1 \in 1 .. n + 1 /\ Tail(chan[s])[i] = chan[s][i + 1]
        BY <2>0, <2>n, <1>seq
      <3> QED BY ZenonT(60), <2>0, <2>n, <3>1, <3>2 DEF TypeOK
    <2>2. ASSUME NEW i \in 1 .. n + 1, i # 1 PROVE i - 1 \in 1 .. n /\ chan'[s][i - 1] = chan[s][i]
      <3>1. i - 1 \in 1 .. n /\ (i - 1) + 1 = i BY <2>2
      <3> QED BY <2>1, <3>1
    <2>3. ASSUME NEW u \in Subs, NEW e \in Events, Met(u, e) PROVE Met(u, e)'
      <3>1. CASE u # s BY <2>0, <2>1, <2>3, <3>1 DEF Met
      <3>2. CASE u = s
        <4>1. e # NoEvent BY EventTypes
        <4>2. e \in past[s] \/ \E i \in 1 .. Len(chan[s]) : chan[s][i] = e
          BY <2>0, <2>3, <3>2, <4>1 DEF Met
        <4>3. CASE e \in past[s] BY <2>0, <3>2, <4>3 DEF Met
        <4>4. CASE \E i \in 1 .. Len(chan[s]) : chan[s][i] = e
          <5> PICK i \in 1 .. n + 1 : chan[s][i] = e BY <2>1, <4>4
          <5>1. e = hold'[s] \/ \E k \in 1 .. Len(chan'[s]) : chan'[s][k] = e
            <6>1. CASE i = 1 BY <2>1, <6>1
            <6>2. CASE i # 1
              <7>1. i - 1 \in 1 .. n /\ chan'[s][i - 1] = e BY <2>2, <6>2
              <7> QED BY <2>1, <7>1
            <6> QED BY <6>1, <6>2
          <5> QED BY <3>2, <5>1 DEF Met
        <4> QED BY <4>2, <4>3, <4>4
      <3> QED BY <3>1, <3>2
    <2>4. MetInv'
      <3>1. Subscribers' = Subscribers /\ Subscribers \subseteq Subs BY <2>0 DEF Subscribers
      <3> QED BY <2>0, <2>3, <3>1 DEF MetInv
    <2>5. OfferedInv'
      <3>1. ASSUME NEW u \in Subs
            PROVE  /\ \A i \in 1 .. Len(chan'[u]) : at[chan'[u][i]] \in {"notify", "done"}
                   /\ hold'[u] # NoEvent => at[hold'[u]] \in {"notify", "done"}
        <4>1. CASE u = s
          <5>1. \A k \in 1 .. n + 1 : at[chan[s][k]] \in {"notify", "done"} BY <2>1 DEF OfferedInv
          <5>2. 1 \in 1 .. n + 1 BY <2>1
          <5> QED BY ZenonT(60), <2>1, <4>1, <5>1, <5>2
        <4>2. CASE u # s BY <2>1, <4>2 DEF OfferedInv
        <4> QED BY <4>1, <4>2
      <3> QED BY <2>0, <3>1 DEF OfferedInv
    <2>6. StreamIsInOrder'
      <3> SUFFICES ASSUME NEW u \in Subs, NEW f \in Events, f.kind \in Ends, f.res \notin Created,
                          NEW i \in 1 .. Len(chan'[u]), chan'[u][i] = Event(f.res, "start")
                   PROVE  hold'[u] # f /\ \A j \in 1 .. i : chan'[u][j] # f
        BY ZenonT(60), <1>inSeq DEF StreamIsInOrder
      <3>1. CASE u # s 
        <4>1. i \in DOMAIN chan[u] /\ chan[u][i] = Event(f.res, "start") BY <2>1, <3>1, <1>seq
        <4> QED BY SMTT(30), <2>1, <3>1, <4>1 DEF StreamIsInOrder
      <3>2. CASE u = s
        <4>1. i + 1 \in 1 .. n + 1 /\ chan[s][i + 1] = Event(f.res, "start") BY <2>1, <3>2
        <4>2. i + 1 \in DOMAIN chan[s] BY <2>1, <4>1, <1>seq
        <4>3. \A j \in 1 .. i + 1 : chan[s][j] # f BY <4>1, <4>2 DEF StreamIsInOrder
        <4>4. i \in 1 .. n BY <2>1, <3>2
        <4>5. 1 \in 1 .. i + 1 /\ \A j \in 1 .. i : j + 1 \in 1 .. i + 1 /\ j \in 1 .. n BY <4>4
        <4>6. hold'[s] # f BY <2>1, <4>3, <4>5
        <4>7. ASSUME NEW j \in 1 .. i PROVE chan'[s][j] # f
          <5>1. j \in 1 .. n /\ j + 1 \in 1 .. i + 1 BY <4>5
          <5> QED BY ZenonT(60), <2>1, <4>3, <5>1
        <4> QED BY <3>2, <4>6, <4>7
      <3> QED BY <3>1, <3>2
    <2> QED BY <2>4, <2>5, <2>6
  <1>6. ASSUME NEW s \in Subs, Send(s) PROVE MetInv' /\ OfferedInv' /\ StreamIsInOrder'
    <2>0. /\ past' = [past EXCEPT ![s] = @ \cup {hold[s]}] /\ hold' = [hold EXCEPT ![s] = NoEvent]
          /\ UNCHANGED <<at, todo, sub, chan>>
      BY <1>6 DEF Send, pushing
    <2>1. \A u \in Subs : /\ past'[u] = IF u = s THEN past[u] \cup {hold[s]} ELSE past[u]
                          /\ hold'[u] = IF u = s THEN NoEvent ELSE hold[u]
      BY <2>0 DEF TypeOK
    <2>2. \A u \in Subs, e \in Events : Met(u, e) => Met(u, e)' BY ZenonT(60), <2>0, <2>1 DEF Met
    <2>3. MetInv'
      <3>1. Subscribers' = Subscribers /\ Subscribers \subseteq Subs BY <2>0 DEF Subscribers
      <3> QED BY <2>0, <2>2, <3>1 DEF MetInv
    <2>4. OfferedInv' BY <2>0, <2>1 DEF OfferedInv
    <2>5. StreamIsInOrder' BY <2>0, <2>1, EventTypes DEF StreamIsInOrder
    <2> QED BY <2>3, <2>4, <2>5
  <1>7. ASSUME NEW s \in Subs, Unsubscribe(s) PROVE MetInv' /\ OfferedInv' /\ StreamIsInOrder'
    <2>0. /\ NobodyNotifies /\ sub' = [sub EXCEPT ![s] = "off"] /\ chan' = [chan EXCEPT ![s] = <<>>]
          /\ hold' = [hold EXCEPT ![s] = NoEvent] /\ past' = [past EXCEPT ![s] = {}]
          /\ UNCHANGED <<at, todo>>
      BY <1>7 DEF Unsubscribe, pushing
    <2>1. /\ sub'[s] = "off" /\ chan'[s] = <<>> /\ hold'[s] = NoEvent
          /\ \A u \in Subs \ {s} : /\ sub'[u] = sub[u] /\ chan'[u] = chan[u]
                                   /\ hold'[u] = hold[u] /\ past'[u] = past[u]
      BY <2>0 DEF TypeOK, Types
    <2>2. \A e \in Events : at'[e] # "notify" BY <2>0 DEF NobodyNotifies
    <2>3. ASSUME NEW u \in Subs, sub'[u] = "on", NEW e \in Events, at'[e] = "done" PROVE Met(u, e)'
      <3>1. u # s BY <2>1, <2>3
      <3>2. Met(u, e) BY <2>0, <2>1, <2>3, <3>1 DEF MetInv, Subscribers
      <3> QED BY <2>1, <3>1, <3>2 DEF Met
    <2>4. MetInv' BY <2>2, <2>3 DEF MetInv, Subscribers
    <2>5. OfferedInv'
      <3>1. ASSUME NEW u \in Subs
            PROVE  /\ \A i \in 1 .. Len(chan'[u]) : at[chan'[u][i]] \in {"notify", "done"}
                   /\ hold'[u] # NoEvent => at[hold'[u]] \in {"notify", "done"}
        <4>1. CASE u = s BY <2>1, <4>1
        <4>2. CASE u # s BY <2>1, <4>2 DEF OfferedInv
        <4> QED BY <4>1, <4>2
      <3> QED BY <2>0, <3>1 DEF OfferedInv
    <2>6. StreamIsInOrder'
      <3>1. ASSUME NEW u \in Subs, NEW f \in Events, f.kind \in Ends, f.res \notin Created,
                   NEW i \in DOMAIN chan'[u], chan'[u][i] = Event(f.res, "start")
            PROVE  hold'[u] # f /\ \A j \in 1 .. i : chan'[u][j] # f
        <4>1. u # s BY <2>1, <3>1
        <4>2. chan'[u] = chan[u] /\ hold'[u] = hold[u] BY <2>1, <4>1
        <4> QED BY <3>1, <4>2 DEF StreamIsInOrder
      <3> QED BY <3>1 DEF StreamIsInOrder
    <2> QED BY <2>4, <2>5, <2>6
  <1>8. CASE UNCHANGED <<pushing, streams>>
    BY <1>8 DEF MetInv, OfferedInv, StreamIsInOrder, Met, Subscribers, pushing, streams
  <1>9. \/ \E e \in Events, a \in {"created", "applied"} :
              /\ at' = [at EXCEPT ![e] = a] /\ at[e] \in {"idle", "created"} /\ UNCHANGED <<todo, streams>>
        \/ \E e \in Events : RLock(e) \/ \E s \in Subs : Notify(e, s)
        \/ \E s \in Subs : Subscribe(s) \/ Receive(s) \/ Send(s) \/ Unsubscribe(s)
        \/ UNCHANGED <<pushing, streams>>
    BY DEF Next, vars, Create, PushEvent, CallPlugin, CallReturns
  <1> QED BY <1>1, <1>2, <1>3, <1>4, <1>5, <1>6, <1>7, <1>8, <1>9

LEMMA InvStep == Inv /\ [Next]_vars => Inv'
  BY TypesStep, PlaceStep, EndStep, StreamStep DEF Inv

-------------------------------------------------------------------------------
(* The theorems.                                                           *)

LEMMA InvHolds == Spec => []Inv
  BY InitInv, InvStep, PTL DEF Spec

\* However many calls of a plugin overlap, its session is below its plugin again when the
\* last of them has returned (CallPlugin's deferred UpdateParent).
THEOREM PlaceIsRestoredHolds == Spec => []PlaceIsRestored
  <1>1. Inv => PlaceIsRestored BY DEF Inv
  <1> QED BY InvHolds, <1>1, PTL

\* A resource that has ended is not shown as active, however pushers interleave (PushEvent,
\* applyEvent).
THEOREM EndedIsNotActiveHolds == Spec => []EndedIsNotActive
  <1>1. Inv => EndedIsNotActive BY EventTypes DEF Inv, Types, EndInv, EndedIsNotActive
  <1> QED BY InvHolds, <1>1, PTL

\* With any number of subscribers and pushers, and a channel of any size: a subscriber gets
\* every event that is pushed meanwhile unless its own channel was full, and a resource's
\* start before its end (notifySubscribers, StreamEvents).
THEOREM StreamsAreFaithfulHolds == Spec => []StreamsAreFaithful
  <1>1. Inv => StreamsAreFaithful
    <2> SUFFICES ASSUME Inv PROVE StreamIsComplete
      BY DEF StreamsAreFaithful, Inv
    <2>1. \A s \in Subs : DOMAIN chan[s] = 1 .. Len(chan[s]) BY DEF Inv, Types
    <2> QED BY <2>1 DEF Inv, MetInv, Met, StreamIsComplete, Subscribers
  <1> QED BY InvHolds, <1>1, PTL

HIDE DiagnosticsAssumption

-------------------------------------------------------------------------------
(* The tree.                                                               *)

\* Nobody whose session is below that of a plugin calls the plugin: resources have ranks,
\* each above the parent that its events name, and a plugin's session above its callers.
NoCycles ==
    \E rank \in [Resources -> Nat] :
        /\ \A r \in Resources : EventParent[r] # Root => rank[EventParent[r]] < rank[r]
        /\ \A c \in Calls : rank[Caller[c]] < rank[PluginSession]
\* Parents are those that events name, or callers.
ParentInv ==
    \A r \in Resources :
        \/ state[r].parent \in {Root, EventParent[r]}
        \/ r = PluginSession /\ \E c \in Calls : state[r].parent = Caller[c]

\* The levels of a tree, as buildNode descends.
LEMMA Levels ==
    ASSUME NEW keep \in SUBSET Resources
    PROVE  \E g \in [0 .. Cardinality(keep) -> SUBSET keep] :
              /\ g[0] = Roots(keep)
              /\ \A n \in 1 .. Cardinality(keep) :
                    g[n] = g[n - 1] \cup {r \in keep : state[r].parent \in g[n - 1]}
              /\ Tree(keep) = g[Cardinality(keep)]
<1> DEFINE N == Cardinality(keep)
<1> DEFINE below(s) == {r \in keep : state[r].parent \in s}
<1> DEFINE F == [p \in Nat \X SUBSET keep |-> p[2] \cup below(p[2])]
<1>1. N \in Nat
  BY FiniteAssumption, FS_Subset, FS_CardinalityType
<1>2. Roots(keep) \in SUBSET keep
  BY DEF Roots
<1>3. F \in [Nat \X SUBSET keep -> SUBSET keep]
  OBVIOUS
<1>4. \E g \in [0 .. N -> SUBSET keep] :
          g[0] = Roots(keep) /\ \A n \in 1 .. N : g[n] = F[<<n, g[n - 1]>>]
  <2> DEFINE T == SUBSET keep
  <2> DEFINE a == Roots(keep)
  <2>1. a \in T /\ F \in [Nat \X T -> T]
    BY <1>2, <1>3
  <2> HIDE DEF F, N, T, a
  <2>2. \E g : Recursive_(g, T, a, F, N)
    BY <1>1, <2>1, Recursion
  <2> QED
    BY <2>2 DEF T, a, Recursive_
<1>5. PICK g \in [0 .. N -> SUBSET keep] :
          g[0] = Roots(keep) /\ \A n \in 1 .. N : g[n] = F[<<n, g[n - 1]>>]
  BY <1>4
<1>6. ASSUME NEW n \in 1 .. N
      PROVE  g[n] = g[n - 1] \cup below(g[n - 1])
  <2>1. n \in Nat /\ g[n - 1] \in SUBSET keep
    BY <1>1
  <2>2. F[<<n, g[n - 1]>>] = g[n - 1] \cup below(g[n - 1])
    BY <2>1
  <2> QED
    BY <1>5, <2>2
<1> DEFINE Step(h) == [n \in 0 .. N |-> IF n = 0 THEN Roots(keep) ELSE h[n - 1] \cup below(h[n - 1])]
<1>7. g = Step(g)
  <2>1. ASSUME NEW n \in 0 .. N
        PROVE  g[n] = IF n = 0 THEN Roots(keep) ELSE g[n - 1] \cup below(g[n - 1])
    <3>1. n = 0 \/ n \in 1 .. N
      BY <1>1
    <3> QED
      BY <3>1, <1>5, <1>6
  <2> QED
    BY <2>1
<1>8. \E h : h = Step(h) /\ Tree(keep) = h[N]
  BY <1>7 DEF Tree
<1>9. PICK h : h = Step(h) /\ Tree(keep) = h[N]
  BY <1>8
<1>10. /\ h[0] = Roots(keep)
       /\ \A n \in 1 .. N : h[n] = h[n - 1] \cup below(h[n - 1])
  <2>1. ASSUME NEW n \in 0 .. N
        PROVE  h[n] = IF n = 0 THEN Roots(keep) ELSE h[n - 1] \cup below(h[n - 1])
    <3>1. h[n] = Step(h)[n]
      BY <1>9
    <3> QED
      BY <3>1
  <2> HIDE DEF N, below
  <2>2. h[0] = Roots(keep)
    <3>1. 0 \in 0 .. N
      BY <1>1
    <3> QED
      BY <2>1, <3>1, Zenon
  <2>3. ASSUME NEW n \in 1 .. N PROVE h[n] = h[n - 1] \cup below(h[n - 1])
    <3>1. n \in 0 .. N /\ n # 0
      BY <1>1
    <3> QED
      BY <2>1, <3>1
  <2> QED
    BY <2>2, <2>3
<1>11. h \in [0 .. N -> SUBSET keep]
  <2> DEFINE S == {n \in Nat : n \in 0 .. N => h[n] \in SUBSET keep}
  <2>1. 0 \in S
    BY <1>2, <1>10
  <2>2. ASSUME NEW n \in Nat, n \in S PROVE n + 1 \in S
    <3> SUFFICES ASSUME n + 1 \in 0 .. N PROVE h[n + 1] \in SUBSET keep
      OBVIOUS
    <3>1. n + 1 \in 1 .. N /\ n \in 0 .. N
      BY <1>1
    <3>2. h[n + 1] = h[n] \cup below(h[n])
      BY <3>1, <1>10
    <3> QED
      BY <2>2, <3>1, <3>2
  <2>3. Nat \subseteq S
    <3> HIDE DEF S
    <3> QED
      BY <2>1, <2>2, SetInduction
  <2>4. \A n \in 0 .. N : h[n] \in SUBSET keep
    BY <2>3, <1>1
  <2>5. h = [n \in 0 .. N |-> h[n]]
    BY <1>9
  <2> QED
    BY <2>4, <2>5
<1> QED
  BY <1>10, <1>11, <1>9

\* A tree without cycles has all that passes the filter: each level adds something until
\* nothing is left out, since of what is left out one has the lowest rank, and its parent is
\* not left out.
LEMMA TreeHasAll ==
    ASSUME TypeOK, ParentInv, NoCycles, NEW keep \in SUBSET Resources
    PROVE  Tree(keep) = keep
<1> DEFINE N == Cardinality(keep)
<1>1. PICK g \in [0 .. N -> SUBSET keep] :
              /\ g[0] = Roots(keep)
              /\ \A n \in 1 .. N : g[n] = g[n - 1] \cup {r \in keep : state[r].parent \in g[n - 1]}
              /\ Tree(keep) = g[N]
  BY Levels
<1>2. IsFiniteSet(keep) /\ N \in Nat
  BY FiniteAssumption, FS_Subset, FS_CardinalityType
<1>3. PICK rank \in [Resources -> Nat] :
        /\ \A r \in Resources : EventParent[r] # Root => rank[EventParent[r]] < rank[r]
        /\ \A c \in Calls : rank[Caller[c]] < rank[PluginSession]
  BY DEF NoCycles
<1>4. ASSUME NEW r \in keep, state[r].parent \in keep
      PROVE  rank[state[r].parent] < rank[r]
  <2>1. r \in Resources /\ state[r].parent # Root
    BY <1>4, DiagnosticsAssumption
  <2>2. \/ state[r].parent = EventParent[r]
        \/ r = PluginSession /\ \E c \in Calls : state[r].parent = Caller[c]
    BY <2>1 DEF ParentInv
  <2> QED
    BY <1>3, <2>1, <2>2
<1>5. ASSUME NEW n \in 1 .. N, g[n - 1] # keep
      PROVE  \E r \in keep : r \notin g[n - 1] /\ r \in g[n]
  <2> DEFINE out == {rank[r] : r \in keep \ g[n - 1]}
  <2>0. n - 1 \in 0 .. N
    BY <1>2
  <2>1. g[n - 1] \in SUBSET keep /\ keep \ g[n - 1] # {}
    BY <1>1, <1>5, <2>0
  <2>2. out \in SUBSET Nat /\ out # {}
    BY <2>1
  <2>3. \E k \in out : \A m \in out : k <= m
    <3> HIDE DEF out
    <3> QED
      BY <2>2, Least
  <2>4. PICK r \in keep \ g[n - 1] : \A m \in out : rank[r] <= m
    BY <2>3
  <2>5. ASSUME NEW q \in keep \ g[n - 1] PROVE rank[r] <= rank[q]
    BY <2>4
  <2>6. rank[r] \in Nat /\ \A q \in keep : rank[q] \in Nat
    BY <1>3
  <2>7. CASE state[r].parent \in keep
    <3>1. state[r].parent \in g[n - 1]
      BY <2>7, <2>5, <2>6, <1>4
    <3> QED
      BY <3>1, <1>1
  <2>8. CASE state[r].parent \notin keep
    <3>1. r \in g[0]
      BY <2>8, <1>1 DEF Roots
    <3> DEFINE S == {m \in Nat : m \in 0 .. N => r \in g[m]}
    <3>2. 0 \in S
      BY <3>1
    <3>3. ASSUME NEW m \in Nat, m \in S PROVE m + 1 \in S
      <4> SUFFICES ASSUME m + 1 \in 0 .. N PROVE r \in g[m + 1]
        OBVIOUS
      <4>1. m + 1 \in 1 .. N /\ m \in 0 .. N
        BY <1>2
      <4> QED
        BY <1>1, <3>3, <4>1
    <3>4. Nat \subseteq S
      <4> HIDE DEF S
      <4> QED
        BY <3>2, <3>3, SetInduction
    <3>5. n \in Nat /\ n \in 0 .. N
      BY <1>2
    <3> QED
      BY <3>4, <3>5
  <2> QED
    BY <2>7, <2>8
<1> DEFINE S == {n \in Nat : n \in 0 .. N => g[n] = keep \/ Cardinality(g[n]) >= n}
<1>6. 0 \in S
  <2>1. IsFiniteSet(g[0])
    BY <1>1, <1>2, FS_Subset
  <2> QED
    BY <2>1, FS_CardinalityType
<1>7. ASSUME NEW n \in Nat, n \in S PROVE n + 1 \in S
  <2> SUFFICES ASSUME n + 1 \in 0 .. N PROVE g[n + 1] = keep \/ Cardinality(g[n + 1]) >= n + 1
    OBVIOUS
  <2>1. n + 1 \in 1 .. N /\ n \in 0 .. N /\ (n + 1) - 1 = n
    BY <1>2
  <2>2. g[n] \subseteq g[n + 1] /\ g[n + 1] \subseteq keep
    BY <2>1, <1>1
  <2>3. CASE g[n] = keep
    BY <2>2, <2>3
  <2>4. CASE g[n] # keep
    <3>1. PICK r \in keep : r \notin g[n] /\ r \in g[n + 1]
      BY <2>1, <2>4, <1>5
    <3>2. IsFiniteSet(g[n]) /\ IsFiniteSet(g[n + 1])
      BY <2>1, <1>1, <1>2, FS_Subset
    <3>3. /\ IsFiniteSet(g[n] \cup {r}) /\ Cardinality(g[n] \cup {r}) = Cardinality(g[n]) + 1
          /\ Cardinality(g[n]) \in Nat /\ Cardinality(g[n + 1]) \in Nat
      BY <3>1, <3>2, FS_AddElement, FS_CardinalityType
    <3>4. Cardinality(g[n] \cup {r}) <= Cardinality(g[n + 1])
      <4>1. (g[n] \cup {r}) \in SUBSET g[n + 1]
        BY <2>2, <3>1
      <4> QED
        BY <4>1, <3>2, FS_Subset
    <3>5. Cardinality(g[n]) >= n
      BY <1>7, <2>1, <2>4
    <3> QED
      BY <3>3, <3>4, <3>5
  <2> QED
    BY <2>3, <2>4
<1>8. Nat \subseteq S
  <2> HIDE DEF S
  <2> QED
    BY <1>6, <1>7, SetInduction
<1>9. g[N] = keep \/ Cardinality(g[N]) >= N
  BY <1>8, <1>2
<1>10. g[N] \in SUBSET keep
  BY <1>1, <1>2
<1>11. g[N] = keep
  <2>1. Cardinality(g[N]) <= N /\ (N = Cardinality(g[N]) => keep = g[N])
    BY <1>2, <1>10, FS_Subset
  <2>2. Cardinality(g[N]) \in Nat
    BY <1>2, <1>10, FS_Subset, FS_CardinalityType
  <2> QED
    BY <1>2, <1>9, <2>1, <2>2
<1> QED
  BY <1>1, <1>11

LEMMA ParentStep == Types /\ ParentInv /\ [Next]_vars => ParentInv'
<1> SUFFICES ASSUME Types, ParentInv, [Next]_vars PROVE ParentInv'
  OBVIOUS
<1>1. ASSUME NEW e \in Events, PushEvent(e) PROVE ParentInv'
  <2>1. /\ e.res \in Resources /\ state' = applyEvent(e)
        /\ \A q \in Resources \ {e.res} : state'[q] = state[q]
        /\ state'[e.res].parent \in {state[e.res].parent, EventParent[e.res]}
    BY <1>1, Applied, EventTypes DEF PushEvent, Types
  <2> QED
    BY <2>1 DEF ParentInv
<1>2. ASSUME NEW p \in {EventParent[PluginSession]} \cup {Caller[c] : c \in Calls}, UpdateParent(PluginSession, p)
      PROVE  ParentInv'
  <2>1. state' = state \/ state' = [state EXCEPT ![PluginSession].parent = p]
    BY <1>2 DEF UpdateParent
  <2>2. state \in [Resources -> Resource]
    BY DEF Types, TypeOK, Resource
  <2>3. \A q \in Resources : state'[q].parent = state[q].parent \/ (q = PluginSession /\ state'[q].parent = p)
    BY <2>1, <2>2 DEF Resource
  <2> QED
    BY <2>3 DEF ParentInv
<1>3. ASSUME NEW c \in Calls, CallPlugin(c) \/ CallReturns(c) PROVE ParentInv'
  BY <1>2, <1>3 DEF CallPlugin, CallReturns
<1>4. CASE UNCHANGED state
  BY <1>4 DEF ParentInv
<1> QED
  BY <1>1, <1>3, <1>4 DEF Next, vars, cache, Create, RLock, Notify, Subscribe, Receive, Send, Unsubscribe

\* Whatever the window, whoever calls the plugin and in whatever order events come, all that
\* passes the filter is in the tree: ReconstructTree promotes orphans and loses nobody.
THEOREM TreeIsCompleteHolds == NoCycles => (Spec => []TreeIsComplete)
<1> SUFFICES ASSUME NoCycles PROVE Spec => []TreeIsComplete
  OBVIOUS
<1>1. Types /\ ParentInv => TreeIsComplete
  <2> SUFFICES ASSUME Types, ParentInv, NEW keep \in Windows PROVE Tree(keep) = keep
    BY DEF TreeIsComplete
  <2>1. keep \in SUBSET Resources
    BY DEF Windows
  <2> QED
    BY <2>1, TreeHasAll DEF Types
<1>2. Init => ParentInv
  BY DEF Init, ParentInv, NoResource
<1>3. Spec => [](Types /\ ParentInv)
  BY <1>2, InitInv, TypesStep, ParentStep, PTL DEF Spec, Inv
<1> QED
  BY <1>1, <1>3, PTL
================================================================================
