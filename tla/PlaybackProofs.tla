--------------------------- MODULE PlaybackProofs ---------------------------
(***************************************************************************)
(* For any number of slots, inputs and failures: at rest the fields the    *)
(* client took from the last request that writes them are Spotify's, and a *)
(* space pressed at rest has toggled the playback.                         *)
(***************************************************************************)
EXTENDS Playback, TLAPS

(* A fetch is queued, or sent and not served yet. *)
FetchQueued == \E e \in Fetches : pending[e] > 0
FetchSent   == \E s \in Slots : request[s].phase = "sent" /\ request[s].event \in Fetches

(* What completing r stores in the field f. *)
Value(r, f) == IF r.event \in Fetches THEN r.answer[f] ELSE r.event = "Play"

(* The freshest value of f, stored or on its way, is Spotify's. *)
FreshestIsServers(f) ==
    /\ f \in good => local[f] = server[f]
    /\ \A s \in Slots :
        request[s].phase = "served" /\ f \in request[s].fresh /\ request[s].event # "Seek"
        => Value(request[s], f) = server[f]

(* Or else a fetch will be served. *)
Informed == server.here => FetchQueued \/ FetchSent \/ \A f \in Fields : FreshestIsServers(f)

(* A slot in use holds an event; a request is fresh for what it writes. *)
WellFormed == \A s \in Slots : /\ request[s].phase # "free" => request[s].event \in Events
                               /\ request[s].fresh \subseteq Writes(request[s].event)

(* What the space key asks for when the goal is g. *)
Asked(g) == IF g THEN "Play" ELSE "Pause"

(* The space key's request is the only one: queued, or sent. *)
AskedQueued(g) == /\ \A e \in Events : pending[e] = (IF e = Asked(g) THEN 1 ELSE 0)
                  /\ \A s \in Slots : request[s].phase = "free"
AskedSent(g) == /\ \A e \in Events : pending[e] = 0
                /\ \E s \in Slots : /\ request[s].phase = "sent" /\ request[s].event = Asked(g)
                                    /\ \A t \in Slots \ {s} : request[t].phase = "free"

(* Spotify executed it, and whatever completes from now on stores g. *)
AskedServed(g) ==
    /\ server.playing = g
    /\ \A e \in Events \ Fetches : pending[e] = 0
    /\ \A s \in Slots : LET r == request[s] IN
        \/ r.phase = "free"
        \/ r.phase = "served" /\ r.event = Asked(g)
        \/ r.phase = "sent" /\ r.event \in Fetches
        \/ r.phase = "served" /\ r.event \in Fetches /\ r.answer.playing = g
    /\ \/ local.playing = g
       \/ \E s \in Slots : request[s].phase = "served" /\ request[s].event = Asked(g)

OnTheWay == \A g \in goal : AskedQueued(g) \/ AskedSent(g) \/ AskedServed(g)

IInv == TypeOK /\ WellFormed /\ Informed /\ OnTheWay

-----------------------------------------------------------------------------
USE PlaybackAssumption DEF Events, Fetches, Fields

LEMMA InitInv == Init => IInv
<1> SUFFICES ASSUME Init PROVE IInv
  OBVIOUS
<1> USE DEF Init, Free, EmptyState, State
<1>1. TypeOK
  <2>1. server \in [track : Tracks, playing : BOOLEAN, here : BOOLEAN] /\ local \in State
    OBVIOUS
  <2>2. pending \in [Events -> Nat]
    OBVIOUS
  <2>3. Free \in [event : Events \cup {"none"}, phase : {"free", "sent", "served", "lost"},
                  answer : State, fresh : SUBSET Fields]
    OBVIOUS
  <2>4. good \subseteq Fields /\ goal \subseteq BOOLEAN
    OBVIOUS
  <2>5. inputs \in 0..MaxInputs /\ failures \in 0..MaxFailures
    OBVIOUS
  <2> QED BY <2>1, <2>2, <2>3, <2>4, <2>5 DEF TypeOK
<1>2. WellFormed
  BY DEF WellFormed
<1>3. Informed
  BY DEF Informed, FetchQueued
<1>4. OnTheWay
  BY DEF OnTheWay
<1> QED BY <1>1, <1>2, <1>3, <1>4 DEF IInv

(* What the player events enqueue are fetches, and some fetch at least *)
(* when librespot plays something else than before.                    *)
LEMMA ReportsFetch ==
  ASSUME NEW after, TypeOK
  PROVE  /\ Reports(after) \subseteq Fetches
         /\ after.here /\ after # server => "GetCurrentlyPlayingTrack" \in Reports(after)
BY DEF Reports, PlayerCallbacks

LEMMA EnqueueType ==
  ASSUME TypeOK, NEW events, Enqueue(events)
  PROVE  /\ pending' \in [Events -> Nat]
         /\ \A e \in Events : pending'[e] = IF e \in events THEN pending[e] + 1 ELSE pending[e]
BY DEF TypeOK, Enqueue

LEMMA WritesType == \A e : Writes(e) \subseteq Fields
BY DEF Writes

LEMMA ExecutedType ==
  ASSUME TypeOK, NEW e, NEW after \in Executed(e)
  PROVE  /\ after \in [track : Tracks, playing : BOOLEAN, here : BOOLEAN]
         /\ after.here = server.here
         /\ e = "Play" => after = [server EXCEPT !.playing = TRUE]
         /\ e = "Pause" => after = [server EXCEPT !.playing = FALSE]
         /\ e \in Fetches \cup {"Seek"} => after = server
BY DEF TypeOK, Executed

LEMMA StoredType ==
  ASSUME TypeOK, NEW s \in Slots
  PROVE  Stored(request[s]) \subseteq State
<1>1. /\ request[s].answer \in State /\ EmptyState \in State /\ local \in State
  BY DEF TypeOK, State, EmptyState
<1>2. [local EXCEPT !.playing = (request[s].event = "Play")] \in State
  BY <1>1 DEF State
<1> QED BY <1>1, <1>2 DEF Stored

Request == [event  : Events \cup {"none"}, phase : {"free", "sent", "served", "lost"},
            answer : State, fresh : SUBSET Fields]

LEMMA TypeStep == TypeOK /\ [Next]_vars => TypeOK'
<1> SUFFICES ASSUME TypeOK, [Next]_vars PROVE TypeOK'
  OBVIOUS
<1> DEFINE ServerOK  == server \in [track : Tracks, playing : BOOLEAN, here : BOOLEAN]
           RequestOK == request \in [Slots -> Request]
           CountsOK  == inputs \in 0..MaxInputs /\ failures \in 0..MaxFailures
           RestOK    == local \in State /\ pending \in [Events -> Nat]
           HistoryOK == good \subseteq Fields /\ goal \subseteq BOOLEAN
<1>a. ServerOK /\ RequestOK /\ CountsOK /\ RestOK /\ HistoryOK
  BY DEF TypeOK, Request
<1>b. Counted => inputs' \in 0..MaxInputs
  BY <1>a DEF Counted
<1>1. CASE SpaceKey
  <2>1. pending' \in [Events -> Nat]
    BY <1>1, EnqueueType DEF SpaceKey
  <2>2. goal' \subseteq BOOLEAN
    BY <1>1 DEF SpaceKey
  <2> QED BY <1>1, <1>a, <1>b, <2>1, <2>2 DEF SpaceKey, TypeOK, Request
<1>2. ASSUME NEW e \in Events, Command(e) PROVE TypeOK'
  <2>1. pending' \in [Events -> Nat]
    BY <1>2, EnqueueType DEF Command
  <2> QED BY <1>2, <1>a, <1>b, <2>1 DEF Command, TypeOK, Request
<1>3. ASSUME NEW after \in [track : Tracks, playing : BOOLEAN, here : BOOLEAN],
             ChangedElsewhere(after)
      PROVE  TypeOK'
  <2>1. pending' \in [Events -> Nat]
    BY <1>3, EnqueueType DEF ChangedElsewhere
  <2> QED BY <1>3, <1>a, <1>b, <2>1 DEF ChangedElsewhere, TypeOK, Request
<1>4. ASSUME NEW e \in Events, Handle(e) PROVE TypeOK'
  <2>1. pending' \in [Events -> Nat]
    BY <1>4, <1>a DEF Handle, Dequeue
  <2>2. [event |-> e, phase |-> "sent", answer |-> EmptyState, fresh |-> {}] \in Request
    BY DEF Request, State, EmptyState
  <2>3. request' \in [Slots -> Request]
    BY <1>4, <1>a, <2>2 DEF Handle
  <2> QED BY <1>4, <1>a, <2>1, <2>3 DEF Handle, TypeOK, Request
<1>5. ASSUME NEW s \in Slots, Serve(s) PROVE TypeOK'
  <2>1. PICK after \in Executed(request[s].event) :
            /\ server' = after /\ Enqueue(Reports(after))
            /\ request' = [t \in Slots |->
                 IF t = s
                 THEN [request[s] EXCEPT
                         !.phase = "served", !.fresh = Writes(request[s].event),
                         !.answer = [track |-> after.track, playing |-> after.playing]]
                 ELSE [request[t] EXCEPT !.fresh = @ \ Writes(request[s].event)]]
            /\ good' = good \ Writes(request[s].event)
            /\ goal' = IF request[s].event = "SkipToNext" THEN {} ELSE goal
    BY <1>5 DEF Serve
  <2>2. pending' \in [Events -> Nat]
    BY <2>1, EnqueueType
  <2>3. after \in [track : Tracks, playing : BOOLEAN, here : BOOLEAN]
    BY ExecutedType
  <2>4. [track |-> after.track, playing |-> after.playing] \in State
    BY <2>3 DEF State
  <2>5. request' \in [Slots -> Request]
    <3>1. ASSUME NEW t \in Slots
          PROVE  [request[t] EXCEPT !.fresh = @ \ Writes(request[s].event)] \in Request
      BY <1>a DEF Request
    <3>2. [request[s] EXCEPT
             !.phase = "served", !.fresh = Writes(request[s].event),
             !.answer = [track |-> after.track, playing |-> after.playing]] \in Request
      <4>1. request[s] \in Request /\ Writes(request[s].event) \in SUBSET Fields
        BY <1>a, WritesType
      <4> QED BY <2>4, <4>1 DEF Request
    <3> QED BY <2>1, <3>1, <3>2
  <2>6. good' \subseteq Fields /\ goal' \subseteq BOOLEAN
    BY <1>a, <2>1
  <2> QED BY <1>5, <1>a, <2>1, <2>2, <2>3, <2>5, <2>6 DEF Serve, TypeOK, Request
<1>6. ASSUME NEW s \in Slots, Lose(s) PROVE TypeOK'
  <2>1. request' \in [Slots -> Request]
    <3>1. request' = [t \in Slots |->
             [request[t] EXCEPT !.phase = IF t = s THEN "lost" ELSE @,
                                !.fresh = @ \ Writes(request[s].event)]]
      BY <1>6 DEF Lose
    <3>2. ASSUME NEW t \in Slots, NEW ph \in {"free", "sent", "served", "lost"}
          PROVE  [request[t] EXCEPT !.phase = ph, !.fresh = @ \ Writes(request[s].event)]
                 \in Request
      <4>1. request[t] \in Request
        BY <1>a
      <4> QED BY <4>1 DEF Request
    <3>3. \A t \in Slots : (IF t = s THEN "lost" ELSE request[t].phase)
                           \in {"free", "sent", "served", "lost"}
      BY <1>a DEF Request
    <3> QED BY <3>1, <3>2, <3>3
  <2>2. failures' \in 0..MaxFailures
    <3>1. failures < MaxFailures /\ failures' = failures + 1
      BY <1>6 DEF Lose
    <3>2. failures \in 0..MaxFailures
      BY <1>a
    <3> QED BY <3>1, <3>2
  <2> QED BY <1>6, <1>a, <2>1, <2>2 DEF Lose, TypeOK, Request
<1>7. ASSUME NEW s \in Slots, Complete(s) PROVE TypeOK'
  <2>1. local' \in State
    BY <1>7, StoredType DEF Complete
  <2>2. request' \in [Slots -> Request]
    BY <1>7, <1>a DEF Complete, Free, Request, State, EmptyState
  <2>3. good' \subseteq Fields /\ goal' \subseteq BOOLEAN
    BY <1>7, <1>a, WritesType DEF Complete, Request
  <2> QED BY <1>7, <1>a, <2>1, <2>2, <2>3 DEF Complete, TypeOK, Request
<1>8. CASE UNCHANGED vars
  BY <1>8, <1>a DEF vars, TypeOK, Request
<1> QED BY <1>1, <1>2, <1>3, <1>4, <1>5, <1>6, <1>7, <1>8 DEF Next

-----------------------------------------------------------------------------
(* What the steps of a request do, slot by slot. *)

LEMMA HandleFacts ==
  ASSUME TypeOK, NEW e \in Events, Handle(e)
  PROVE  /\ pending[e] > 0 /\ pending'[e] = pending[e] - 1
         /\ \A f \in Events \ {e} : pending'[f] = pending[f]
         /\ \E s \in Slots :
              /\ request[s].phase = "free"
              /\ request'[s].event = e /\ request'[s].phase = "sent" /\ request'[s].fresh = {}
              /\ \A t \in Slots \ {s} : request'[t] = request[t]
<1>1. pending[e] > 0 /\ pending' = [pending EXCEPT ![e] = @ - 1]
  BY DEF Handle, Dequeue
<1>2. PICK s \in Slots :
        /\ request[s] = Free
        /\ request' = [request EXCEPT ![s] = [event |-> e, phase |-> "sent",
                                              answer |-> EmptyState, fresh |-> {}]]
  BY DEF Handle
<1>3. \A t \in Slots \ {s} : request'[t] = request[t]
  BY <1>2 DEF TypeOK
<1>4. request[s].phase = "free" /\ request'[s].event = e
      /\ request'[s].phase = "sent" /\ request'[s].fresh = {}
  BY <1>2 DEF TypeOK, Free
<1> QED BY <1>1, <1>3, <1>4 DEF TypeOK

LEMMA ServeFacts ==
  ASSUME TypeOK, NEW s \in Slots, Serve(s)
  PROVE  LET e == request[s].event IN
         /\ request[s].phase = "sent"
         /\ server' \in Executed(e)
         /\ Enqueue(Reports(server'))
         /\ request'[s].event = e /\ request'[s].phase = "served"
         /\ request'[s].fresh = Writes(e)
         /\ \A f \in Fields : request'[s].answer[f] = server'[f]
         /\ \A t \in Slots \ {s} : /\ request'[t].event = request[t].event
                                   /\ request'[t].phase = request[t].phase
                                   /\ request'[t].answer = request[t].answer
                                   /\ request'[t].fresh = request[t].fresh \ Writes(e)
         /\ good' = good \ Writes(e)
         /\ goal' = IF e = "SkipToNext" THEN {} ELSE goal
<1> DEFINE e == request[s].event
           R == [request[s] EXCEPT !.phase = "served", !.fresh = Writes(e),
                   !.answer = [track |-> server'.track, playing |-> server'.playing]]
           Q(t) == [request[t] EXCEPT !.fresh = @ \ Writes(e)]
<1>1. /\ server' \in Executed(e) /\ Enqueue(Reports(server'))
      /\ request' = [t \in Slots |-> IF t = s THEN R ELSE Q(t)]
      /\ good' = good \ Writes(e)
      /\ goal' = IF e = "SkipToNext" THEN {} ELSE goal
      /\ request[s].phase = "sent"
  BY DEF Serve
<1>2. \A t \in Slots : request[t] \in Request
  BY DEF TypeOK, Request
<1>3. /\ R.event = e /\ R.phase = "served" /\ R.fresh = Writes(e)
      /\ \A f \in Fields : R.answer[f] = server'[f]
  BY <1>2 DEF Request
<1>4. ASSUME NEW t \in Slots
      PROVE  /\ Q(t).event = request[t].event /\ Q(t).phase = request[t].phase
             /\ Q(t).answer = request[t].answer /\ Q(t).fresh = request[t].fresh \ Writes(e)
  BY <1>2 DEF Request
<1>5. request'[s] = R /\ \A t \in Slots \ {s} : request'[t] = Q(t)
  BY <1>1
<1> QED BY <1>1, <1>3, <1>4, <1>5

LEMMA LoseFacts ==
  ASSUME TypeOK, NEW s \in Slots, Lose(s)
  PROVE  LET e == request[s].event IN
         /\ request[s].phase \in {"sent", "served"}
         /\ request'[s].phase = "lost" /\ request'[s].event = e
         /\ \A t \in Slots \ {s} : request'[t].phase = request[t].phase
         /\ \A t \in Slots : /\ request'[t].event = request[t].event
                             /\ request'[t].answer = request[t].answer
                             /\ request'[t].fresh = request[t].fresh \ Writes(e)
         /\ good' = good \ Writes(e)
         /\ goal' = {} /\ server' = server /\ local' = local /\ pending' = pending
<1> DEFINE e == request[s].event
           Q(t) == [request[t] EXCEPT !.phase = IF t = s THEN "lost" ELSE @,
                                      !.fresh = @ \ Writes(e)]
<1>1. /\ request' = [t \in Slots |-> Q(t)]
      /\ request[s].phase \in {"sent", "served"}
      /\ good' = good \ Writes(e)
      /\ goal' = {} /\ server' = server /\ local' = local /\ pending' = pending
  BY DEF Lose
<1>2. \A t \in Slots : request[t] \in Request
  BY DEF TypeOK, Request
<1>3. ASSUME NEW t \in Slots
      PROVE  /\ Q(t).event = request[t].event /\ Q(t).answer = request[t].answer
             /\ Q(t).phase = (IF t = s THEN "lost" ELSE request[t].phase)
             /\ Q(t).fresh = request[t].fresh \ Writes(e)
  BY <1>2 DEF Request
<1>4. \A t \in Slots : request'[t] = Q(t)
  BY <1>1
<1> QED BY <1>1, <1>3, <1>4

LEMMA CompleteFacts ==
  ASSUME TypeOK, NEW s \in Slots, Complete(s)
  PROVE  LET r == request[s] IN
         /\ r.phase \in {"served", "lost"}
         /\ local' \in Stored(r)
         /\ good' = (good \ Writes(r.event))
                    \cup (IF r.phase = "lost" \/ r.event = "Seek" THEN {} ELSE r.fresh)
         /\ request'[s] = Free /\ \A t \in Slots \ {s} : request'[t] = request[t]
         /\ goal' = (IF r.event = "Seek" THEN {} ELSE goal)
         /\ server' = server /\ pending' = pending
BY DEF Complete, TypeOK

LEMMA WellFormedStep == TypeOK /\ WellFormed /\ [Next]_vars => WellFormed'
<1> SUFFICES ASSUME TypeOK, WellFormed, [Next]_vars PROVE WellFormed'
  OBVIOUS
<1> USE DEF WellFormed
<1>1. ASSUME UNCHANGED request PROVE WellFormed'
  BY <1>1
<1>2. ASSUME NEW e \in Events, Handle(e) PROVE WellFormed'
  BY <1>2, HandleFacts
<1>3. ASSUME NEW s \in Slots, Serve(s) PROVE WellFormed'
  BY <1>3, ServeFacts
<1>4. ASSUME NEW s \in Slots, Lose(s) PROVE WellFormed'
  BY <1>4, LoseFacts
<1>5. ASSUME NEW s \in Slots, Complete(s) PROVE WellFormed'
  BY <1>5, CompleteFacts DEF Free
<1> QED BY <1>1, <1>2, <1>3, <1>4, <1>5
        DEF Next, vars, SpaceKey, Command, ChangedElsewhere

-----------------------------------------------------------------------------
(* A queued fetch stays queued until it is handled. *)
LEMMA EnqueueKeepsFetch ==
  ASSUME TypeOK, NEW events, Enqueue(events),
         FetchQueued \/ \E e \in events : e \in Fetches
  PROVE  FetchQueued'
<1>1. \A e \in Events : pending'[e] = IF e \in events THEN pending[e] + 1 ELSE pending[e]
  BY EnqueueType
<1>2. \A e \in Events : pending[e] \in Nat
  BY DEF TypeOK
<1>3. PICK e \in Fetches : pending[e] > 0 \/ e \in events
  BY DEF FetchQueued
<1>4. pending'[e] > 0
  BY <1>1, <1>2, <1>3
<1> QED BY <1>4 DEF FetchQueued

LEMMA InformedStep == TypeOK /\ WellFormed /\ Informed /\ [Next]_vars => Informed'
<1> SUFFICES ASSUME TypeOK, WellFormed, Informed, [Next]_vars, server'.here
             PROVE  FetchQueued' \/ FetchSent' \/ \A f \in Fields : FreshestIsServers(f)'
  BY DEF Informed
<1> DEFINE Goal == FetchQueued' \/ FetchSent' \/ \A f \in Fields : FreshestIsServers(f)'
<1>1. ASSUME UNCHANGED <<server, local, request, good>>, NEW events, Enqueue(events)
      PROVE  Goal
  <2>1. FetchQueued => FetchQueued'
    BY <1>1, EnqueueKeepsFetch
  <2>2. FetchSent => FetchSent'
    BY <1>1 DEF FetchSent
  <2>3. ASSUME NEW f \in Fields PROVE FreshestIsServers(f) => FreshestIsServers(f)'
    BY <1>1 DEF FreshestIsServers, Value
  <2> QED BY <1>1, <2>1, <2>2, <2>3 DEF Informed
<1>2. ASSUME NEW after, after # server, ChangedElsewhere(after) PROVE Goal
  <2>1. Enqueue(Reports(after)) /\ after = server'
    BY <1>2 DEF ChangedElsewhere
  <2>2. FetchQueued'
    BY <1>2, <2>1, ReportsFetch, EnqueueKeepsFetch
  <2> QED BY <2>2
<1>3. ASSUME NEW e \in Events, Handle(e) PROVE Goal
  <2>1. UNCHANGED <<server, local, good>>
    BY <1>3 DEF Handle
  <2>2. PICK s \in Slots :
          /\ request[s].phase = "free"
          /\ request'[s].event = e /\ request'[s].phase = "sent"
          /\ \A t \in Slots \ {s} : request'[t] = request[t]
    BY <1>3, HandleFacts
  <2>3. CASE e \in Fetches
    BY <2>2, <2>3 DEF FetchSent
  <2>4. CASE e \notin Fetches
    <3>1. FetchQueued => FetchQueued'
      BY <1>3, <2>4, HandleFacts DEF FetchQueued
    <3>2. FetchSent => FetchSent'
      BY <2>2 DEF FetchSent
    <3>3. ASSUME NEW f \in Fields, FreshestIsServers(f) PROVE FreshestIsServers(f)'
      BY <2>1, <2>2, <3>3 DEF FreshestIsServers, Value
    <3> QED BY <2>1, <3>1, <3>2, <3>3 DEF Informed
  <2> QED BY <2>3, <2>4
<1>4. ASSUME NEW s \in Slots, Serve(s) PROVE Goal
  <2> DEFINE e == request[s].event
  <2>1. e \in Events /\ server' \in Executed(e) /\ server'.here = server.here
    <3>1. request[s].phase = "sent" /\ server' \in Executed(e)
      BY <1>4, ServeFacts
    <3>2. e \in Events
      BY <3>1 DEF WellFormed
    <3> QED BY <3>1, <3>2, ExecutedType
  <2>2. CASE server' # server
    BY <1>4, <2>1, <2>2, ServeFacts, ReportsFetch, EnqueueKeepsFetch
  <2>3. CASE server' = server /\ e \in Fetches
    <3>1. Writes(e) = Fields
      BY <2>3 DEF Writes
    <3>2. good' = {} /\ \A t \in Slots \ {s} : request'[t].fresh = {}
      BY <1>4, <3>1, ServeFacts DEF TypeOK, Request
    <3>3. ASSUME NEW f \in Fields PROVE Value(request'[s], f) = server'[f]
      BY <1>4, <2>3, ServeFacts DEF Value
    <3>4. ASSUME NEW f \in Fields PROVE FreshestIsServers(f)'
      BY <3>2, <3>3 DEF FreshestIsServers, Value
    <3> QED BY <3>4
  <2>4. CASE server' = server /\ e \notin Fetches
    <3>1. FetchQueued => FetchQueued'
      BY <1>4, ServeFacts, EnqueueKeepsFetch
    <3>2. FetchSent => FetchSent'
      BY <1>4, <2>4, ServeFacts DEF FetchSent
    <3>3. ASSUME NEW f \in Fields, FreshestIsServers(f) PROVE FreshestIsServers(f)'
      <4>1. local' = local
        BY <1>4 DEF Serve
      <4>2. f \in good' => local'[f] = server'[f]
        BY <1>4, <2>4, <3>3, <4>1, ServeFacts DEF FreshestIsServers
      <4>3. ASSUME NEW t \in Slots \ {s}, request'[t].phase = "served",
                   f \in request'[t].fresh, request'[t].event # "Seek"
            PROVE  Value(request'[t], f) = server'[f]
        BY <1>4, <2>4, <3>3, <4>3, ServeFacts DEF FreshestIsServers, Value
      <4>4. ASSUME f \in request'[s].fresh, request'[s].event # "Seek"
            PROVE  Value(request'[s], f) = server'[f]
        <5>1. request'[s].event = e /\ f \in Writes(e)
          BY <1>4, <4>4, ServeFacts
        <5>2. f = "playing" /\ e \in {"Play", "Pause"}
          BY <2>1, <2>4, <4>4, <5>1 DEF Writes
        <5>3. server'.playing = (e = "Play")
          BY <2>1, <5>2, ExecutedType DEF TypeOK
        <5> QED BY <2>4, <5>1, <5>2, <5>3 DEF Value
      <4> QED BY <4>2, <4>3, <4>4 DEF FreshestIsServers, Value
    <3> QED BY <2>1, <3>1, <3>2, <3>3 DEF Informed
  <2> QED BY <2>2, <2>3, <2>4
<1>5. ASSUME NEW s \in Slots, Lose(s) PROVE Goal
  <2> DEFINE e == request[s].event
  <2>1. FetchQueued => FetchQueued'
    BY <1>5, LoseFacts DEF FetchQueued
  <2>2. CASE e \in Fetches
    <3>1. good' = {} /\ \A t \in Slots : request'[t].fresh = {}
      <4>1. Writes(e) = Fields
        BY <2>2 DEF Writes
      <4> QED BY <1>5, <4>1, LoseFacts DEF TypeOK, Request
    <3>2. ASSUME NEW f \in Fields PROVE FreshestIsServers(f)'
      BY <3>1 DEF FreshestIsServers
    <3> QED BY <3>2
  <2>3. CASE e \notin Fetches
    <3>1. FetchSent => FetchSent'
      BY <1>5, <2>3, LoseFacts DEF FetchSent
    <3>2. ASSUME NEW f \in Fields, FreshestIsServers(f) PROVE FreshestIsServers(f)'
      BY <1>5, <3>2, LoseFacts DEF FreshestIsServers, Value
    <3> QED BY <1>5, <2>1, <3>1, <3>2, LoseFacts DEF Informed
  <2> QED BY <2>2, <2>3
<1>6. ASSUME NEW s \in Slots, Complete(s) PROVE Goal
  <2> DEFINE r == request[s]
  <2>1. FetchQueued => FetchQueued'
    BY <1>6, CompleteFacts DEF FetchQueued
  <2>2. FetchSent => FetchSent'
    BY <1>6, CompleteFacts DEF FetchSent
  <2>3. ASSUME NEW f \in Fields, FreshestIsServers(f) PROVE FreshestIsServers(f)'
    <3>1. ASSUME NEW t \in Slots, request'[t].phase = "served",
                 f \in request'[t].fresh, request'[t].event # "Seek"
          PROVE  Value(request'[t], f) = server'[f]
      BY <1>6, <2>3, <3>1, CompleteFacts DEF FreshestIsServers, Value, Free
    <3>2. ASSUME f \in good' PROVE local'[f] = server'[f]
      <4>1. CASE f \in Writes(r.event)
        <5>1. r.phase = "served" /\ r.event # "Seek" /\ f \in r.fresh
          BY <1>6, <3>2, <4>1, CompleteFacts
        <5>2. Value(r, f) = server'[f]
          BY <1>6, <2>3, <5>1, CompleteFacts DEF FreshestIsServers
        <5>3. local'[f] = Value(r, f)
          <6>1. CASE r.event \in Fetches
            BY <1>6, <5>1, <6>1, CompleteFacts DEF Stored, Value
          <6>2. CASE r.event \notin Fetches
            <7>1. f = "playing" /\ r.event # "SkipToNext"
              BY <4>1, <6>2 DEF Writes
            <7>2. local' = [local EXCEPT !.playing = (r.event = "Play")]
              BY <1>6, <5>1, <6>2, <7>1, CompleteFacts DEF Stored
            <7> QED BY <6>2, <7>1, <7>2 DEF Value, TypeOK, State
          <6> QED BY <6>1, <6>2
        <5> QED BY <5>2, <5>3
      <4>2. CASE f \notin Writes(r.event)
        <5>1. f \in good
          BY <1>6, <3>2, <4>2, CompleteFacts DEF WellFormed
        <5>2. r.event \notin Fetches
          BY <4>2 DEF Writes
        <5>3. \/ local' = local
              \/ f = "track" /\ local' = [local EXCEPT !.playing = (r.event = "Play")]
          <6>1. CASE r.event = "SkipToNext"
            BY <1>6, <6>1, CompleteFacts DEF Stored
          <6>2. CASE r.event # "SkipToNext"
            <7>1. f = "track"
              BY <4>2, <5>2, <6>2 DEF Writes
            <7>2. local' \in {[local EXCEPT !.playing = (r.event = "Play")]}
              BY <1>6, <5>2, <6>2, CompleteFacts DEF Stored
            <7> QED BY <7>1, <7>2
          <6> QED BY <6>1, <6>2
        <5>4. local'[f] = local[f]
          BY <5>3 DEF TypeOK, State
        <5> QED BY <1>6, <2>3, <5>1, <5>4, CompleteFacts DEF FreshestIsServers
      <4> QED BY <4>1, <4>2
    <3> QED BY <3>1, <3>2 DEF FreshestIsServers, Value
  <2> QED BY <1>6, <2>1, <2>2, <2>3, CompleteFacts DEF Informed
<1>7. CASE UNCHANGED vars
  <2>1. UNCHANGED <<server, local, pending, request, good>>
    BY <1>7 DEF vars
  <2> QED BY <2>1 DEF Informed, FetchQueued, FetchSent, FreshestIsServers, Value
<1>8. CASE SpaceKey
  BY <1>1, <1>8 DEF SpaceKey
<1>9. ASSUME NEW e \in Events, Command(e) PROVE Goal
  BY <1>1, <1>9 DEF Command
<1> QED BY <1>2, <1>3, <1>4, <1>5, <1>6, <1>7, <1>8, <1>9 DEF Next

-----------------------------------------------------------------------------
(* At rest nothing is left that could still inform the client. *)
LEMMA RestIsInformed == TypeOK /\ Informed => ShowsServer
<1> SUFFICES ASSUME good \subseteq Fields, Informed, AtRest, server.here
             PROVE  \A f \in good : local[f] = server[f]
  BY DEF TypeOK, ShowsServer
<1>1. ~FetchQueued
  BY DEF AtRest, FetchQueued
<1>2. ~FetchSent
  BY DEF AtRest, FetchSent
<1>3. \A f \in Fields : FreshestIsServers(f)
  BY <1>1, <1>2 DEF Informed
<1> QED BY <1>3 DEF FreshestIsServers

LEMMA OnTheWayStep == IInv /\ [Next]_vars => OnTheWay'
<1> SUFFICES ASSUME IInv, [Next]_vars PROVE OnTheWay'
  OBVIOUS
<1>a. TypeOK /\ WellFormed /\ Informed /\ OnTheWay
  BY DEF IInv
<1>1. ASSUME goal' = {} PROVE OnTheWay'
  BY <1>1 DEF OnTheWay
<1>2. CASE SpaceKey
  <2> SUFFICES ASSUME AtRest, server.here, "playing" \in good, goal' = {~server.playing}
               PROVE  AskedQueued(~server.playing)'
    BY <1>1, <1>2 DEF SpaceKey, OnTheWay, AskedQueued
  <2>1. local.playing = server.playing
    BY <1>a, RestIsInformed DEF ShowsServer
  <2>2. Toggle = Asked(~server.playing)
    BY <2>1 DEF Toggle, Asked
  <2>3. Enqueue({Asked(~server.playing)}) /\ request' = request /\ server' = server
    BY <1>2, <2>2 DEF SpaceKey
  <2>4. \A e \in Events : pending'[e] = IF e = Asked(~server.playing) THEN 1 ELSE 0
    BY <1>a, <2>3, EnqueueType DEF AtRest
  <2> QED BY <2>3, <2>4 DEF AskedQueued, AtRest, Asked
<1>3. ASSUME NEW e \in Events, Handle(e) PROVE OnTheWay'
  <2> SUFFICES ASSUME NEW g \in goal
               PROVE  AskedSent(g)' \/ AskedServed(g)'
    BY <1>3 DEF Handle, OnTheWay
  <2>1. AskedQueued(g) \/ AskedSent(g) \/ AskedServed(g)
    BY <1>a DEF OnTheWay
  <2>2. CASE AskedQueued(g)
    <3>1. e = Asked(g) /\ \A f \in Events : pending'[f] = 0
      BY <1>a, <1>3, <2>2, HandleFacts DEF AskedQueued
    <3>2. \E s \in Slots : /\ request'[s].phase = "sent" /\ request'[s].event = Asked(g)
                           /\ \A t \in Slots \ {s} : request'[t].phase = "free"
      BY <1>a, <1>3, <2>2, <3>1, HandleFacts DEF AskedQueued
    <3> QED BY <3>1, <3>2 DEF AskedSent, Asked
  <2>3. CASE AskedSent(g)
    BY <1>a, <1>3, <2>3, HandleFacts DEF AskedSent
  <2>4. CASE AskedServed(g)
    <3>1. UNCHANGED <<server, local>>
      BY <1>3 DEF Handle
    <3>2. e \in Fetches /\ \A f \in Events \ Fetches : pending'[f] = 0
      BY <1>a, <1>3, <2>4, HandleFacts DEF AskedServed
    <3>3. PICK s \in Slots :
            /\ request[s].phase = "free"
            /\ request'[s].event = e /\ request'[s].phase = "sent"
            /\ \A t \in Slots \ {s} : request'[t] = request[t]
      BY <1>a, <1>3, HandleFacts
    <3> QED BY <2>4, <3>1, <3>2, <3>3 DEF AskedServed, Asked
  <2> QED BY <2>1, <2>2, <2>3, <2>4
<1>4. ASSUME NEW s \in Slots, Serve(s) PROVE OnTheWay'
  <2> DEFINE e == request[s].event
  <2> SUFFICES ASSUME NEW g \in goal PROVE AskedServed(g)'
    BY <1>1, <1>4, <1>a, ServeFacts DEF OnTheWay, AskedServed
  <2>1. /\ request[s].phase = "sent" /\ server' \in Executed(e) /\ Enqueue(Reports(server'))
        /\ request'[s].event = e /\ request'[s].phase = "served"
        /\ request'[s].answer.playing = server'.playing
    BY <1>a, <1>4, ServeFacts
  <2>2. \A t \in Slots \ {s} : /\ request'[t].event = request[t].event
                               /\ request'[t].phase = request[t].phase
                               /\ request'[t].answer = request[t].answer
    BY <1>a, <1>4, ServeFacts
  <2>3. local' = local
    BY <1>4 DEF Serve
  <2>4. AskedSent(g) \/ AskedServed(g)
    BY <1>a, <2>1 DEF OnTheWay, AskedQueued
  <2>5. ASSUME \A f \in Events \ Fetches : pending[f] = 0
        PROVE  \A f \in Events \ Fetches : pending'[f] = 0
    BY <1>a, <2>1, <2>5, ReportsFetch, EnqueueType
  <2>6. CASE AskedSent(g)
    <3>1. e = Asked(g) /\ \A t \in Slots \ {s} : request[t].phase = "free"
      BY <2>1, <2>6 DEF AskedSent
    <3>2. server'.playing = g
      BY <1>a, <2>1, <3>1, ExecutedType DEF Asked, TypeOK
    <3>3. \A f \in Events \ Fetches : pending'[f] = 0
      BY <2>5, <2>6 DEF AskedSent
    <3> QED BY <2>1, <2>2, <3>1, <3>2, <3>3 DEF AskedServed, Asked
  <2>7. CASE AskedServed(g)
    <3>1. e \in Fetches
      BY <2>1, <2>7 DEF AskedServed
    <3>2. server'.playing = g
      BY <1>a, <2>1, <2>7, <3>1, ExecutedType DEF AskedServed
    <3>3. \A f \in Events \ Fetches : pending'[f] = 0
      BY <2>5, <2>7 DEF AskedServed
    <3> QED BY <2>1, <2>2, <2>3, <2>7, <3>1, <3>2, <3>3 DEF AskedServed, Asked
  <2> QED BY <2>4, <2>6, <2>7
<1>5. ASSUME NEW s \in Slots, Complete(s) PROVE OnTheWay'
  <2> DEFINE r == request[s]
  <2> SUFFICES ASSUME NEW g \in goal PROVE AskedServed(g)'
    BY <1>1, <1>5, <1>a, CompleteFacts DEF OnTheWay, AskedServed
  <2>1. /\ r.phase \in {"served", "lost"} /\ local' \in Stored(r)
        /\ request'[s].phase = "free" /\ \A t \in Slots \ {s} : request'[t] = request[t]
        /\ server' = server /\ pending' = pending
    BY <1>a, <1>5, CompleteFacts DEF Free
  <2>2. AskedServed(g)
    BY <1>a, <2>1 DEF OnTheWay, AskedQueued, AskedSent
  <2>3. \/ r.event = Asked(g)
        \/ r.event \in Fetches /\ r.phase = "served" /\ r.answer.playing = g
    BY <2>1, <2>2 DEF AskedServed
  <2>4. local'.playing = g
    <3>1. CASE r.event = Asked(g)
      <4>1. local' = [local EXCEPT !.playing = (r.event = "Play")]
        BY <2>1, <3>1 DEF Stored, Asked
      <4>2. local \in State /\ g \in BOOLEAN
        BY <1>a DEF TypeOK
      <4> QED BY <3>1, <4>1, <4>2 DEF State, Asked
    <3>2. CASE r.event \in Fetches /\ r.phase = "served" /\ r.answer.playing = g
      BY <2>1, <3>2 DEF Stored
    <3> QED BY <2>3, <3>1, <3>2
  <2> QED BY <2>1, <2>2, <2>4 DEF AskedServed, Asked
<1>6. CASE UNCHANGED vars
  BY <1>a, <1>6 DEF vars, OnTheWay, AskedQueued, AskedSent, AskedServed, Asked
<1> QED
  BY <1>1, <1>2, <1>3, <1>4, <1>5, <1>6
  DEF Next, Command, ChangedElsewhere, Lose

LEMMA StepInv == IInv /\ [Next]_vars => IInv'
BY TypeStep, WellFormedStep, InformedStep, OnTheWayStep DEF IInv

THEOREM Invariance == Spec => []IInv
BY InitInv, StepInv, PTL DEF Spec

(* Every variable keeps its type. *)
THEOREM PlaybackTypeCorrectness == Spec => []TypeOK
<1>1. IInv => TypeOK
  BY DEF IInv
<1> QED BY <1>1, Invariance, PTL

(* At rest, while librespot plays, the client shows Spotify's state,       *)
(* unless a response was overtaken or lost, or a seek completed, since.    *)
THEOREM ClientShowsServer == Spec => []ShowsServer
<1>1. IInv => ShowsServer
  BY RestIsInformed DEF IInv
<1> QED BY <1>1, Invariance, PTL

(* A space pressed at rest has toggled Spotify and the client once they    *)
(* are at rest again with no other input and no error.                     *)
THEOREM SpaceKeyToggles == Spec => []SpaceToggles
<1>1. IInv => SpaceToggles
  <2> SUFFICES ASSUME OnTheWay, TypeOK, AtRest, NEW g \in goal
               PROVE  server.playing = g /\ local.playing = g
    BY DEF IInv, SpaceToggles
  <2>1. ~AskedQueued(g) /\ ~AskedSent(g)
    BY DEF AtRest, AskedQueued, AskedSent, Asked
  <2> QED BY <2>1 DEF OnTheWay, AskedServed, AtRest
<1> QED BY <1>1, Invariance, PTL
=============================================================================
