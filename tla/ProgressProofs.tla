--------------------------- MODULE ProgressProofs ---------------------------
(***************************************************************************)
(* For any durations, delays, numbers of requests, inputs and failures:    *)
(* the bar is late by what the answer travelled, the end of a track is     *)
(* asked for at most twice per answer, and only after it.                  *)
(***************************************************************************)
EXTENDS Progress, TLAPS

(* The position an answer now stands for, were it stored and drawn. *)
Late(progress, since) ==
    /\ progress + since <= server.pos
    /\ progress < Duration => progress + since = server.pos

(* What is stored is still about the track playing. *)
LocalLate == fresh = "yes" =>
    /\ server.playing /\ local.track \in Tracks
    /\ Total + lag <= server.pos
    /\ local.progress < Duration /\ elapsed <= Duration => Total + lag = server.pos

(* So is an answer on its way. *)
AnswerLate(s) == request[s].fresh = "yes" =>
    /\ request[s].phase = "served" /\ request[s].event = Fetch
    /\ server.playing /\ request[s].answer.track \in Tracks
    /\ Late(request[s].answer.progress, request[s].age)

(* The counter covers the requests since the last answer, and each was     *)
(* made past the end, where the counter is not reset.                      *)
Counts ==
    /\ queryCount \in 0..2
    /\ asked <= queryCount
    /\ asked > 0 => Total > LocalDuration

IInv == TypeOK /\ LocalLate /\ (\A s \in Slots : AnswerLate(s)) /\ Counts

-----------------------------------------------------------------------------
USE ProgressAssumption DEF Events, Commands, Seeks, Fetch

Request == [event  : Events \cup {"none"}, phase : {"free", "sent", "served", "lost"},
            age : 0..MaxLag, seek : -1..(Duration + 1), answer : State, fresh : Fresh]

StateOK   == server \in Server /\ local \in State /\ elapsed \in 0..(Duration + 1)
CountsOK  == queryCount \in Nat /\ asked \in Nat /\ pending \in [Events -> Nat]
RequestOK == request \in [Slots -> Request]
RestOK    == /\ fresh \in Fresh /\ lag \in 0..MaxLag
             /\ requested \in BOOLEAN /\ redraw \in BOOLEAN
             /\ inputs \in 0..MaxInputs /\ failures \in 0..MaxFailures

LEMMA TypeParts == TypeOK <=> StateOK /\ CountsOK /\ RequestOK /\ RestOK
BY DEF TypeOK, StateOK, CountsOK, RequestOK, RestOK, Request

LEMMA EmptyType == Empty \in State /\ Free \in Request
<1>1. Empty \in State
  BY DEF Empty, State
<1> QED BY <1>1 DEF Free, Request, Fresh

LEMMA InitInv == Init => IInv
<1> SUFFICES ASSUME Init PROVE IInv
  OBVIOUS
<1>1. TypeOK
  <2>1. StateOK
    BY EmptyType DEF Init, StateOK, Server
  <2>2. CountsOK
    BY DEF Init, CountsOK
  <2>4. RestOK
    <3>1. lag \in 0..MaxLag /\ inputs \in 0..MaxInputs /\ failures \in 0..MaxFailures
      BY DEF Init
    <3> QED BY <3>1, Zenon DEF Init, RestOK, Fresh
  <2>3. RequestOK
    BY EmptyType DEF Init, RequestOK
  <2> QED BY <2>1, <2>2, <2>3, <2>4, TypeParts
<1>2. LocalLate
  BY DEF Init, LocalLate
<1>3. \A s \in Slots : AnswerLate(s)
  BY DEF Init, AnswerLate, Free
<1>4. Counts
  BY DEF Init, Counts
<1> QED BY <1>1, <1>2, <1>3, <1>4 DEF IInv

LEMMA OutdatedType ==
  ASSUME TypeOK, NEW how \in Fresh
  PROVE  /\ OutdatedRequests(how) \in [Slots -> Request]
         /\ \A f \in Fresh : Outdated(f, how) \in Fresh
<1>1. \A f \in Fresh : Outdated(f, how) \in Fresh
  BY DEF Outdated
<1>2. \A s \in Slots : [request[s] EXCEPT !.fresh = Outdated(@, how)] \in Request
  BY <1>1, TypeParts DEF RequestOK, Request
<1> QED BY <1>1, <1>2 DEF OutdatedRequests

LEMMA ServedType ==
  ASSUME NEW r \in Request, NEW answer \in State, NEW how \in Fresh
  PROVE  Served(r, answer, how) \in Request
BY DEF Served, Request

LEMMA EnqueueType ==
  ASSUME TypeOK, NEW e \in Events
  PROVE  EnqueueAnd(e, pending) \in [Events -> Nat]
BY DEF EnqueueAnd, TypeOK

LEMMA TypeStep == TypeOK /\ [Next]_vars => TypeOK'
<1> SUFFICES ASSUME TypeOK, [Next]_vars PROVE TypeOK'
  OBVIOUS
<1>a. StateOK /\ CountsOK /\ RequestOK /\ RestOK
  BY TypeParts
<1> SUFFICES StateOK' /\ CountsOK' /\ RequestOK' /\ RestOK'
  BY TypeParts DEF TypeOK, StateOK, CountsOK, RequestOK, RestOK, Request
<1>b. Counted => inputs' \in 0..MaxInputs
  BY <1>a DEF Counted, RestOK
<1>1. CASE Tick
  <2>1. StateOK'
    BY <1>1, <1>a DEF Tick, StateOK, AfterTick
  <2>2. PICK how \in Fresh : /\ fresh' = Outdated(fresh, how)
                            /\ request' = [s \in Slots |-> Aged(OutdatedRequests(how)[s])]
    BY <1>1 DEF Tick, Fresh
  <2>3. OutdatedRequests(how) \in [Slots -> Request] /\ fresh' \in Fresh
    BY <2>2, <1>a, OutdatedType DEF RestOK
  <2>4. \A s \in Slots : Aged(OutdatedRequests(how)[s]) \in Request
    <3> SUFFICES ASSUME NEW s \in Slots PROVE Aged(OutdatedRequests(how)[s]) \in Request
      OBVIOUS
    <3> DEFINE r == OutdatedRequests(how)[s]
    <3>1. r \in Request /\ r.phase = request[s].phase /\ r.age = request[s].age
      BY <2>3, <1>a DEF OutdatedRequests, RequestOK, Request
    <3>2. (IF r.phase = "free" THEN 0 ELSE r.age + 1) \in 0..MaxLag
      BY <1>1, <3>1 DEF Tick, Request
    <3> HIDE DEF r
    <3>3. Aged(r) \in Request
      BY <3>1, <3>2 DEF Aged, Request
    <3> QED BY <3>3 DEF r
  <2>5. RequestOK'
    BY <2>2, <2>4 DEF RequestOK
  <2>6. CountsOK'
    BY <1>1, <1>a DEF Tick, CountsOK
  <2>7. RestOK'
    BY <1>1, <1>a, <2>3, Zenon DEF Tick, RestOK
  <2> QED BY <2>1, <2>5, <2>6, <2>7
<1>2. ASSUME NEW after \in Server, NEW reported \in BOOLEAN, ChangedElsewhere(after, reported)
      PROVE  StateOK' /\ CountsOK' /\ RequestOK' /\ RestOK'
  <2>1. pending' \in [Events -> Nat]
    BY <1>2, <1>a, EnqueueType DEF ChangedElsewhere, CountsOK
  <2>2. request' \in [Slots -> Request] /\ fresh' \in Fresh
    BY <1>2, <1>a, OutdatedType DEF ChangedElsewhere, RestOK, Fresh
  <2>3. StateOK' /\ CountsOK' /\ RequestOK'
    BY <1>2, <1>a, <2>1, <2>2 DEF ChangedElsewhere, StateOK, CountsOK, RequestOK
  <2>4. RestOK'
    BY <1>2, <1>a, <1>b, <2>2, Zenon DEF ChangedElsewhere, RestOK
  <2> QED BY <2>3, <2>4
<1>3. CASE PlaybackProgress
  <2>1. pending' \in [Events -> Nat]
    BY <1>3, <1>a, EnqueueType DEF PlaybackProgress, CountsOK
  <2>2. queryCount' \in Nat /\ asked' \in Nat
    BY <1>3, <1>a DEF PlaybackProgress, CountsOK
  <2>3. StateOK' /\ CountsOK' /\ RequestOK'
    BY <1>3, <1>a, <2>1, <2>2 DEF PlaybackProgress, StateOK, CountsOK, RequestOK
  <2>4. RestOK'
    BY <1>3, <1>a, Zenon DEF PlaybackProgress, RestOK
  <2> QED BY <2>3, <2>4
<1>4. CASE EmptyFrame
  <2>1. pending' \in [Events -> Nat]
    BY <1>4, <1>a, EnqueueType DEF EmptyFrame, CountsOK
  <2>2. StateOK' /\ CountsOK' /\ RequestOK'
    BY <1>4, <1>a, <2>1 DEF EmptyFrame, StateOK, CountsOK, RequestOK
  <2>3. RestOK'
    BY <1>4, <1>a, Zenon DEF EmptyFrame, RestOK
  <2> QED BY <2>2, <2>3
<1>5. ASSUME NEW e \in Commands, Key(e)
      PROVE  StateOK' /\ CountsOK' /\ RequestOK' /\ RestOK'
  <2>1. pending' \in [Events -> Nat]
    BY <1>5, <1>a, EnqueueType DEF Key, CountsOK
  <2>2. StateOK' /\ CountsOK' /\ RequestOK'
    BY <1>5, <1>a, <2>1 DEF Key, StateOK, CountsOK, RequestOK
  <2>3. RestOK'
    BY <1>5, <1>a, <1>b, Zenon DEF Key, RestOK
  <2> QED BY <2>2, <2>3
<1>6. ASSUME NEW e \in Events, Handle(e)
      PROVE  StateOK' /\ CountsOK' /\ RequestOK' /\ RestOK'
  <2>1. pending' \in [Events -> Nat]
    BY <1>6, <1>a DEF Handle, Dequeue, CountsOK
  <2>2. SeekTarget(e) \in -1..(Duration + 1)
    BY <1>a DEF SeekTarget, StateOK, State
  <2>3. [event |-> e, phase |-> "sent", age |-> 0, seek |-> SeekTarget(e),
         answer |-> Empty, fresh |-> "no"] \in Request
    BY <2>2, EmptyType DEF Request, Fresh
  <2>4. request' \in [Slots -> Request]
    BY <1>6, <1>a, <2>3 DEF Handle, RequestOK
  <2>5. StateOK' /\ CountsOK' /\ RequestOK'
    BY <1>6, <1>a, <2>1, <2>4 DEF Handle, StateOK, CountsOK, RequestOK
  <2>6. RestOK'
    BY <1>6, <1>a, Zenon DEF Handle, RestOK
  <2> QED BY <2>5, <2>6
<1>7. ASSUME NEW s \in Slots,
             ServeFetch(s) \/ ServeCommand(s) \/ Lose(s) \/ CompleteFetch(s) \/ CompleteCommand(s)
      PROVE  StateOK' /\ CountsOK' /\ RequestOK' /\ RestOK'
  <2>a. request[s] \in Request
    BY <1>a DEF RequestOK
  <2>1. CASE ServeFetch(s)
    <3>1. [track |-> server.track, progress |-> Reported, playing |-> server.playing] \in State
      BY <1>a DEF StateOK, Server, State, Reported
    <3> DEFINE answered == Served(request[s],
                 [track |-> server.track, progress |-> Reported, playing |-> server.playing],
                 IF server.playing THEN "yes" ELSE "no")
    <3>5. (IF server.playing THEN "yes" ELSE "no") \in Fresh
      BY DEF Fresh
    <3>6. answered \in Request
      BY <2>a, <3>1, <3>5, ServedType
    <3>7. request' = [request EXCEPT ![s] = answered]
      BY <2>1 DEF ServeFetch
    <3> HIDE DEF answered
    <3>2. request' \in [Slots -> Request]
      BY <3>6, <3>7, <1>a DEF RequestOK
    <3>3. StateOK' /\ CountsOK' /\ RequestOK'
      BY <2>1, <1>a, <3>2 DEF ServeFetch, StateOK, CountsOK, RequestOK
    <3>4. RestOK'
      BY <2>1, <1>a, Zenon DEF ServeFetch, RestOK
    <3> QED BY <3>3, <3>4
  <2>2. CASE ServeCommand(s)
    <3>1. PICK after \in Executed(request[s]), reported \in BOOLEAN, how \in Fresh :
             /\ server' = after /\ fresh' = Outdated(fresh, how)
             /\ request' = [OutdatedRequests(how) EXCEPT ![s] = Served(@, Empty, "no")]
             /\ pending' = IF reported /\ after # server THEN EnqueueAnd(Fetch, pending)
                           ELSE pending
      BY <2>2 DEF ServeCommand, Fresh
    <3>2. OutdatedRequests(how) \in [Slots -> Request] /\ fresh' \in Fresh
      BY <3>1, <1>a, OutdatedType DEF RestOK
    <3> DEFINE others == OutdatedRequests(how)
               executed == Served(others[s], Empty, "no")
    <3>7. executed \in Request
      BY <3>2, ServedType, EmptyType DEF Fresh
    <3>8. request' = [others EXCEPT ![s] = executed]
      BY <3>1, <3>2
    <3> HIDE DEF others, executed
    <3>9. others \in [Slots -> Request]
      BY <3>2 DEF others
    <3>3. request' \in [Slots -> Request]
      BY <3>7, <3>8, <3>9
    <3>4. pending' \in [Events -> Nat] /\ server' \in Server
      BY <3>1, <1>a, EnqueueType DEF CountsOK, Executed
    <3>5. StateOK' /\ CountsOK' /\ RequestOK'
      BY <2>2, <1>a, <3>3, <3>4 DEF ServeCommand, StateOK, CountsOK, RequestOK
    <3>6. RestOK'
      BY <2>2, <1>a, <3>2, Zenon DEF ServeCommand, RestOK
    <3> QED BY <3>5, <3>6
  <2>3. CASE Lose(s)
    <3>1. request' \in [Slots -> Request]
      BY <2>3, <1>a, <2>a DEF Lose, RequestOK, Request, Fresh
    <3>2. failures' \in 0..MaxFailures
      BY <2>3, <1>a DEF Lose, RestOK
    <3>3. StateOK' /\ CountsOK' /\ RequestOK'
      BY <2>3, <1>a, <3>1 DEF Lose, StateOK, CountsOK, RequestOK
    <3>4. RestOK'
      BY <2>3, <1>a, <3>2, Zenon DEF Lose, RestOK
    <3> QED BY <3>3, <3>4
  <2>4. CASE CompleteFetch(s)
    <3>1. /\ local' \in State /\ elapsed' \in 0..(Duration + 1)
          /\ fresh' \in Fresh /\ lag' \in 0..MaxLag
      BY <2>4, <2>a, EmptyType DEF CompleteFetch, Request, TimeUpdated
    <3>2. request' \in [Slots -> Request]
      BY <2>4, <1>a, EmptyType DEF CompleteFetch, RequestOK
    <3>3. StateOK' /\ CountsOK' /\ RequestOK'
      BY <2>4, <1>a, <3>1, <3>2 DEF CompleteFetch, StateOK, CountsOK, RequestOK
    <3>4. RestOK'
      BY <2>4, <1>a, <3>1, Zenon DEF CompleteFetch, RestOK
    <3> QED BY <3>3, <3>4
  <2>5. CASE CompleteCommand(s)
    <3>1. local' \in State
      BY <2>5, <1>a, Zenon DEF CompleteCommand, StateOK, State
    <3>2. request' \in [Slots -> Request]
      BY <2>5, <1>a, EmptyType DEF CompleteCommand, RequestOK
    <3>3. StateOK' /\ CountsOK' /\ RequestOK'
      BY <2>5, <1>a, <3>1, <3>2 DEF CompleteCommand, StateOK, CountsOK, RequestOK
    <3>4. fresh' \in Fresh
      BY <2>5, <1>a DEF CompleteCommand, RestOK, Fresh
    <3>5. RestOK'
      BY <2>5, <1>a, <3>4, Zenon DEF CompleteCommand, RestOK
    <3> QED BY <3>3, <3>5
  <2> QED BY <1>7, <2>1, <2>2, <2>3, <2>4, <2>5
<1>8. CASE UNCHANGED vars
  BY <1>8, <1>a DEF vars, StateOK, CountsOK, RequestOK, RestOK
<1> QED BY <1>1, <1>2, <1>3, <1>4, <1>5, <1>6, <1>7, <1>8 DEF Next

-----------------------------------------------------------------------------
(* What each step does to the answers and the clock.                       *)

LEMMA OutdatedFacts ==
  ASSUME TypeOK, NEW how \in Fresh, NEW s \in Slots
  PROVE  LET r == OutdatedRequests(how)[s] IN
         /\ r.fresh = "yes" => request[s].fresh = "yes" /\ how = "yes"
         /\ r.phase = request[s].phase /\ r.event = request[s].event
         /\ r.age = request[s].age /\ r.answer = request[s].answer
BY TypeParts DEF OutdatedRequests, Outdated, RequestOK, Request

(* A tick that leaves the track playing moves it on by one. *)
LEMMA TickFacts ==
  ASSUME TypeOK, Tick
  PROVE  /\ fresh' = "yes" => fresh = "yes" /\ ~Ends(server')
         /\ \A s \in Slots : request'[s].fresh = "yes" =>
              /\ request[s].fresh = "yes" /\ ~Ends(server')
              /\ request'[s].phase = request[s].phase /\ request'[s].event = request[s].event
              /\ request'[s].answer = request[s].answer
              /\ request[s].phase # "free" => request'[s].age = request[s].age + 1
         /\ server.playing /\ ~Ends(server') =>
              server'.playing /\ server'.pos = server.pos + 1
         /\ local' = local /\ lag' = lag
<1> DEFINE how == IF Ends(server') THEN "ended" ELSE "yes"
<1>1. how \in Fresh /\ (how = "yes" => ~Ends(server'))
  BY DEF Fresh
<1>2. fresh' = Outdated(fresh, how) /\ request' = [s \in Slots |-> Aged(OutdatedRequests(how)[s])]
  BY DEF Tick
<1>3. server.playing /\ ~Ends(server') => server'.playing /\ server'.pos = server.pos + 1
  BY TypeParts DEF Tick, AfterTick, Ends, StateOK, Server
<1>4. local' = local /\ lag' = lag
  BY DEF Tick
<1> HIDE DEF how
<1>5. fresh' = "yes" => fresh = "yes" /\ ~Ends(server')
  BY <1>1, <1>2 DEF Outdated
<1>6. ASSUME NEW s \in Slots, request'[s].fresh = "yes"
      PROVE  /\ request[s].fresh = "yes" /\ ~Ends(server')
             /\ request'[s].phase = request[s].phase /\ request'[s].event = request[s].event
             /\ request'[s].answer = request[s].answer
             /\ request[s].phase # "free" => request'[s].age = request[s].age + 1
  <2> DEFINE r == OutdatedRequests(how)[s]
  <2>1. r \in Request
    BY <1>1, OutdatedType
  <2>2. request'[s] = Aged(r)
    BY <1>2
  <2>3. /\ r.fresh = "yes" => request[s].fresh = "yes" /\ how = "yes"
        /\ r.phase = request[s].phase /\ r.event = request[s].event
        /\ r.age = request[s].age /\ r.answer = request[s].answer
    BY <1>1, OutdatedFacts
  <2> HIDE DEF r
  <2>4. /\ Aged(r).fresh = r.fresh /\ Aged(r).phase = r.phase /\ Aged(r).event = r.event
        /\ Aged(r).answer = r.answer /\ (r.phase # "free" => Aged(r).age = r.age + 1)
    BY <2>1 DEF Aged, Request
  <2> QED BY <1>1, <1>6, <2>2, <2>3, <2>4
<1> QED BY <1>3, <1>4, <1>5, <1>6

LEMMA LocalLateStep == IInv /\ [Next]_vars => LocalLate'
<1> SUFFICES ASSUME IInv, [Next]_vars, fresh' = "yes"
             PROVE  /\ server'.playing /\ local'.track \in Tracks
                    /\ Total' + lag' <= server'.pos
                    /\ local'.progress < Duration /\ elapsed' <= Duration
                       => Total' + lag' = server'.pos
  BY DEF LocalLate
<1>a. TypeOK /\ StateOK /\ CountsOK /\ RequestOK /\ RestOK /\ LocalLate
  BY TypeParts DEF IInv
<1>b. local.progress \in Nat /\ elapsed \in Nat /\ lag \in Nat /\ server.pos \in Nat
  BY <1>a DEF StateOK, State, Server, RestOK
<1>0. ASSUME fresh = "yes", server' = server, local' = local, elapsed' = elapsed, lag' = lag
      PROVE  /\ server'.playing /\ local'.track \in Tracks
             /\ Total' + lag' <= server'.pos
             /\ local'.progress < Duration /\ elapsed' <= Duration
                => Total' + lag' = server'.pos
  BY <1>0, <1>a DEF LocalLate, Total
<1>1. CASE Tick
  <2>1. fresh = "yes" /\ ~Ends(server') /\ local' = local /\ lag' = lag
    BY <1>1, <1>a, TickFacts
  <2>2. server.playing /\ local.track \in Tracks /\ Total + lag <= server.pos
        /\ (local.progress < Duration /\ elapsed <= Duration => Total + lag = server.pos)
    BY <2>1, <1>a DEF LocalLate
  <2>3. server'.playing /\ server'.pos = server.pos + 1
    BY <1>1, <1>a, <2>1, <2>2, TickFacts
  <2>4. elapsed' = IF elapsed <= Duration THEN elapsed + 1 ELSE elapsed
    BY <1>1 DEF Tick
  <2> QED BY <2>1, <2>2, <2>3, <2>4, <1>b DEF Total
<1>2. ASSUME NEW after \in Server, NEW reported \in BOOLEAN, ChangedElsewhere(after, reported)
      PROVE  FALSE
  BY <1>2, <1>a DEF ChangedElsewhere, Outdated
<1>3. CASE PlaybackProgress \/ EmptyFrame
  BY <1>3, <1>0 DEF PlaybackProgress, EmptyFrame
<1>4. CASE \E e \in Commands : Key(e)
  BY <1>4, <1>0 DEF Key
<1>5. CASE \E e \in Events : Handle(e)
  BY <1>5, <1>0 DEF Handle
<1>6. ASSUME NEW s \in Slots, ServeFetch(s) \/ Lose(s)
      PROVE  fresh = "yes" /\ server' = server /\ local' = local /\ elapsed' = elapsed /\ lag' = lag
  BY <1>6 DEF ServeFetch, Lose
<1>7. ASSUME NEW s \in Slots, ServeCommand(s)
      PROVE  fresh = "yes" /\ server' = server /\ local' = local /\ elapsed' = elapsed /\ lag' = lag
  BY <1>7 DEF ServeCommand, Outdated
<1>8. ASSUME NEW s \in Slots, CompleteFetch(s)
      PROVE  /\ server'.playing /\ local'.track \in Tracks
             /\ Total' + lag' <= server'.pos
             /\ local'.progress < Duration /\ elapsed' <= Duration
                => Total' + lag' = server'.pos
  <2>1. request[s].fresh = "yes" /\ AnswerLate(s)
    BY <1>8 DEF CompleteFetch, IInv
  <2>2. /\ server.playing /\ request[s].answer.track \in Tracks /\ request[s].phase = "served"
        /\ Late(request[s].answer.progress, request[s].age)
    BY <2>1 DEF AnswerLate
  <2>3. local' = request[s].answer /\ elapsed' = 0 /\ lag' = request[s].age /\ server' = server
    BY <1>8, <2>2 DEF CompleteFetch, TimeUpdated
  <2>4. request[s].answer.progress \in Nat /\ request[s].age \in Nat
    BY <1>a DEF RequestOK, Request, State
  <2> QED BY <2>2, <2>3, <2>4, <1>b DEF Total, Late
<1>9. ASSUME NEW s \in Slots, CompleteCommand(s)
      PROVE  fresh = "yes" /\ server' = server /\ local' = local /\ elapsed' = elapsed /\ lag' = lag
  BY <1>9 DEF CompleteCommand
<1>10. CASE UNCHANGED vars
  BY <1>10, <1>0 DEF vars
<1> QED BY <1>0, <1>1, <1>2, <1>3, <1>4, <1>5, <1>6, <1>7, <1>8, <1>9, <1>10 DEF Next

LEMMA AnswerLateStep ==
  ASSUME IInv, [Next]_vars, NEW s \in Slots
  PROVE  AnswerLate(s)'
<1> SUFFICES ASSUME request'[s].fresh = "yes"
             PROVE  /\ request'[s].phase = "served" /\ request'[s].event = Fetch
                    /\ server'.playing /\ request'[s].answer.track \in Tracks
                    /\ Late(request[s].answer.progress, request[s].age)'
  BY DEF AnswerLate
<1>a. TypeOK /\ StateOK /\ RequestOK
  BY TypeParts DEF IInv
<1>b. /\ request[s].answer.progress \in Nat /\ request[s].age \in Nat /\ server.pos \in Nat
      /\ server \in Server /\ request[s] \in Request
  BY <1>a DEF RequestOK, Request, State, StateOK, Server
<1>c. request[s].fresh = "yes" =>
      /\ request[s].phase = "served" /\ request[s].event = Fetch
      /\ server.playing /\ request[s].answer.track \in Tracks
      /\ Late(request[s].answer.progress, request[s].age)
  BY DEF IInv, AnswerLate
<1>0. ASSUME server' = server, request'[s] = request[s]
      PROVE  /\ request'[s].phase = "served" /\ request'[s].event = Fetch
             /\ server'.playing /\ request'[s].answer.track \in Tracks
             /\ Late(request[s].answer.progress, request[s].age)'
  BY <1>0, <1>c DEF Late
<1>1. CASE Tick
  <2>1. /\ request[s].fresh = "yes" /\ ~Ends(server')
        /\ request'[s].phase = request[s].phase /\ request'[s].event = request[s].event
        /\ request'[s].answer = request[s].answer
        /\ request[s].phase # "free" => request'[s].age = request[s].age + 1
    BY <1>1, <1>a, TickFacts
  <2>2. server.playing /\ request[s].phase = "served"
        /\ Late(request[s].answer.progress, request[s].age)
    BY <2>1, <1>c
  <2>3. server'.playing /\ server'.pos = server.pos + 1
    BY <1>1, <1>a, <2>1, <2>2, TickFacts
  <2>4. Late(request[s].answer.progress, request[s].age)'
    BY <2>1, <2>2, <2>3, <1>b DEF Late
  <2> QED BY <2>1, <2>3, <2>4, <1>c
<1>2. ASSUME NEW after \in Server, NEW reported \in BOOLEAN, ChangedElsewhere(after, reported)
      PROVE  FALSE
  BY <1>2, <1>a, OutdatedFacts DEF ChangedElsewhere, Fresh
<1>3. CASE PlaybackProgress \/ EmptyFrame \/ \E e \in Commands : Key(e)
  BY <1>3, <1>0 DEF PlaybackProgress, EmptyFrame, Key
<1>4. ASSUME NEW e \in Events, Handle(e)
      PROVE  server' = server /\ request'[s] = request[s]
  BY <1>4, <1>a DEF Handle, RequestOK
<1>5. ASSUME NEW t \in Slots, ServeFetch(t)
      PROVE  /\ request'[s].phase = "served" /\ request'[s].event = Fetch
             /\ server'.playing /\ request'[s].answer.track \in Tracks
             /\ Late(request[s].answer.progress, request[s].age)'
  <2>1. CASE t = s
    <3>1. request'[s] = Served(request[s],
             [track |-> server.track, progress |-> Reported, playing |-> server.playing],
             IF server.playing THEN "yes" ELSE "no")
      BY <1>5, <2>1, <1>a DEF ServeFetch, RequestOK
    <3>2. request'[s].phase = "served" /\ request'[s].event = Fetch
      BY <1>5, <2>1, <3>1 DEF Served, ServeFetch
    <3>3. server'.playing /\ server' = server
      BY <1>5, <3>1 DEF Served, ServeFetch
    <3>4. request'[s].answer.track \in Tracks /\ request'[s].answer.progress = Reported
          /\ request'[s].age = 0
      BY <3>1, <1>b DEF Served, Server
    <3>5. Late(request[s].answer.progress, request[s].age)'
      BY <3>3, <3>4, <1>b DEF Late, Reported
    <3> QED BY <3>2, <3>3, <3>4, <3>5
  <2>2. CASE t # s
    <3>1. server' = server /\ request'[s] = request[s]
      BY <1>5, <2>2, <1>a DEF ServeFetch, RequestOK
    <3> QED BY <3>1, <1>0
  <2> QED BY <2>1, <2>2
<1>6. ASSUME NEW t \in Slots, Lose(t)
      PROVE  server' = server /\ request'[s] = request[s]
  <2>1. t # s
    <3> SUFFICES ASSUME t = s PROVE FALSE
      OBVIOUS
    <3>1. request'[s] = [request[s] EXCEPT !.phase = "lost", !.fresh = "no"]
      BY <1>6, <1>a DEF Lose, RequestOK
    <3>2. request'[s].fresh = "no"
      BY <3>1, <1>b DEF Request
    <3> QED BY <3>2
  <2> QED BY <1>6, <2>1, <1>a DEF Lose, RequestOK
<1>7. ASSUME NEW t \in Slots, ServeCommand(t)
      PROVE  /\ request'[s].phase = "served" /\ request'[s].event = Fetch
             /\ server'.playing /\ request'[s].answer.track \in Tracks
             /\ Late(request[s].answer.progress, request[s].age)'
  <2>1. PICK how \in Fresh :
           /\ how = "yes" => server' = server
           /\ request' = [OutdatedRequests(how) EXCEPT ![t] = Served(@, Empty, "no")]
    BY <1>7 DEF ServeCommand, Fresh
  <2>2. OutdatedRequests(how) \in [Slots -> Request]
    BY <2>1, <1>a, OutdatedType
  <2>3. t # s
    <3> SUFFICES ASSUME t = s PROVE FALSE
      OBVIOUS
    <3>1. request'[s] = Served(OutdatedRequests(how)[s], Empty, "no")
      BY <2>1, <2>2
    <3> QED BY <3>1 DEF Served
  <2>4. request'[s] = OutdatedRequests(how)[s]
    BY <2>1, <2>2, <2>3
  <2>5. request[s].fresh = "yes" /\ how = "yes"
    BY <2>1, <2>4, <1>a, OutdatedFacts
  <2>6. OutdatedRequests(how)[s] = request[s]
    BY <2>5, <1>a, <1>b DEF OutdatedRequests, Outdated, Request
  <2> QED BY <2>1, <2>4, <2>5, <2>6, <1>0
<1>8. ASSUME NEW t \in Slots, CompleteFetch(t) \/ CompleteCommand(t)
      PROVE  server' = server /\ request'[s] = request[s]
  <2>1. t # s
    BY <1>8, <1>a DEF CompleteFetch, CompleteCommand, Free, RequestOK
  <2> QED BY <1>8, <2>1, <1>a DEF CompleteFetch, CompleteCommand, RequestOK
<1>9. CASE UNCHANGED vars
  BY <1>9, <1>0 DEF vars
<1> QED BY <1>0, <1>1, <1>2, <1>3, <1>4, <1>5, <1>6, <1>7, <1>8, <1>9 DEF Next

LEMMA CountsStep == IInv /\ [Next]_vars => Counts'
<1> SUFFICES ASSUME IInv, [Next]_vars PROVE Counts'
  OBVIOUS
<1>a. TypeOK /\ StateOK /\ CountsOK /\ RequestOK /\ Counts
  BY TypeParts DEF IInv
<1>b. /\ local.progress \in Nat /\ elapsed \in Nat /\ asked \in Nat
      /\ queryCount \in 0..2 /\ LocalDuration \in Nat
  BY <1>a DEF StateOK, State, CountsOK, Counts, LocalDuration
<1>0. ASSUME queryCount' = queryCount, asked' = asked, local'.track = local.track,
             local'.progress = local.progress, elapsed' \in Nat, elapsed' >= elapsed
      PROVE  Counts'
  <2>1. Total' >= Total /\ LocalDuration' = LocalDuration /\ Total \in Nat /\ Total' \in Nat
    BY <1>0, <1>b DEF Total, LocalDuration
  <2> QED BY <2>1, <1>0, <1>a, <1>b DEF Counts
<1>1. CASE Tick
  BY <1>1, <1>0, <1>b DEF Tick
<1>2. ASSUME NEW after \in Server, NEW reported \in BOOLEAN, ChangedElsewhere(after, reported)
      PROVE  Counts'
  BY <1>2, <1>0, <1>b DEF ChangedElsewhere
<1>3. CASE PlaybackProgress
  <2>1. Total' = Total /\ LocalDuration' = LocalDuration /\ Total \in Nat
    BY <1>3, <1>b DEF PlaybackProgress, Total, LocalDuration
  <2>2. CASE Asks
    <3>1. asked' = asked + 1 /\ queryCount' = queryCount + 1 /\ queryCount < 2
          /\ Total > LocalDuration
      BY <1>3, <2>2, <1>b, <2>1 DEF PlaybackProgress, Asks
    <3> QED BY <2>1, <3>1, <1>a, <1>b DEF Counts
  <2>3. CASE ~Asks
    <3>1. /\ asked' = asked
          /\ \/ queryCount' = queryCount
             \/ queryCount' = 0 /\ Total < LocalDuration
      BY <1>3, <2>3 DEF PlaybackProgress
    <3> QED BY <2>1, <3>1, <1>a, <1>b DEF Counts
  <2> QED BY <2>2, <2>3
<1>4. CASE EmptyFrame
  BY <1>4, <1>0, <1>b DEF EmptyFrame
<1>5. ASSUME NEW e \in Events, Key(e) \/ Handle(e) PROVE Counts'
  BY <1>5, <1>0, <1>b DEF Key, Handle
<1>6. ASSUME NEW s \in Slots, ServeFetch(s) \/ ServeCommand(s) \/ Lose(s) PROVE Counts'
  BY <1>6, <1>0, <1>b DEF ServeFetch, ServeCommand, Lose
<1>7. ASSUME NEW s \in Slots, CompleteFetch(s) PROVE Counts'
  <2>1. asked' = 0 /\ queryCount' = queryCount
    BY <1>7 DEF CompleteFetch
  <2> QED BY <2>1, <1>b DEF Counts
<1>8. ASSUME NEW s \in Slots, CompleteCommand(s) PROVE Counts'
  <2>1. local'.track = local.track /\ local'.progress = local.progress
    BY <1>8, <1>a DEF CompleteCommand, StateOK, State
  <2>2. queryCount' = queryCount /\ asked' = asked /\ elapsed' = elapsed
    BY <1>8 DEF CompleteCommand
  <2> QED BY <2>1, <2>2, <1>0, <1>b
<1>9. CASE UNCHANGED vars
  BY <1>9, <1>0, <1>b DEF vars
<1> QED BY <1>1, <1>2, <1>3, <1>4, <1>5, <1>6, <1>7, <1>8, <1>9 DEF Next

LEMMA Invariance == Spec => []IInv
<1>1. IInv /\ [Next]_vars => IInv'
  BY TypeStep, LocalLateStep, AnswerLateStep, CountsStep DEF IInv
<1> QED BY <1>1, InitInv, PTL DEF Spec

-----------------------------------------------------------------------------
(* Every variable keeps its type. *)
THEOREM ProgressTypeCorrectness == Spec => []TypeOK
<1>1. IInv => TypeOK
  BY DEF IInv
<1> QED BY <1>1, Invariance, PTL

(* The position shown is behind Spotify's by what the answer travelled,    *)
(* whatever the delays (spotifyData.cpp:15-26).                            *)
THEOREM ShownIsNeverAhead == Spec => []ShownIsLate
<1>1. IInv => ShownIsLate
  BY DEF IInv, LocalLate, ShownIsLate
<1> QED BY <1>1, Invariance, PTL

(* Frames make at most two requests per answer (spotifyData.cpp:28-33).    *)
THEOREM NoRequestFlood == Spec => []AsksTwice
<1>1. IInv => AsksTwice
  BY TypeParts DEF IInv, Counts, AsksTwice, CountsOK
<1> QED BY <1>1, Invariance, PTL

(* They are made after the track ended (spotifyData.cpp:30).               *)
THEOREM RequestsFollowTheEnd == Spec => AsksAfterTheEnd
<1> DEFINE Rightly == asked' > asked /\ fresh # "no" =>
                        fresh = "ended" \/ server.pos > Duration
<1>1. ASSUME IInv, [Next]_vars PROVE Rightly
  <2> SUFFICES ASSUME asked' > asked, fresh = "yes" PROVE server.pos > Duration
    BY <1>1, TypeParts DEF IInv, RestOK, Fresh
  <2>a. StateOK /\ CountsOK /\ RestOK
    BY <1>1, TypeParts DEF IInv
  <2>1. PlaybackProgress
    <3>1. asked \in Nat /\ asked' # asked /\ asked' # 0
      BY <2>a DEF CountsOK
    <3>2. ~Tick /\ ~EmptyFrame /\ ~UNCHANGED vars
      BY <3>1 DEF Tick, EmptyFrame, vars
    <3>3. \A after, reported : ~ChangedElsewhere(after, reported)
      BY <3>1 DEF ChangedElsewhere
    <3>4. \A e : ~Key(e) /\ ~Handle(e)
      BY <3>1 DEF Key, Handle
    <3>5. \A s : /\ ~ServeFetch(s) /\ ~ServeCommand(s) /\ ~Lose(s)
                 /\ ~CompleteFetch(s) /\ ~CompleteCommand(s)
      BY <3>1 DEF ServeFetch, ServeCommand, Lose, CompleteFetch, CompleteCommand
    <3> QED BY <1>1, <3>2, <3>3, <3>4, <3>5 DEF Next
  <2>2. Total > LocalDuration
    BY <2>1, <2>a DEF PlaybackProgress, Asks, CountsOK
  <2>3. local.track \in Tracks /\ Total + lag <= server.pos
    BY <1>1 DEF IInv, LocalLate
  <2>4. local.progress \in Nat /\ elapsed \in Nat /\ lag \in Nat /\ server.pos \in Nat
    BY <2>a DEF StateOK, State, Server, RestOK
  <2> QED BY <2>2, <2>3, <2>4 DEF LocalDuration, Total
<1> QED BY <1>1, Invariance, PTL DEF Spec, AsksAfterTheEnd
=============================================================================
