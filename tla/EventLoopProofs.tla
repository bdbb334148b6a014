-------------------------- MODULE EventLoopProofs --------------------------
(***************************************************************************)
(* Proofs about EventLoop for any number of player threads, any inputs and *)
(* any bounds.                                                             *)
(***************************************************************************)
EXTENDS EventLoop, TLAPS

TokenWithLogin == hasToken = isLogined
MainScreenAuthorised == ui = "main" => hasToken
AttemptsLeft == /\ boot \in {"getDevices", "sleep"} => attempt < MaxRetries
                /\ boot = "sleep" => ~devices

(* Requests carry the token; only an authorised answer names a device, so   *)
(* the volume keys send nothing before.                                    *)
RequestsNeedToken == (\E k \in Requests : inflight[k] > 0) => hasToken
DevicesNeedToken ==
    /\ supportsVolume => hasToken
    /\ boot \in {"getDevices", "transfer", "getTrack", "sleep"} => hasToken

(* Lookups are asked for by the main screen alone: none is on its way to    *)
(* librespot's strand before a login.                                      *)
LookupsNeedToken ==
    ~hasToken => /\ lyricsJobs = 0
                 /\ \A p \in Producers : ~Queued(p, "GetLyrics")

(* The part of the inductive invariant that does not look into the queue,  *)
(* and the part that does.                                                 *)
LocalInv == /\ TypeOK /\ DevicesGuard /\ RequestsNeedToken
            /\ TokenWithLogin /\ MainScreenAuthorised /\ AttemptsLeft
            /\ DevicesNeedToken
QueueInv == UiWaitsForToken /\ OneLogin /\ LookupsNeedToken
IInv == LocalInv /\ QueueInv

USE ThreadsAssumption, InputsAssumption, BoundsAssumption

-----------------------------------------------------------------------------
(* The queue. *)

LEMMA InputsAreEvents == /\ UiInputs \subseteq Event \ {"Login"}
                         /\ DbusInputs \subseteq
                              Event \ ({"Login", "GetLyrics"} \cup TrackEvents)
                         /\ PlayerEvents \subseteq Event \ {"Login", "GetLyrics"}
BY DEF UiEvents, DbusEvents, PlayerEvents, Event, ApiEvents, TrackEvents,
       FetchEvents, PlayerCommands, VolumeEvents, DroppedEvents

(* Appending an event keeps the queue well typed and adds nothing else. *)
LEMMA EnqueueType ==
    ASSUME TypeOK, NEW p \in Producers, NEW e \in Event, Enqueue(p, e)
    PROVE  queue' \in [Producers -> Seq(Event)] /\ inputs' \in 0..MaxInputs
BY DEF TypeOK, Enqueue

(* Taking the head of a queue keeps it well typed. *)
LEMMA DequeueType ==
    ASSUME TypeOK, NEW p \in Producers, NEW e, Dequeues(p, e)
    PROVE  queue' \in [Producers -> Seq(Event)] /\ inputs' = inputs
BY DEF TypeOK, Dequeues

-----------------------------------------------------------------------------
(* The local part of the invariant. *)

LEMMA LocalInit == Init => LocalInv
<1> SUFFICES ASSUME Init PROVE LocalInv
  OBVIOUS
<1>1. queue \in [Producers -> Seq(Event)]
  <2>1. <<"Login">> \in Seq(Event) /\ << >> \in Seq(Event)
    BY DEF Event
  <2> QED BY <2>1 DEF Init
<1>2. inflight \in [Requests -> Nat] /\ \A k \in Requests : inflight[k] = 0
  BY DEF Init
<1>3. attempt = 0 /\ 0 \in 0..MaxRetries /\ 0 < MaxRetries /\ 0 \in 0..MaxInputs
  BY DEF Init
<1>4. TypeOK
  BY <1>1, <1>2, <1>3 DEF Init, TypeOK
<1>5. DevicesGuard /\ TokenWithLogin /\ MainScreenAuthorised
  BY DEF Init, DevicesGuard, TokenWithLogin, MainScreenAuthorised
<1>6. RequestsNeedToken
  BY <1>2 DEF Init, RequestsNeedToken
<1>7. AttemptsLeft /\ DevicesNeedToken
  BY DEF Init, AttemptsLeft, DevicesNeedToken
<1> QED BY <1>4, <1>5, <1>6, <1>7 DEF LocalInv

LEMMA LocalStep == LocalInv /\ OneLogin /\ [Next]_vars => LocalInv'
<1> SUFFICES ASSUME LocalInv, OneLogin, [Next]_vars PROVE LocalInv'
  OBVIOUS
<1> USE DEF LocalInv, uiVars, bootVars, apiVars, jobVars, DevicesGuard,
            RequestsNeedToken, TokenWithLogin, MainScreenAuthorised, AttemptsLeft,
            DevicesNeedToken
<1>1. CASE UiQuit
  <2>1. Main \in Producers /\ "Exit" \in Event
    BY DEF Producers, Event
  <2>2. queue' \in [Producers -> Seq(Event)] /\ inputs' \in 0..MaxInputs
    BY <1>1, <2>1, EnqueueType DEF UiQuit
  <2> QED BY <1>1, <2>2 DEF UiQuit, TypeOK
<1>2. ASSUME NEW e \in UiInputs, UiCommand(e) PROVE LocalInv'
  <2>1. queue' \in [Producers -> Seq(Event)] /\ inputs' \in 0..MaxInputs
    BY <1>2, InputsAreEvents, EnqueueType DEF UiCommand, Producers
  <2> QED BY <1>2, <2>1 DEF UiCommand, TypeOK
<1>3. CASE ProcRefresh
  <2>1. Main \in Producers /\ "Refresh" \in Event
    BY DEF Producers, Event
  <2>2. queue' \in [Producers -> Seq(Event)] /\ inputs' \in 0..MaxInputs
    BY <1>3, <2>1, EnqueueType DEF ProcRefresh
  <2> QED BY <1>3, <2>2 DEF ProcRefresh, TypeOK
<1>4. ASSUME NEW e \in DbusInputs, DbusCall(e) PROVE LocalInv'
  <2>1. queue' \in [Producers -> Seq(Event)] /\ inputs' \in 0..MaxInputs
    BY <1>4, InputsAreEvents, EnqueueType DEF DbusCall, Producers
  <2> QED BY <1>4, <2>1 DEF DbusCall, TypeOK
<1>5. ASSUME NEW p \in Players, NEW e \in PlayerEvents, PlayerCallback(p, e)
      PROVE  LocalInv'
  <2>1. queue' \in [Producers -> Seq(Event)] /\ inputs' \in 0..MaxInputs
    BY <1>5, InputsAreEvents, EnqueueType DEF PlayerCallback, Producers
  <2> QED BY <1>5, <2>1 DEF PlayerCallback, TypeOK
<1>6. CASE UiFrame
  BY <1>6 DEF UiFrame, UiLeaveLogin, UiLeaveMain, LeavesLoginLoop, TypeOK
<1>7. CASE Handle
  <2>1. PICK p \in Producers :
            \/ HandleLogin(p) \/ HandleExit(p) \/ HandleLyrics(p)
            \/ \E e \in ApiEvents : HandleApi(p, e)
            \/ \E e \in VolumeEvents : HandleVolume(p, e)
            \/ \E e \in DroppedEvents \cup {"Refresh"} : HandleNothing(p, e)
    BY <1>7 DEF Handle
  <2>2. queue' \in [Producers -> Seq(Event)] /\ inputs' = inputs
    BY <2>1, DequeueType DEF HandleLogin, HandleExit, HandleLyrics, HandleApi,
       HandleVolume, HandleNothing
  <2>3. ASSUME NEW k \in Requests, Send(k), UNCHANGED <<uiVars, bootVars, jobVars>>,
               UNCHANGED supportsVolume, mode = "running"
        PROVE  LocalInv'
    <3>1. CASE hasToken
      <4>1. /\ inflight' \in [Requests -> Nat]
            /\ \A m \in Requests : inflight'[m] >= inflight[m]
        BY <2>3, <3>1 DEF Send, TypeOK
      <4> QED BY <2>2, <2>3, <3>1, <4>1 DEF Send, TypeOK, Requests
    <3>2. CASE ~hasToken
      BY <2>2, <2>3, <3>2 DEF Send, TypeOK
    <3> QED BY <3>1, <3>2
  <2>4. CASE HandleLogin(p)
    <3>1. boot = "idle"
      <4>1. queue[p] \in Seq(Event) /\ queue[p] # << >> /\ queue[p][1] = "Login"
        BY <2>4 DEF HandleLogin, Dequeues, TypeOK
      <4>2. 1 \in DOMAIN queue[p]
        BY <4>1
      <4> QED BY <4>1, <4>2 DEF OneLogin
    <3> QED BY <2>2, <2>4, <3>1 DEF HandleLogin, Dequeues, TypeOK
  <2>5. CASE HandleExit(p)
    BY <2>2, <2>5 DEF HandleExit, RunExitHandlers, TypeOK
  <2>6. CASE HandleLyrics(p)
    BY <2>2, <2>6 DEF HandleLyrics, TypeOK
  <2>7. ASSUME NEW e \in ApiEvents, HandleApi(p, e) PROVE LocalInv'
    <3>1. RequestOf(e) \in Requests
      BY DEF RequestOf, Requests
    <3> QED BY <2>3, <2>7, <3>1 DEF HandleApi, Dequeues
  <2>8. ASSUME NEW e \in VolumeEvents, HandleVolume(p, e) PROVE LocalInv'
    <3>1. CASE supportsVolume
      BY <2>3, <2>8, <3>1 DEF HandleVolume, Dequeues, Requests
    <3>2. CASE ~supportsVolume
      BY <2>2, <2>8, <3>2 DEF HandleVolume, TypeOK
    <3> QED BY <3>1, <3>2
  <2>9. ASSUME NEW e \in DroppedEvents \cup {"Refresh"}, HandleNothing(p, e)
        PROVE  LocalInv'
    BY <2>2, <2>9 DEF HandleNothing, TypeOK
  <2> QED BY <2>1, <2>4, <2>5, <2>6, <2>7, <2>8, <2>9
<1>8. CASE Completion
  <2>1. ASSUME NEW k \in Requests, Completes(k) PROVE inflight' \in [Requests -> Nat]
    BY <2>1 DEF Completes, TypeOK
  <2>2. ASSUME NEW k \in Requests, Completes(k)
        PROVE  (\E m \in Requests : inflight'[m] > 0) => (\E m \in Requests : inflight[m] > 0)
    BY <2>2 DEF Completes, TypeOK
  <2>3. CASE TrackFetched
    BY <2>1, <2>2, <2>3 DEF TrackFetched, Completes, TypeOK, Requests
  <2>4. CASE NextTrackFetched
    BY <2>1, <2>2, <2>4 DEF NextTrackFetched, Completes, TypeOK, Requests
  <2>5. CASE OtherDone
    BY <2>1, <2>2, <2>5 DEF OtherDone, Completes, TypeOK, Requests
  <2>6. CASE VolumeSet
    <3>1. CASE LockedDevices
      BY <2>6, <3>1 DEF VolumeSet, LockedDevices, TypeOK
    <3>2. CASE ~LockedDevices
      BY <2>1, <2>2, <2>6, <3>2 DEF VolumeSet, Completes, TypeOK, Requests
    <3> QED BY <3>1, <3>2
  <2> QED BY <1>8, <2>3, <2>4, <2>5, <2>6 DEF Completion
<1>9. CASE Boot
  <2>1. CASE LoginSucceeds
    BY <2>1 DEF LoginSucceeds, BootAt, TypeOK
  <2>2. CASE BootFails
    BY <2>2 DEF BootFails, GuardsAfterFailure, TypeOK
  <2>3. ASSUME NEW found \in BOOLEAN, DevicesFetched(found) PROVE LocalInv'
    BY <2>3 DEF DevicesFetched, BootAt, LockedDevices, TypeOK
  <2>4. CASE Transferred
    BY <2>4 DEF Transferred, BootAt, TypeOK
  <2>5. CASE BootTrackFetched
    BY <2>5 DEF BootTrackFetched, BootAt, TypeOK
  <2>6. CASE RetryWakes
    <3>1. attempt' \in 0..MaxRetries
      BY <2>6 DEF RetryWakes, BootAt, TypeOK
    <3>2. CASE attempt' < MaxRetries
      BY <2>6, <3>1, <3>2 DEF RetryWakes, TriesAgain, BootAt, TypeOK
    <3>3. CASE ~(attempt' < MaxRetries)
      BY <2>6, <3>1, <3>3 DEF RetryWakes, TriesAgain, BootAt, RunExitHandlers, TypeOK
    <3> QED BY <3>2, <3>3
  <2> QED BY <1>9, <2>1, <2>2, <2>3, <2>4, <2>5, <2>6 DEF Boot
<1>10. CASE Strand
  BY <1>10 DEF Strand, BackendFails, BackendAuthenticates, BackendConnects,
     LyricsJobDone, LyricsJobAborts, StrandRuns, Alive, TypeOK
<1>11. CASE Join
  BY <1>11 DEF Join, TypeOK
<1>12. CASE UNCHANGED vars
  BY <1>12 DEF vars, TypeOK
<1> QED
  BY <1>1, <1>2, <1>3, <1>4, <1>5, <1>6, <1>7, <1>8, <1>9, <1>10, <1>11, <1>12
  DEF Next, Inputs

-----------------------------------------------------------------------------
(* The queued part of the invariant. *)

(* An appended event that is neither Login nor, before login, a lookup or  *)
(* an API command of the main thread preserves what the queue part says.   *)
LEMMA EnqueueStep ==
    ASSUME TypeOK, QueueInv, NEW p \in Producers, NEW e \in Event \ {"Login"},
           Enqueue(p, e), p = Main /\ e \in ApiEvents => hasToken,
           e = "GetLyrics" => hasToken,
           UNCHANGED <<hasToken, boot, lyricsJobs>>
    PROVE  QueueInv'
<1>1. \A q \in Producers : queue[q] \in Seq(Event)
  BY DEF TypeOK
<1>2. \A q \in Producers : q # p => queue'[q] = queue[q]
  BY DEF Enqueue, TypeOK
<1>3. queue'[p] = Append(queue[p], e)
  BY DEF Enqueue, TypeOK
<1>4. /\ DOMAIN queue'[p] = DOMAIN queue[p] \cup {Len(queue[p]) + 1}
      /\ \A i \in DOMAIN queue[p] : queue'[p][i] = queue[p][i]
      /\ queue'[p][Len(queue[p]) + 1] = e
  BY <1>1, <1>3
<1>5. UiWaitsForToken'
  <2> SUFFICES ASSUME ~hasToken, NEW a \in ApiEvents, NEW i \in DOMAIN queue'[Main],
                      queue'[Main][i] = a
               PROVE  FALSE
    BY DEF UiWaitsForToken, Queued
  <2>1. ~\E j \in DOMAIN queue[Main] : queue[Main][j] = a
    BY DEF QueueInv, UiWaitsForToken, Queued
  <2>2. CASE p = Main
    BY <1>4, <2>1, <2>2
  <2>3. CASE p # Main
    BY <1>2, <2>1, <2>3 DEF Producers
  <2> QED BY <2>2, <2>3
<1>6. OneLogin'
  <2> SUFFICES ASSUME NEW q \in Producers, NEW i \in DOMAIN queue'[q],
                      queue'[q][i] = "Login"
               PROVE  /\ boot = "idle" /\ q = Main
                      /\ \A j \in DOMAIN queue'[q] : queue'[q][j] = "Login" => j = i
    BY DEF OneLogin
  <2>1. CASE q = p
    BY <1>4, <2>1 DEF QueueInv, OneLogin
  <2>2. CASE q # p
    BY <1>2, <2>2 DEF QueueInv, OneLogin
  <2> QED BY <2>1, <2>2
<1>7. LookupsNeedToken'
  <2> SUFFICES ASSUME ~hasToken, NEW q \in Producers, NEW i \in DOMAIN queue'[q],
                      queue'[q][i] = "GetLyrics"
               PROVE  FALSE
    BY DEF QueueInv, LookupsNeedToken, Queued
  <2>1. ~\E j \in DOMAIN queue[q] : queue[q][j] = "GetLyrics"
    BY DEF QueueInv, LookupsNeedToken, Queued
  <2>2. CASE q = p
    BY <1>4, <2>1, <2>2
  <2>3. CASE q # p
    BY <1>2, <2>1, <2>3
  <2> QED BY <2>2, <2>3
<1> QED BY <1>5, <1>6, <1>7 DEF QueueInv

(* Taking an event out preserves it, if the token only appears and boot    *)
(* only changes when that event was Login.                                 *)
LEMMA DequeueStep ==
    ASSUME TypeOK, QueueInv, NEW p \in Producers, NEW e, Dequeues(p, e),
           hasToken' = hasToken, e # "Login" => boot' = boot,
           e # "GetLyrics" => lyricsJobs' = lyricsJobs
    PROVE  QueueInv'
<1>1. \A q \in Producers : queue[q] \in Seq(Event)
  BY DEF TypeOK
<1>2. \A q \in Producers : q # p => queue'[q] = queue[q]
  BY DEF Dequeues, TypeOK
<1>3. queue'[p] = Tail(queue[p]) /\ queue[p] # << >> /\ queue[p][1] = e
  BY <1>1 DEF Dequeues, TypeOK
<1>4. /\ 1 \in DOMAIN queue[p]
      /\ \A i \in DOMAIN queue'[p] :
            i + 1 \in DOMAIN queue[p] /\ i \in Nat \ {0} /\ queue'[p][i] = queue[p][i + 1]
  BY <1>1, <1>3
<1>5. UiWaitsForToken'
  <2> SUFFICES ASSUME ~hasToken, NEW a \in ApiEvents, NEW i \in DOMAIN queue'[Main],
                      queue'[Main][i] = a
               PROVE  FALSE
    BY DEF UiWaitsForToken, Queued
  <2>1. ~\E j \in DOMAIN queue[Main] : queue[Main][j] = a
    BY DEF QueueInv, UiWaitsForToken, Queued
  <2>2. CASE p = Main
    BY <1>4, <2>1, <2>2
  <2>3. CASE p # Main
    BY <1>2, <2>1, <2>3 DEF Producers
  <2> QED BY <2>2, <2>3
<1>6. OneLogin'
  <2> SUFFICES ASSUME NEW q \in Producers, NEW i \in DOMAIN queue'[q],
                      queue'[q][i] = "Login"
               PROVE  /\ boot' = "idle" /\ q = Main
                      /\ \A j \in DOMAIN queue'[q] : queue'[q][j] = "Login" => j = i
    BY DEF OneLogin
  <2>1. /\ boot = "idle" /\ q = Main
        /\ \A j \in DOMAIN queue'[q] : queue'[q][j] = "Login" => j = i
    <3>1. CASE q = p
      <4>1. i + 1 \in DOMAIN queue[p] /\ queue[p][i + 1] = "Login"
        BY <1>4, <3>1
      <4>2. /\ boot = "idle" /\ q = Main
            /\ \A j \in DOMAIN queue[p] : queue[p][j] = "Login" => j = i + 1
        BY <3>1, <4>1 DEF QueueInv, OneLogin
      <4>3. ASSUME NEW j \in DOMAIN queue'[p], queue'[p][j] = "Login" PROVE j = i
        <5>1. j + 1 \in DOMAIN queue[p] /\ queue[p][j + 1] = "Login"
          BY <1>4, <4>3
        <5>2. j + 1 = i + 1
          BY <4>2, <5>1
        <5> QED BY <1>4, <3>1, <5>2
      <4> QED BY <3>1, <4>2, <4>3
    <3>2. CASE q # p
      BY <1>2, <3>2 DEF QueueInv, OneLogin
    <3> QED BY <3>1, <3>2
  <2>2. e # "Login"
    <3>1. SUFFICES ASSUME e = "Login" PROVE FALSE
      OBVIOUS
    <3>2. p = Main /\ \A j \in DOMAIN queue[p] : queue[p][j] = "Login" => j = 1
      BY <1>3, <1>4, <3>1 DEF QueueInv, OneLogin
    <3>3. i + 1 \in DOMAIN queue[p] /\ queue[p][i + 1] = "Login" /\ i \in Nat \ {0}
      BY <1>4, <2>1, <3>2
    <3>4. i + 1 = 1
      BY <3>2, <3>3
    <3> QED BY <3>3, <3>4
  <2> QED BY <2>1, <2>2
<1>7. LookupsNeedToken'
  <2> SUFFICES ASSUME ~hasToken
               PROVE  /\ lyricsJobs' = 0
                      /\ \A q \in Producers : \A i \in DOMAIN queue'[q] :
                           queue'[q][i] # "GetLyrics"
    BY DEF LookupsNeedToken, Queued
  <2>1. /\ lyricsJobs = 0
        /\ \A q \in Producers : \A i \in DOMAIN queue[q] : queue[q][i] # "GetLyrics"
    BY DEF QueueInv, LookupsNeedToken, Queued
  <2>2. e # "GetLyrics"
    BY <1>3, <1>4, <2>1
  <2>3. ASSUME NEW q \in Producers, NEW i \in DOMAIN queue'[q]
        PROVE  queue'[q][i] # "GetLyrics"
    <3>1. CASE q = p
      BY <1>4, <2>1, <3>1
    <3>2. CASE q # p
      BY <1>2, <2>1, <2>3, <3>2
    <3> QED BY <3>1, <3>2
  <2> QED BY <2>1, <2>2, <2>3
<1> QED BY <1>5, <1>6, <1>7 DEF QueueInv

LEMMA QueueInit == Init => QueueInv
<1> SUFFICES ASSUME Init PROVE QueueInv
  OBVIOUS
<1>1. queue[Main] = <<"Login">> /\ \A q \in Producers : q # Main => queue[q] = << >>
  BY DEF Init, Producers
<1>2. "Login" \notin ApiEvents
  BY DEF ApiEvents, TrackEvents, FetchEvents, PlayerCommands
<1>3. UiWaitsForToken
  BY <1>1, <1>2 DEF UiWaitsForToken, Queued
<1>4. OneLogin
  <2>1. boot = "idle" /\ DOMAIN queue[Main] = {1}
    BY <1>1 DEF Init
  <2>2. \A q \in Producers : q # Main => DOMAIN queue[q] = {}
    BY <1>1
  <2> QED BY <2>1, <2>2 DEF OneLogin
<1>5. LookupsNeedToken
  BY <1>1 DEF Init, LookupsNeedToken, Queued
<1> QED BY <1>3, <1>4, <1>5 DEF QueueInv

LEMMA QueueStep == LocalInv /\ QueueInv /\ [Next]_vars => QueueInv'
<1> SUFFICES ASSUME LocalInv, QueueInv, [Next]_vars PROVE QueueInv'
  OBVIOUS
<1> USE DEF uiVars, bootVars, apiVars, jobVars
<1>1. TypeOK /\ MainScreenAuthorised /\ Main \in Producers
  BY DEF LocalInv, Producers
<1>2. ASSUME UNCHANGED <<queue, boot, hasToken>>, lyricsJobs = 0 => lyricsJobs' = 0
      PROVE  QueueInv'
  BY <1>2 DEF QueueInv, UiWaitsForToken, OneLogin, LookupsNeedToken, Queued
<1>3. ASSUME UNCHANGED <<queue, lyricsJobs>>, boot # "idle", hasToken => hasToken'
      PROVE  QueueInv'
  BY <1>3 DEF QueueInv, UiWaitsForToken, OneLogin, LookupsNeedToken, Queued
<1>4. CASE Inputs
  <2>1. CASE UiQuit
    <3>1. "Exit" \in Event \ {"Login"} /\ "Exit" \notin ApiEvents
      BY DEF Event, ApiEvents, TrackEvents, FetchEvents, PlayerCommands
    <3> QED BY <1>1, <2>1, <3>1, EnqueueStep DEF UiQuit
  <2>2. ASSUME NEW e \in UiInputs, UiCommand(e) PROVE QueueInv'
    BY <1>1, <2>2, EnqueueStep, InputsAreEvents DEF UiCommand, MainScreenAuthorised
  <2>3. CASE ProcRefresh
    <3>1. "Refresh" \in Event \ {"Login"} /\ "Refresh" \notin ApiEvents
      BY DEF Event, ApiEvents, TrackEvents, FetchEvents, PlayerCommands
    <3> QED BY <1>1, <2>3, <3>1, EnqueueStep DEF ProcRefresh
  <2>4. ASSUME NEW e \in DbusInputs, DbusCall(e) PROVE QueueInv'
    BY <1>1, <2>4, EnqueueStep, InputsAreEvents DEF DbusCall, Producers
  <2>5. ASSUME NEW p \in Players, NEW e \in PlayerEvents, PlayerCallback(p, e)
        PROVE  QueueInv'
    BY <1>1, <2>5, EnqueueStep, InputsAreEvents DEF PlayerCallback, Producers
  <2> QED BY <1>4, <2>1, <2>2, <2>3, <2>4, <2>5 DEF Inputs
<1>5. CASE Handle
  <2>1. PICK p \in Producers :
            \/ HandleLogin(p) \/ HandleExit(p) \/ HandleLyrics(p)
            \/ \E e \in ApiEvents : HandleApi(p, e)
            \/ \E e \in VolumeEvents : HandleVolume(p, e)
            \/ \E e \in DroppedEvents \cup {"Refresh"} : HandleNothing(p, e)
    BY <1>5 DEF Handle
  <2>2. PICK e : /\ Dequeues(p, e) /\ UNCHANGED hasToken
                 /\ e # "Login" => UNCHANGED boot
                 /\ e # "GetLyrics" => UNCHANGED lyricsJobs
    BY <2>1 DEF HandleLogin, HandleExit, HandleLyrics, HandleApi, HandleVolume,
       HandleNothing
  <2> QED BY <1>1, <2>2, DequeueStep
<1>6. CASE Boot
  <2>1. boot # "idle" /\ UNCHANGED <<queue, lyricsJobs>> /\ (hasToken => hasToken')
    BY <1>6 DEF Boot, BootAt, LoginSucceeds, BootFails, DevicesFetched, Transferred,
       BootTrackFetched, RetryWakes
  <2> QED BY <1>3, <2>1
<1>7. CASE UiFrame \/ Completion \/ Strand \/ Join \/ UNCHANGED vars
  <2>1. UNCHANGED <<queue, boot, hasToken>> /\ (lyricsJobs = 0 => lyricsJobs' = 0)
    BY <1>7 DEF UiFrame, UiLeaveLogin, UiLeaveMain, Completion, TrackFetched,
       NextTrackFetched, VolumeSet, OtherDone, Strand, BackendFails,
       BackendAuthenticates, BackendConnects, LyricsJobDone, LyricsJobAborts, Join,
       vars
  <2> QED BY <1>2, <2>1
<1> QED BY <1>4, <1>5, <1>6, <1>7 DEF Next

-----------------------------------------------------------------------------
THEOREM Invariance == Spec => []IInv
<1>1. Init => IInv
  BY LocalInit, QueueInit DEF IInv
<1>2. IInv /\ [Next]_vars => IInv'
  BY LocalStep, QueueStep DEF IInv, QueueInv
<1> QED BY <1>1, <1>2, PTL DEF Spec

(* Every variable keeps its type, whatever the threads enqueue. *)
THEOREM TypeCorrectness == Spec => []TypeOK
<1>1. IInv => TypeOK
  BY DEF IInv, LocalInv
<1> QED BY <1>1, Invariance, PTL

(* While the token is null the main thread never has an API command queued. *)
THEOREM UiIsSafeBeforeLogin == Spec => []UiWaitsForToken
<1>1. IInv => UiWaitsForToken
  BY DEF IInv, QueueInv
<1> QED BY <1>1, Invariance, PTL

(* At most one login coroutine is ever started. *)
THEOREM LoginOnce == Spec => []OneLogin
<1>1. IInv => OneLogin
  BY DEF IInv, QueueInv
<1> QED BY <1>1, Invariance, PTL

(* The main thread can block only while the transfer holds its guard with  *)
(* a volume request outstanding.                                           *)
THEOREM GuardDiscipline == Spec => []DevicesGuard
<1>1. IInv => DevicesGuard
  BY DEF IInv, LocalInv
<1> QED BY <1>1, Invariance, PTL

(* The process stops itself only for an Exit event or after the last empty *)
(* device list; its own events never make it dereference a null token, and *)
(* no lookup can end it before a login.                                    *)
THEOREM StopCause == Spec => StopsForAReason
<1> DEFINE
      Asked == \/ \E p \in Producers : queue[p] # <<>> /\ Head(queue[p]) = "Exit"
               \/ boot = "sleep" /\ attempt' = MaxRetries /\ ~devices
      Foreign == \/ backend # "ready" /\ UNCHANGED queue
                 \/ backend = "ready" /\ lyricsJobs > 0 /\ isLogined /\ UNCHANGED queue
                 \/ /\ mode = "running" /\ ~hasToken
                    /\ \E p \in Producers \ {Main} :
                          queue[p] # <<>> /\ Head(queue[p]) \in ApiEvents
      Step == /\ mode = "running" /\ mode' = "stopped" => Asked
              /\ mode # "crashed" /\ mode' = "crashed" => Foreign
<1>1. IInv /\ [Next]_vars => [Step]_vars
  <2> SUFFICES ASSUME IInv, Next PROVE Step
    BY DEF vars
  <2>1. \/ UNCHANGED mode \/ mode' \in {"blocked", "exited"}
        \/ \E p \in Producers : HandleExit(p)
        \/ \E p \in Producers, e \in ApiEvents : HandleApi(p, e)
        \/ \E p \in Producers, e \in VolumeEvents : HandleVolume(p, e)
        \/ RetryWakes \/ BackendFails \/ LyricsJobAborts
    BY DEF Next, Inputs, UiQuit, UiCommand, ProcRefresh, DbusCall, PlayerCallback,
       UiFrame, UiLeaveLogin, UiLeaveMain, Handle, HandleLogin, HandleLyrics,
       HandleNothing, Completion, TrackFetched, NextTrackFetched, VolumeSet,
       OtherDone, Boot, LoginSucceeds, BootFails, DevicesFetched, Transferred,
       BootTrackFetched, Strand, BackendAuthenticates, BackendConnects,
       LyricsJobDone, Join
  <2>2. CASE \E p \in Producers : HandleExit(p)
    BY <2>2 DEF HandleExit, RunExitHandlers, Dequeues
  <2>3. CASE RetryWakes
    <3>1. boot = "sleep" /\ ~devices /\ attempt < MaxRetries /\ attempt \in 0..MaxRetries
      BY <2>3 DEF RetryWakes, BootAt, IInv, LocalInv, AttemptsLeft, TypeOK
    <3>2. attempt' = attempt + 1
      BY <2>3 DEF RetryWakes
    <3>3. mode' = "stopped" => attempt' = MaxRetries
      BY <2>3, <3>1, <3>2 DEF RetryWakes, TriesAgain, BootAt
    <3>4. mode' # "crashed"
      BY <2>3 DEF RetryWakes, RunExitHandlers, BootAt
    <3> QED BY <3>1, <3>3, <3>4
  <2>4. ASSUME NEW p \in Producers, NEW e \in ApiEvents, HandleApi(p, e) PROVE Step
    <3>1. mode = "running" /\ queue[p] # <<>> /\ Head(queue[p]) = e
      BY <2>4 DEF HandleApi, Dequeues
    <3>2. mode' = "crashed" => ~hasToken
      BY <2>4, <3>1 DEF HandleApi, Send
    <3>3. mode' # "stopped"
      BY <2>4, <3>1 DEF HandleApi, Send
    <3>4. ~hasToken => p # Main
      <4> SUFFICES ASSUME ~hasToken, p = Main PROVE FALSE
        OBVIOUS
      <4>1. queue[p] \in Seq(Event)
        BY DEF IInv, LocalInv, TypeOK
      <4>2. 1 \in DOMAIN queue[p] /\ queue[p][1] = e
        BY <3>1, <4>1
      <4> QED BY <4>2 DEF IInv, QueueInv, UiWaitsForToken, Queued
    <3> QED BY <3>1, <3>2, <3>3, <3>4
  <2>5. ASSUME NEW p \in Producers, NEW e \in VolumeEvents, HandleVolume(p, e)
        PROVE  Step
    <3>1. supportsVolume => hasToken
      BY DEF IInv, LocalInv, DevicesNeedToken
    <3> QED BY <2>5, <3>1 DEF HandleVolume, Send, Dequeues
  <2>6. CASE BackendFails
    BY <2>6 DEF BackendFails
  <2>7. CASE LyricsJobAborts
    <3>1. isLogined
      BY <2>7 DEF LyricsJobAborts, IInv, QueueInv, LookupsNeedToken, LocalInv,
         TokenWithLogin
    <3> QED BY <2>7, <3>1 DEF LyricsJobAborts
  <2> QED BY <2>1, <2>2, <2>3, <2>4, <2>5, <2>6, <2>7
<1> QED BY <1>1, Invariance, PTL DEF Spec, StopsForAReason

-----------------------------------------------------------------------------
(* What must hold of every step for quitting and exiting to end; that the  *)
(* steps are taken is fairness, and left to the model checker.             *)

(* The Exit of a quit key is in the queue until it is handled: no later     *)
(* event, no answer and no change of screen takes it away.                 *)
QuitIsPending == ~mainShow => mode # "running" \/ Queued(Main, "Exit")

LEMMA EnqueueKeepsQueued ==
    ASSUME TypeOK, NEW p \in Producers, NEW e \in Event, Enqueue(p, e)
    PROVE  /\ Queued(p, e)'
           /\ \A q \in Producers, x \in Event : Queued(q, x) => Queued(q, x)'
<1>1. queue[p] \in Seq(Event) /\ queue'[p] = Append(queue[p], e)
  BY DEF TypeOK, Enqueue
<1>2. /\ DOMAIN queue'[p] = DOMAIN queue[p] \cup {Len(queue[p]) + 1}
      /\ \A i \in DOMAIN queue[p] : queue'[p][i] = queue[p][i]
      /\ queue'[p][Len(queue[p]) + 1] = e
  BY <1>1
<1>3. \A q \in Producers : q # p => queue'[q] = queue[q]
  BY DEF TypeOK, Enqueue
<1> QED BY <1>2, <1>3 DEF Queued

LEMMA DequeueKeepsQueued ==
    ASSUME TypeOK, NEW p \in Producers, NEW e, Dequeues(p, e),
           NEW q \in Producers, NEW x \in Event, x # e, Queued(q, x)
    PROVE  Queued(q, x)'
<1>1. queue[p] \in Seq(Event) /\ queue[p] # << >> /\ queue[p][1] = e
  BY DEF TypeOK, Dequeues
<1>2. queue'[p] = Tail(queue[p])
  BY DEF TypeOK, Dequeues
<1>3. PICK i \in DOMAIN queue[q] : queue[q][i] = x
  BY DEF Queued
<1>4. CASE q = p
  <2>1. i \in Nat /\ i # 1 /\ i # 0
    BY <1>1, <1>3, <1>4
  <2>2. i - 1 \in DOMAIN queue'[p] /\ queue'[p][i - 1] = x
    BY <1>1, <1>2, <1>3, <1>4, <2>1
  <2> QED BY <1>4, <2>2 DEF Queued
<1>5. CASE q # p
  <2>1. queue'[q] = queue[q]
    BY <1>5 DEF TypeOK, Dequeues
  <2> QED BY <1>3, <2>1 DEF Queued
<1> QED BY <1>4, <1>5

LEMMA QuitStep == IInv /\ QuitIsPending /\ [Next]_vars => QuitIsPending'
<1> SUFFICES ASSUME IInv, QuitIsPending, [Next]_vars PROVE QuitIsPending'
  OBVIOUS
<1> USE DEF uiVars, bootVars, apiVars, jobVars
<1>1. TypeOK /\ Main \in Producers /\ "Exit" \in Event
  BY DEF IInv, LocalInv, Producers, Event
<1>2. CASE UiQuit
  BY <1>1, <1>2, EnqueueKeepsQueued DEF UiQuit, QuitIsPending
<1>3. ASSUME NEW p \in Producers, NEW e \in Event, Enqueue(p, e),
             UNCHANGED <<mode, mainShow>>
      PROVE  QuitIsPending'
  BY <1>1, <1>3, EnqueueKeepsQueued DEF QuitIsPending
<1>4. CASE Inputs
  <2>1. ASSUME NEW e \in UiInputs, UiCommand(e) PROVE QuitIsPending'
    BY <1>1, <1>3, <2>1, InputsAreEvents DEF UiCommand
  <2>2. CASE ProcRefresh
    <3>1. "Refresh" \in Event
      BY DEF Event
    <3> QED BY <1>1, <1>3, <2>2, <3>1 DEF ProcRefresh
  <2>3. ASSUME NEW e \in DbusInputs, DbusCall(e) PROVE QuitIsPending'
    BY <1>3, <2>3, InputsAreEvents DEF DbusCall, Producers
  <2>4. ASSUME NEW p \in Players, NEW e \in PlayerEvents, PlayerCallback(p, e)
        PROVE  QuitIsPending'
    BY <1>3, <2>4, InputsAreEvents DEF PlayerCallback, Producers
  <2> QED BY <1>2, <1>4, <2>1, <2>2, <2>3, <2>4 DEF Inputs
<1>5. CASE Handle
  <2>1. PICK p \in Producers :
            \/ HandleLogin(p) \/ HandleExit(p) \/ HandleLyrics(p)
            \/ \E e \in ApiEvents : HandleApi(p, e)
            \/ \E e \in VolumeEvents : HandleVolume(p, e)
            \/ \E e \in DroppedEvents \cup {"Refresh"} : HandleNothing(p, e)
    BY <1>5 DEF Handle
  <2>2. CASE HandleExit(p)
    BY <2>2 DEF HandleExit, RunExitHandlers, QuitIsPending
  <2>3. CASE ~HandleExit(p)
    <3>1. PICK e : Dequeues(p, e) /\ e # "Exit" /\ UNCHANGED mainShow
      BY <2>1, <2>3 DEF HandleLogin, HandleLyrics, HandleApi, HandleVolume,
         HandleNothing, ApiEvents, TrackEvents, FetchEvents, PlayerCommands,
         VolumeEvents, DroppedEvents
    <3>2. mode = "running"
      BY <3>1 DEF Dequeues
    <3> QED BY <1>1, <3>1, <3>2, DequeueKeepsQueued DEF QuitIsPending
  <2> QED BY <2>2, <2>3
<1>6. CASE UiFrame \/ Completion \/ Boot \/ Strand \/ Join \/ UNCHANGED vars
  <2>1. UNCHANGED <<queue, mainShow>> /\ (mode # "running" => mode' # "running")
    BY <1>6 DEF UiFrame, UiLeaveLogin, UiLeaveMain, Completion, TrackFetched,
       NextTrackFetched, VolumeSet, OtherDone, Completes, Boot, BootAt,
       LoginSucceeds, BootFails, DevicesFetched, Transferred, BootTrackFetched,
       RetryWakes, Strand, BackendFails, BackendAuthenticates, BackendConnects,
       LyricsJobDone, LyricsJobAborts, Join, vars
  <2> QED BY <2>1 DEF QuitIsPending, Queued
<1> QED BY <1>2, <1>4, <1>5, <1>6 DEF Next

(* The safety half of QuitStops: pressing q is never forgotten. *)
THEOREM QuitIsKept == Spec => []QuitIsPending
<1>1. Init => QuitIsPending
  BY DEF Init, QuitIsPending
<1> QED BY <1>1, QuitStep, Invariance, PTL DEF Spec

(* Once the loop does not run, nothing is posted to the strand any more and *)
(* the loop is not entered again; the process exits with an idle strand.    *)
StrandOnlyDrains ==
    [][mode # "running" =>
         /\ mode' # "running" /\ lyricsJobs' <= lyricsJobs
         /\ backend = "ready" => backend' = "ready"
         /\ mode = "stopped" => mode' \in {"stopped", "exited", "crashed"}
         /\ mode = "stopped" /\ mode' = "exited" => StrandIdle]_vars

(* The safety half of StoppedExits: the jobs before the join can only       *)
(* become fewer.                                                           *)
THEOREM StoppedDrains == Spec => StrandOnlyDrains
<1> DEFINE Step == mode # "running" =>
             /\ mode' # "running" /\ lyricsJobs' <= lyricsJobs
             /\ backend = "ready" => backend' = "ready"
             /\ mode = "stopped" => mode' \in {"stopped", "exited", "crashed"}
             /\ mode = "stopped" /\ mode' = "exited" => StrandIdle
<1>1. IInv /\ [Next]_vars => [Step]_vars
  <2> SUFFICES ASSUME IInv, Next, mode # "running" PROVE Step
    BY DEF vars
  <2>1. lyricsJobs \in Nat
    BY DEF IInv, LocalInv, TypeOK
  <2>2. CASE Inputs
    BY <2>1, <2>2 DEF Inputs, UiQuit, UiCommand, ProcRefresh, DbusCall, PlayerCallback,
       jobVars
  <2>3. CASE Strand
    BY <2>1, <2>3 DEF Strand, BackendFails, BackendAuthenticates, BackendConnects,
       LyricsJobDone, LyricsJobAborts, StrandRuns, Alive, jobVars
  <2>4. CASE Join
    BY <2>1, <2>4 DEF Join, jobVars
  <2>5. CASE UiFrame \/ Handle \/ Completion \/ Boot
    BY <2>5 DEF UiFrame, UiLeaveLogin, UiLeaveMain, Handle, HandleLogin, HandleExit,
       HandleLyrics, HandleApi, HandleVolume, HandleNothing, Dequeues, Completion,
       TrackFetched, NextTrackFetched, VolumeSet, OtherDone, Completes, Boot, BootAt,
       LoginSucceeds, BootFails, DevicesFetched, Transferred, BootTrackFetched,
       RetryWakes
  <2> QED BY <2>2, <2>3, <2>4, <2>5 DEF Next
<1> QED BY <1>1, Invariance, PTL DEF Spec, StrandOnlyDrains

(* One event begins the login, and nothing that happens to the coroutine   *)
(* after it closes or reopens the session.                                 *)
THEOREM SessionIsKept == Spec => ImplementsSession
<1>1. Init => Promise!Init
  BY DEF Init, Promise!Init, SessionState
<1>2. IInv /\ [Next]_vars => [Promise!Next]_SessionState
  <2> SUFFICES ASSUME IInv, [Next]_vars PROVE [Promise!Next]_SessionState
    OBVIOUS
  <2> USE DEF Promise!Next, Promise!Begin, Promise!Grant, Promise!Deny, SessionState
  <2>1. CASE UNCHANGED <<isLogined, boot>>
    BY <2>1
  <2>2. CASE \E p \in Producers : HandleLogin(p)
    <3>1. boot = "idle"
      BY <2>2 DEF HandleLogin, Dequeues, IInv, LocalInv, TypeOK, QueueInv, OneLogin
    <3> QED BY <2>2, <3>1 DEF HandleLogin
  <2>3. CASE Boot
    BY <2>3 DEF Boot, BootAt, LoginSucceeds, BootFails, DevicesFetched, Transferred,
       BootTrackFetched, RetryWakes
  <2>4. \/ UNCHANGED <<isLogined, boot>>
        \/ \E p \in Producers : HandleLogin(p)
        \/ Boot
    BY DEF Next, Inputs, UiQuit, UiCommand, ProcRefresh, DbusCall, PlayerCallback,
       UiFrame, UiLeaveLogin, UiLeaveMain, Handle, HandleExit, HandleLyrics,
       HandleApi, HandleVolume, HandleNothing, Completion, TrackFetched,
       NextTrackFetched, VolumeSet, OtherDone, Strand, BackendFails,
       BackendAuthenticates, BackendConnects, LyricsJobDone, LyricsJobAborts, Join, vars, bootVars
  <2> QED BY <2>1, <2>2, <2>3, <2>4
<1> QED BY <1>1, <1>2, Invariance, PTL DEF Spec, ImplementsSession, Promise!Spec
=============================================================================
