----------------------------- MODULE EventLoop -----------------------------
(***************************************************************************)
(* The process as main.cpp wires it: one thread runs the io_context with   *)
(* the UI coroutine, the event handler, the login coroutine and every HTTP *)
(* request; the D-Bus thread and librespot's player threads only enqueue   *)
(* events; a strand of a thread pool runs librespot's blocking jobs.       *)
(*                                                                         *)
(* A step of this module is what runs on one thread between two suspension *)
(* points.  Bodies of HTTP requests, the playback state and the D-Bus      *)
(* notifications are in modules of their own.                              *)
(***************************************************************************)
EXTENDS Integers, Sequences, FiniteSets

CONSTANTS
    Dbus, Players,      \* threads that enqueue events from outside the main one
    UiInputs,           \* commands the UI of this instance enqueues
    DbusInputs,         \* commands D-Bus clients of this instance send
    MaxRetries,         \* MAX_RETRIES of retry_get_devices
    CachedCredentials,  \* librespot finds credentials in its cache directory
    MaxInputs           \* bound: events enqueued after Login

Main == "main"
Producers == {Main, Dbus} \cup Players

(* Events by what their case in AsyncEventHandler::handle does. *)
TrackEvents  == {"GetCurrentlyPlayingTrack"}
VolumeEvents == {"SetVolumeUp", "SetVolumeDown"}
FetchEvents  == {"GetUserProfile", "GetUserTopArtists", "GetUserTopTracks",
                 "GetUserPlaylists", "GetUserQueue"}
PlayerCommands == {"SkipToNext", "SkipToPrevious", "SeekRight", "SeekLeft",
                   "Play", "Resume", "Pause"}
ApiEvents == TrackEvents \cup FetchEvents \cup PlayerCommands \cup {"NextTrack"}
DroppedEvents == {"Raise", "Set_shuffle", "Set_repeat_track", "Search"}
Event == ApiEvents \cup VolumeEvents \cup DroppedEvents
            \cup {"Login", "Exit", "Refresh", "GetLyrics"}

(* What each thread can enqueue. *)
UiEvents == (PlayerCommands \ {"Resume"}) \cup VolumeEvents \cup TrackEvents
              \cup {"GetUserTopArtists", "GetUserTopTracks", "GetUserPlaylists",
                    "GetLyrics", "Set_shuffle", "Set_repeat_track"}
DbusEvents == {"Raise", "Exit", "SkipToNext", "SkipToPrevious",
               "Pause", "Resume", "Play"}
PlayerEvents == {"GetCurrentlyPlayingTrack", "NextTrack"}

ASSUME ThreadsAssumption == /\ Main # Dbus
                            /\ Main \notin Players /\ Dbus \notin Players
ASSUME InputsAssumption == UiInputs \subseteq UiEvents /\ DbusInputs \subseteq DbusEvents
ASSUME BoundsAssumption == /\ MaxRetries \in Nat \ {0} /\ MaxInputs \in Nat
                           /\ CachedCredentials \in BOOLEAN

Requests == {"track", "nextTrack", "volume", "other"}

VARIABLES
    mode,           \* the process: running, blocked for ever, stopped, exited, crashed
    queue,          \* eventQueue: one FIFO per producing thread
    inputs,         \* how many events were enqueued after Login
    ui,             \* Ui::render: in the login loop, in the main loop, returned
    mainShow,       \* Ui::main_show
    isLogined,      \* SpotifyData::isLogined
    hasToken,       \* SpotifyWebAPI::accessToken is not null
    boot,           \* where the login coroutine is suspended
    attempt,        \* retry_get_devices: the attempt counter
    devices,        \* SpotifyData::devices is not empty
    devicesReaders, \* read guards on devices held by suspended coroutines
    supportsVolume, \* currentlyPlayTrack.device.supports_volume
    inflight,       \* HTTP requests of detached coroutines, by kind
    backend,        \* the start job of the librespot strand
    lyricsJobs,     \* update_lyrics jobs behind it
    cancelled       \* librespot::CANCEL was notified

uiVars   == <<ui, mainShow>>
bootVars == <<isLogined, hasToken, boot, attempt, devices, devicesReaders>>
apiVars  == <<supportsVolume, inflight>>
jobVars  == <<backend, lyricsJobs, cancelled>>
vars == <<mode, queue, inputs, uiVars, bootVars, apiVars, jobVars>>

TypeOK ==
    /\ mode \in {"running", "blocked", "stopped", "exited", "crashed"}
    /\ queue \in [Producers -> Seq(Event)]
    /\ inputs \in 0..MaxInputs
    /\ ui \in {"login", "main", "closed"} /\ mainShow \in BOOLEAN
    /\ isLogined \in BOOLEAN /\ hasToken \in BOOLEAN
    /\ boot \in {"idle", "login", "getDevices", "transfer", "getTrack", "sleep",
                 "done", "failed"}
    /\ attempt \in 0..MaxRetries
    /\ devices \in BOOLEAN /\ devicesReaders \in Nat
    /\ supportsVolume \in BOOLEAN
    /\ inflight \in [Requests -> Nat]
    /\ backend \in {"auth", "connecting", "ready"}
    /\ lyricsJobs \in Nat /\ cancelled \in BOOLEAN

(* Ui::renderLogin enqueues Login before its first frame; the constructor  *)
(* of SpotifyClient has posted the start job.                              *)
Init ==
    /\ mode = "running"
    /\ queue = [p \in Producers |-> IF p = Main THEN <<"Login">> ELSE <<>>]
    /\ inputs = 0
    /\ ui = "login" /\ mainShow = TRUE
    /\ isLogined = FALSE /\ hasToken = FALSE /\ boot = "idle" /\ attempt = 0
    /\ devices = FALSE /\ devicesReaders = 0
    /\ supportsVolume = FALSE
    /\ inflight = [k \in Requests |-> 0]
    /\ backend = "auth" /\ lyricsJobs = 0 /\ cancelled = FALSE

Enqueue(p, e) ==
    /\ inputs < MaxInputs
    /\ inputs' = inputs + 1
    /\ queue' = [queue EXCEPT ![p] = Append(@, e)]

-----------------------------------------------------------------------------
(* The UI coroutine. *)

(* q or Ctrl-C, in the login screen and in the main one. *)
UiQuit ==
    /\ mode = "running" /\ ui \in {"login", "main"}
    /\ mainShow' = FALSE
    /\ Enqueue(Main, "Exit")
    /\ UNCHANGED <<mode, ui, bootVars, apiVars, jobVars>>

(* A key or a frame of the main screen that enqueues e; the lyrics and the *)
(* track are also requested by frames.                                     *)
UiCommand(e) ==
    /\ mode = "running" /\ ui = "main"
    /\ Enqueue(Main, e)
    /\ UNCHANGED <<mode, uiVars, bootVars, apiVars, jobVars>>

(* Mutants of the loop condition: it ends with the Login event, or waits   *)
(* for the whole coroutine.                                                *)
LeavesWhenStarted  == boot # "idle" \/ ~mainShow
LeavesWhenFinished == boot = "done" \/ ~mainShow

LeavesLoginLoop == isLogined \/ ~mainShow

UiLeaveLogin ==
    /\ mode = "running" /\ ui = "login"
    /\ LeavesLoginLoop
    /\ ui' = IF mainShow THEN "main" ELSE "closed"
    /\ UNCHANGED <<mode, queue, inputs, mainShow, bootVars, apiVars, jobVars>>

UiLeaveMain ==
    /\ mode = "running" /\ ui = "main" /\ ~mainShow
    /\ ui' = "closed"
    /\ UNCHANGED <<mode, queue, inputs, mainShow, bootVars, apiVars, jobVars>>

(* Proc::Info::sample, every second, whatever the UI shows. *)
ProcRefresh ==
    /\ mode = "running"
    /\ Enqueue(Main, "Refresh")
    /\ UNCHANGED <<mode, uiVars, bootVars, apiVars, jobVars>>

-----------------------------------------------------------------------------
(* The other threads: they enqueue whether or not the main one handles. *)

Alive == mode \notin {"exited", "crashed"}

DbusCall(e) ==
    /\ Alive
    /\ Enqueue(Dbus, e)
    /\ UNCHANGED <<mode, uiVars, bootVars, apiVars, jobVars>>

(* librespot's event task exists once play_backends has its credentials. *)
PlayerCallback(p, e) ==
    /\ Alive /\ backend # "auth"
    /\ Enqueue(p, e)
    /\ UNCHANGED <<mode, uiVars, bootVars, apiVars, jobVars>>

-----------------------------------------------------------------------------
(* AsyncEventHandler::handle: a tick dequeues one event and runs its case. *)

(* Mutant: the event is looked at and stays queued. *)
PeeksAt(p, e) ==
    /\ mode = "running"
    /\ queue[p] # <<>> /\ e = Head(queue[p])
    /\ UNCHANGED <<queue, inputs>>

Dequeues(p, e) ==
    /\ mode = "running"
    /\ queue[p] # <<>> /\ e = Head(queue[p])
    /\ queue' = [queue EXCEPT ![p] = Tail(@)]
    /\ UNCHANGED inputs

(* Mutant: the second handler is never scheduled. *)
OnlyCancels == cancelled' = TRUE /\ UNCHANGED mode

(* librespot.stop(), then ioc.stop(). *)
RunExitHandlers ==
    /\ cancelled' = TRUE
    /\ mode' = "stopped"

HandleLogin(p) ==
    /\ Dequeues(p, "Login")
    /\ boot' = "login"
    /\ UNCHANGED <<mode, uiVars, isLogined, hasToken, attempt, devices,
                   devicesReaders, apiVars, jobVars>>

HandleExit(p) ==
    /\ Dequeues(p, "Exit")
    /\ RunExitHandlers
    /\ UNCHANGED <<uiVars, bootVars, apiVars, backend, lyricsJobs>>

(* A request copies *accessToken: with no token it dereferences null. *)
Send(k) ==
    IF hasToken
    THEN inflight' = [inflight EXCEPT ![k] = @ + 1] /\ UNCHANGED mode
    ELSE mode' = "crashed" /\ UNCHANGED inflight

RequestOf(e) == CASE e \in TrackEvents -> "track"
                  [] e = "NextTrack"   -> "nextTrack"
                  [] OTHER             -> "other"

HandleApi(p, e) ==
    /\ Dequeues(p, e)
    /\ Send(RequestOf(e))
    /\ UNCHANGED <<uiVars, bootVars, supportsVolume, jobVars>>

HandleVolume(p, e) ==
    /\ Dequeues(p, e)
    /\ IF supportsVolume THEN Send("volume") ELSE UNCHANGED <<mode, inflight>>
    /\ UNCHANGED <<uiVars, bootVars, supportsVolume, jobVars>>

HandleLyrics(p) ==
    /\ Dequeues(p, "GetLyrics")
    /\ lyricsJobs' = lyricsJobs + 1
    /\ UNCHANGED <<mode, uiVars, bootVars, apiVars, backend, cancelled>>

(* Refresh asks for a frame; the default case drops the event. *)
HandleNothing(p, e) ==
    /\ Dequeues(p, e)
    /\ UNCHANGED <<mode, uiVars, bootVars, apiVars, jobVars>>

Handle ==
    \E p \in Producers :
        \/ HandleLogin(p)
        \/ HandleExit(p)
        \/ HandleLyrics(p)
        \/ \E e \in ApiEvents : HandleApi(p, e)
        \/ \E e \in VolumeEvents : HandleVolume(p, e)
        \/ \E e \in DroppedEvents \cup {"Refresh"} : HandleNothing(p, e)

-----------------------------------------------------------------------------
(* Completions of the detached requests. *)

Completes(k) ==
    /\ mode = "running" /\ inflight[k] > 0
    /\ inflight' = [inflight EXCEPT ![k] = @ - 1]

(* RwLock::write on the main thread never returns while a coroutine of the *)
(* same thread is suspended with a read guard.                             *)
LockedDevices == devicesReaders > 0

(* The fetched track, or an empty one after an error; the device it names  *)
(* may support volume control.                                             *)
TrackFetched ==
    /\ Completes("track")
    /\ supportsVolume' \in BOOLEAN
    /\ UNCHANGED <<mode, queue, inputs, uiVars, bootVars, jobVars>>

(* The awaited variant: an exception ends the coroutine before the write.  *)
NextTrackFetched ==
    /\ Completes("nextTrack")
    /\ supportsVolume' \in BOOLEAN
    /\ UNCHANGED <<mode, queue, inputs, uiVars, bootVars, jobVars>>

VolumeSet ==
    /\ IF LockedDevices
       THEN /\ mode = "running" /\ inflight["volume"] > 0
            /\ mode' = "blocked" /\ UNCHANGED inflight
       ELSE Completes("volume") /\ UNCHANGED mode
    /\ UNCHANGED <<queue, inputs, uiVars, bootVars, supportsVolume, jobVars>>

OtherDone ==
    /\ Completes("other")
    /\ UNCHANGED <<mode, queue, inputs, uiVars, bootVars, supportsVolume, jobVars>>

-----------------------------------------------------------------------------
(* The login coroutine: SpotifyAuthPKCE::login, then retry_get_devices.    *)
(* An exception ends it silently: it is detached.                          *)

BootAt(pc) == mode = "running" /\ boot = pc

LoginSucceeds ==
    /\ BootAt("login")
    /\ hasToken' = TRUE /\ isLogined' = TRUE
    /\ boot' = "getDevices" /\ attempt' = 0
    /\ UNCHANGED <<mode, queue, inputs, uiVars, devices, devicesReaders, apiVars,
                   jobVars>>

(* Mutant: the guard survives the exception. *)
GuardsKept == devicesReaders

(* Unwinding TransferPlayback releases the guard it holds while it awaits. *)
GuardsAfterFailure == IF boot = "transfer" THEN devicesReaders - 1 ELSE devicesReaders

(* Mutant: whatever ends the coroutine also ends the session. *)
BootLogsOut ==
    /\ mode = "running" /\ boot \in {"login", "getDevices", "transfer", "getTrack"}
    /\ boot' = "failed" /\ isLogined' = FALSE /\ hasToken' = FALSE
    /\ devicesReaders' = GuardsAfterFailure
    /\ UNCHANGED <<mode, queue, inputs, uiVars, attempt, devices, apiVars, jobVars>>

(* login() returned false or threw, or an awaited request threw. *)
BootFails ==
    /\ mode = "running" /\ boot \in {"login", "getDevices", "transfer", "getTrack"}
    /\ boot' = "failed"
    /\ devicesReaders' = GuardsAfterFailure
    /\ UNCHANGED <<mode, queue, inputs, uiVars, isLogined, hasToken, attempt, devices,
                   apiVars, jobVars>>

(* AsyncGetAvailableDevices writes the list, then TransferPlayback takes   *)
(* its read guard and awaits the PUT with it.                              *)
DevicesFetched(found) ==
    /\ BootAt("getDevices")
    /\ IF LockedDevices
       THEN /\ mode' = "blocked"
            /\ UNCHANGED <<devices, boot, devicesReaders>>
       ELSE /\ devices' = found
            /\ boot' = IF found THEN "transfer" ELSE "sleep"
            /\ devicesReaders' = IF found THEN devicesReaders + 1 ELSE devicesReaders
            /\ UNCHANGED mode
    /\ UNCHANGED <<queue, inputs, uiVars, isLogined, hasToken, attempt, apiVars, jobVars>>

Transferred ==
    /\ BootAt("transfer")
    /\ boot' = "getTrack"
    /\ devicesReaders' = devicesReaders - 1
    /\ UNCHANGED <<mode, queue, inputs, uiVars, isLogined, hasToken, attempt, devices,
                   apiVars, jobVars>>

BootTrackFetched ==
    /\ BootAt("getTrack")
    /\ supportsVolume' \in BOOLEAN
    /\ boot' = "done"
    /\ UNCHANGED <<mode, queue, inputs, uiVars, isLogined, hasToken, attempt, devices,
                   devicesReaders, inflight, jobVars>>

(* Mutants: one attempt more, one attempt less. *)
TriesLonger(n) == n <= MaxRetries
TriesLess(n) == n < MaxRetries - 1

TriesAgain(n) == n < MaxRetries

(* Six seconds later: the next attempt, or the exit handlers. *)
RetryWakes ==
    /\ BootAt("sleep")
    /\ attempt' = attempt + 1
    /\ IF TriesAgain(attempt')
       THEN boot' = "getDevices" /\ UNCHANGED <<mode, cancelled>>
       ELSE boot' = "done" /\ RunExitHandlers
    /\ UNCHANGED <<queue, inputs, uiVars, isLogined, hasToken, devices, devicesReaders,
                   apiVars, backend, lyricsJobs>>

-----------------------------------------------------------------------------
(* The librespot strand, and main() after ioc.run() returned. *)

(* Mutant: stopping the loop also stops the pool's threads. *)
StrandStopsEarly == mode \in {"running", "blocked"}

(* The pool's threads run jobs as long as the process lives. *)
StrandRuns == Alive

(* An .expect of play_backends that fails aborts the process. *)
BackendFails ==
    /\ StrandRuns /\ backend # "ready"
    /\ mode' = "crashed"
    /\ UNCHANGED <<queue, inputs, uiVars, bootVars, apiVars, jobVars>>

(* Cached credentials, or the answer of the browser. *)
BackendAuthenticates ==
    /\ StrandRuns /\ backend = "auth"
    /\ backend' = "connecting"
    /\ UNCHANGED <<mode, queue, inputs, uiVars, bootVars, apiVars, lyricsJobs, cancelled>>

BackendConnects ==
    /\ StrandRuns /\ backend = "connecting"
    /\ backend' = "ready"
    /\ UNCHANGED <<mode, queue, inputs, uiVars, bootVars, apiVars, lyricsJobs, cancelled>>

LyricsJobDone ==
    /\ StrandRuns /\ backend = "ready" /\ lyricsJobs > 0
    /\ lyricsJobs' = lyricsJobs - 1
    /\ UNCHANGED <<mode, queue, inputs, uiVars, bootVars, apiVars, backend, cancelled>>

(* A start time that is no number: the .expect aborts the process.         *)
LyricsJobAborts ==
    /\ StrandRuns /\ backend = "ready" /\ lyricsJobs > 0
    /\ mode' = "crashed"
    /\ UNCHANGED <<queue, inputs, uiVars, bootVars, apiVars, jobVars>>

StrandIdle == backend = "ready" /\ lyricsJobs = 0

(* backend_thread.join() waits for every job posted to the strand. *)
Join ==
    /\ mode = "stopped" /\ StrandIdle
    /\ mode' = "exited"
    /\ UNCHANGED <<queue, inputs, uiVars, bootVars, apiVars, jobVars>>

-----------------------------------------------------------------------------
Inputs ==
    \/ UiQuit
    \/ \E e \in UiInputs : UiCommand(e)
    \/ ProcRefresh
    \/ \E e \in DbusInputs : DbusCall(e)
    \/ \E p \in Players, e \in PlayerEvents : PlayerCallback(p, e)

UiFrame == UiLeaveLogin \/ UiLeaveMain

Completion == TrackFetched \/ NextTrackFetched \/ VolumeSet \/ OtherDone

Boot == \/ LoginSucceeds \/ BootFails
        \/ \E found \in BOOLEAN : DevicesFetched(found)
        \/ Transferred \/ BootTrackFetched \/ RetryWakes

Strand == \/ BackendFails \/ BackendAuthenticates \/ BackendConnects
          \/ LyricsJobDone \/ LyricsJobAborts

Next == Inputs \/ UiFrame \/ Handle \/ Completion \/ Boot \/ Strand \/ Join

(* Timers fire and main() goes on; librespot's own calls return, the OAuth *)
(* page only if nobody has to visit it.  Nothing is assumed of Spotify's   *)
(* HTTP server: client_read awaits an answer without a deadline.           *)
Fairness ==
    /\ WF_vars(UiFrame)
    /\ WF_vars(Handle)
    /\ WF_vars(RetryWakes)
    /\ WF_vars(BackendConnects) /\ WF_vars(LyricsJobDone \/ LyricsJobAborts)
    /\ CachedCredentials => WF_vars(BackendAuthenticates)
    /\ WF_vars(Join)

Spec == Init /\ [][Next]_vars
FairSpec == Spec /\ Fairness

-----------------------------------------------------------------------------
(* Properties. *)

Queued(p, e) == \E i \in DOMAIN queue[p] : queue[p][i] = e

(* The screens keep API commands away until login: while the token is null *)
(* the main thread has none queued, so only D-Bus and player events can    *)
(* make a request dereference it (event.cpp:68-216).                       *)
UiWaitsForToken ==
    ~hasToken => \A e \in ApiEvents : ~Queued(Main, e)

(* At most one login coroutine ever exists: Login is queued once, and only *)
(* while none was started (ui.cpp:44, event.cpp:54).                       *)
OneLogin ==
    \A p \in Producers : \A i \in DOMAIN queue[p] :
        queue[p][i] = "Login" =>
            /\ boot = "idle" /\ p = Main
            /\ \A j \in DOMAIN queue[p] : queue[p][j] = "Login" => j = i

(* The guard TransferPlayback keeps while it awaits is the only one that   *)
(* outlives a step, and is released on success and on failure; the main    *)
(* thread can stop for ever only inside that window, with a volume request *)
(* answered before the transfer (spotifyWebAPI.cpp:332, 505).              *)
DevicesGuard ==
    /\ devicesReaders = (IF boot = "transfer" THEN 1 ELSE 0)
    /\ mode = "blocked" => boot = "transfer" /\ inflight["volume"] > 0

(* The login is begun by one Login event, and the session it opens         *)
(* outlives the coroutine: no device, no answer and no later event closes  *)
(* or reopens it (event.cpp:54-66, 190-216).                               *)
SessionState == CASE isLogined                     -> "open"
                  [] ~isLogined /\ boot = "idle"   -> "closed"
                  [] ~isLogined /\ boot = "login"  -> "opening"
                  [] OTHER                         -> "failed"
Promise == INSTANCE Session WITH session <- SessionState
ImplementsSession == Promise!Spec

(* The application stops itself only for an Exit event or after MAX_RETRIES *)
(* empty device lists (event.cpp:43, 200).  Of what this program's own code *)
(* can abort, it dies only while librespot starts; in a lookup, and then    *)
(* after a login (librespot.rs:136); or of a D-Bus or player event taken    *)
(* before there is a token: no event of the main thread, volume keys        *)
(* included, dereferences null.                                            *)
StopsForAReason ==
    [][/\ mode = "running" /\ mode' = "stopped" =>
            \/ \E p \in Producers : queue[p] # <<>> /\ Head(queue[p]) = "Exit"
            \/ boot = "sleep" /\ attempt' = MaxRetries /\ ~devices
       /\ mode # "crashed" /\ mode' = "crashed" =>
            \/ backend # "ready" /\ UNCHANGED queue
            \/ backend = "ready" /\ lyricsJobs > 0 /\ isLogined /\ UNCHANGED queue
            \/ /\ mode = "running" /\ ~hasToken
               /\ \E p \in Producers \ {Main} :
                     queue[p] # <<>> /\ Head(queue[p]) \in ApiEvents]_vars

(* Quitting works from both screens, however many requests hang: a quit    *)
(* key leads to the end of the event loop, unless the main thread has      *)
(* blocked for ever (DevicesGuard) or the process has died.                *)
QuitStops == (~mainShow) ~> (mode # "running")

(* Whatever was posted to the strand, the stopped process exits: the join  *)
(* in main.cpp:70 returns.                                                 *)
StoppedExits == (mode = "stopped") ~> (mode \in {"exited", "crashed"})

(* A login brings up the main screen without waiting for a device.         *)
LoginShowsMain == isLogined ~> (ui # "login" \/ mode # "running")

(* ui.cpp:368: "s" shuffles the song: handling the key's event has to send *)
(* a request, if the user is logged in.                                    *)
ShuffleKeyShuffles ==
    [][\A p \in Producers :
         /\ hasToken /\ queue[p] # <<>> /\ Head(queue[p]) = "Set_shuffle"
         /\ queue'[p] = Tail(queue[p])
         => inflight' # inflight]_vars
=============================================================================
