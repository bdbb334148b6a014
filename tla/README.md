# Verification of spo-cli

TLA+ models of spo-cli, a terminal client for Spotify, checked with TLC and, for
the properties that matter most, proved with TLAPS for every value of the
constants. Paths such as `event.cpp` are under `src/` of the repository;
`librespot.rs` is `lib/librespot-cpp/src/librespot.rs`.

## 1. The system

One thread runs an `io_context` with every coroutine of the program: the UI, the
event handler, login and token refresh, each HTTP request, the MPRIS notifier,
the configuration watcher and the process sampler. Other threads reach it only
through `eventQueue`, a multi-producer queue, and through the read-write locks
of `SpotifyData`.

| Component | State | Operations | Talks to |
|---|---|---|---|
| wiring, `main.cpp` | the `io_context`, a pool of 4 threads, exit handlers | start all coroutines, `run`, `join` | everything |
| event handler, `event/` | `eventQueue` | `handle`: one event per 100 ms; `retry_get_devices`; exit handlers | UI, D-Bus and librespot threads (in), Web API, librespot (out) |
| login, `client/spotifyAuthPKCE` | access and refresh token, `cache`, `token.json` | `login`, `startRefreshTimer`, `refreshAccessToken`, `saveTokenCache` | token server, browser, file system |
| Web API, `client/spotifyWebAPI` | shared access token | one detached coroutine per request, a callback on completion | `utils/client.cppm` (HTTP over TLS), `SpotifyData` |
| playback state, `client/spotifyData` | `currentlyPlayTrack`, `devices`, `curLyric`, ..., each in an `RwLock` | `playback_progress` | read by UI, D-Bus and pool threads |
| response cache, `client/spotifyCache`, `spotifyClient` | SQLite table | save on completion, read at start | event handler |
| MPRIS, `client/mpris` | `notify_channel`, D-Bus object | methods enqueue events; `handle_notify` signals changes | D-Bus thread |
| librespot, `client/librespot`, `librespot.rs` | a strand, a Rust session | `play_backends`, `update_lyrics`, player events | event handler, Spotify |
| UI, `ui/` | `main_show`, `image_rendered`, `last_lyrics_request_id`, windows | login loop, main loop, key handler, frames | event handler, `SpotifyData` |
| configuration, `config/` | a `Cow` of the parsed file, `notify_msg` | parse, `refresh`, inotify watcher | UI |
| statistics, log, `status/` | CPU and memory figures | sample each second | event handler |
| locks and queues, `utils/` | — | `RwLock`, `Cow`, queues, HTTP client, version check | all |

What is hard here: events of four kinds of threads interleave with login;
coroutines of one thread hold lock guards across suspension points; answers
arrive in any order, twice, or never (the HTTP client reads without a deadline);
errors are reported as empty values that are stored like good ones; the token
file must survive a death at any instant; state is read when a key is pressed, a
job runs or a frame is drawn, and used when it is older; a channel without a
buffer drops messages. `PROJECT.json` lists these hazards with their lines.

What makes each component correct:

* event handler: the UI asks for nothing before the token is there; one login;
  the loop ends for a reason, and ends when asked to; the process then exits;
* login: the file, the cache, the timer and the server agree on the token, and
  what could not be saved is still held;
* Web API and playback state: what is shown becomes what Spotify plays;
* MPRIS: every announced change reaches the clients although messages are
  dropped (`NextTrack` writes one without announcing it);
* librespot and UI: lyrics and cover belong to the track;
* response cache: what a process shows is kept for its next start, and only an
  error loses something;
* progress bar: never ahead of Spotify, and the end of a track is asked about
  after it, and not once per frame;
* configuration: when the directory is quiet, data and screen follow the file.

## 2. Modules

| Module | Models | Kind |
|---|---|---|
| `EventLoop` | the process: queue, handler, login coroutine with device polling, UI loops, D-Bus and player threads, librespot's strand, exit | system |
| `MCEventLoop` | one instance of it | TLC |
| `EventLoopProofs` | its invariants for any threads, inputs and bounds | TLAPS |
| `Session` | what a login promises: begun once, one outcome, open until a restart | abstract |
| `Auth` | login, refresh timer, token file, token server | component |
| `AuthProofs` | its invariants for any lifetimes and numbers of deaths | TLAPS |
| `Notify` | what the notifier promises its clients | abstract |
| `Mpris` | `handle_notify`, the bufferless channel, the completions that feed it | component |
| `MprisProofs` | its invariant, and that it implements `Notify` | TLAPS |
| `MprisValues` | the times the getters publish, with the width of their ints | algorithm |
| `Playback`, `MCPlayback` | the client's belief about the playback against Spotify's state | component |
| `PlaybackProofs` | its invariants for any slots, inputs and failures | TLAPS |
| `Progress` | the progress bar's clock, the end of a track and the requests frames make | component |
| `ProgressProofs` | its invariants for any durations, delays and numbers of requests | TLAPS |
| `Volume` | the volume keys, the stored volume they add to, Spotify's volume | component |
| `Store` | what the response cache promises | abstract |
| `Cache` | the library's lists in memory and in SQLite, completions, starts, deaths | component |
| `CacheProofs` | its invariants, and that it implements `Store` | TLAPS |
| `Config` | the file, editors, inotify, reloads, covers, the screens | component |
| `ConfigProofs` | its invariants for any texts, covers and numbers of edits | TLAPS |
| `Lyrics` | track changes, frames, lookups on the strand, lyrics and cover | component |
| `LyricWindow` | the lines a frame shows | algorithm |
| `LyricsProofs` | the invariants of `Lyrics`, and the window's arithmetic for any number of lines | TLAPS |

`EventLoop` is the frame: it has all the events and says when requests are sent
and completed, but not what they store. `Playback`, `Progress`, `Volume`,
`Cache`, `Mpris` and `Lyrics` each take the requests and events of one piece of
stored state and model what is written, when, and who reads it. `Auth` is the
inside of `EventLoop`'s `LoginSucceeds`/`BootFails` and goes on after it: the
two meet in `Session`, which each implements, so that what `EventLoop` assumes
of a login (one outcome, whatever the timer and later requests do) is what
`Auth` provides. `Config` is the part of the one thread that needs no Spotify.

How the state corresponds to the code:

* `EventLoop`. `queue` is `eventQueue`, one FIFO per producing thread, as
  moodycamel's queue orders them. A step is what runs between two suspension
  points; `boot` is the suspension point of the login coroutine, `ui` that of
  `Ui::render`. `inflight` counts detached requests by what their completion
  writes. `devicesReaders` counts guards that outlive a step, and an action that
  takes the write lock meanwhile sets `mode` to `"blocked"`. A request without a
  token sets it to `"crashed"`, and so do the panics of `librespot.rs`:
  `BackendFails` at the start, `LyricsJobAborts` in a lookup. `Handle` is one
  iteration of `handle`'s loop; its disjuncts are the cases of the `switch`
  grouped by effect.
* `Auth`. Tokens are the numbers of the server's grants, so that an old one can
  be told from a new one. `file` is `token.json`: missing, torn or a
  `TokenCache`; saving is two steps, and may throw before them, be skipped for a
  file that does not open, or leave the file torn. `unsaved` and `lost` are
  history: the process holds a grant the file has not, or the last grant is in
  neither. `CrashAndRestart` keeps only the file and the server. `StartedTimer`
  is the optional access that throws.
* `Mpris`. Contents are versions: `track` counts the writes, `published` is the
  version the last signal carried, `announced` the version at the last
  `try_send`. `receiver` is where `handle_notify` is suspended.
* `Playback`. `server` is Spotify's state, `local` is `currentlyPlayTrack`;
  `pending` is a bag of events, the ones librespot has not reported yet
  included, since a later report and a later dequeue look alike. A request is
  sent, served or lost, and completed. `good` and `goal` are history variables
  of the properties.
* `MprisValues`. `track` is the stored track, `published` what a signal or a
  Get said of it. Times are in units of 8 microseconds: 2^31 of them overflow
  TLC's own ints otherwise. A product that does not fit is wrapped or exact,
  the two outcomes a build can have.
* `Progress`. Time is counted in ticks; `elapsed` is the distance from
  `playback_last_updated_time`, kept up to one past the duration, where nothing
  reads it any more. `server` has a position that may go on past the duration
  (`Linger`): Spotify goes on reporting an ended track for a while.
  `PlaybackProgress` is a frame that calls `playback_progress`, `EmptyFrame` one
  without a track; `queryCount` and `requested` are the statics they use. A
  request has an age, so that the delay of an answer is known. `fresh`, `lag`
  and `asked` are history variables.
* `Volume`. Volumes are in tens, the step of a key. `stored` is the volume of
  `currentlyPlayTrack`, `None` if the device supports none.
  `devices[0].volume_percent`, which completions write, has no reader.
* `Cache`. `memory` is the `SpotifyData` of each process, `row` the table shared
  by all of them. `LoadRow` is one row of `initDataFromCache`; `Complete` is a
  callback whose save succeeds, `CompleteWithError` one after a throw, the
  save's included, `DeathAfterSave` a process that ends between the save and
  its next step. `inSync` is history: who wrote the row last or has read it.
* `Config`. `file` is a text by what parsing makes of it: settings, an error, or
  missing; `Truncate`, `WritePart`, `CloseWritten`, `MoveInto` are what editors
  do, and only the last two make an event. `data.fg` is where the colour of the
  lyrics and the bar comes from, `palette` what was last picked from a cover;
  `misread` is history: it was not picked from the cover shown, because that did
  not load or has fewer than 300 by 300 pixels. `posted` counts `Event_ReConfig`s.
* `Lyrics`. `lastRequest`, `imageRendered` and `image` are the UI's statics;
  `queued`, `posted` and `job` follow a `GetLyrics` event to the strand. A frame
  is one step, since it runs on the thread that stores tracks.
* `LyricWindow`. `Current`, `Start` and `End` are the variables of
  `render_curlyrics`; the loop with its `break` is the cardinality of the set of
  lines it takes.

## 3. What the runs check

| Run | Bounds | Shows |
|---|---|---|
| `event_loop` | 3 events, 2 device polls, one D-Bus and one player thread | type, `UiWaitsForToken`, `OneLogin`, `DevicesGuard`, `StopsForAReason`, refinement of `Session`; `QuitStops`, `StoppedExits`, `LoginShowsMain` |
| `shuffle_key` | 1 event | a violation: the documented key `s` does nothing (finding) |
| `auth` | lifetime 2, clock 7, 5 grants, 2 deaths | type, `FileFollowsSession`, `SessionSurvives`, `UnsavedIsHeld`, `TimerWatchesToken`, refinement of `Session`; `StaleTokenIsReplaced` |
| `mpris` | 4 requests | type, `NoLostUpdate`, refinement of `Notify`, `ClientsCatchUp` |
| `mpris_length` | 4 durations around 2^31 microseconds | a violation: a negative `mpris:length` (finding) |
| `playback` | 3 inputs, 3 requests in flight, 1 failure, 2 tracks | `ShowsServer`, `SpaceToggles` |
| `progress` | 2 tracks of 2 ticks, lingering up to 2, delay 1, 2 requests, 1 input, 1 failure | type, `ShownIsLate`, `AsksTwice`, `AsksAfterTheEnd` |
| `volume_up` | 2 keys | a violation: two presses of `=` raise the volume once (finding) |
| `cache` | 2 processes, 2 lists, 2 answers, 2 requests, 2 failures, 1 death | type, `ShownIsKept`, refinement of `Store` |
| `config` | 2 errors, 2 covers, 4 edits, 2 track changes | type, `QuietFollowsFile`, `SectionFollowsData`, `NoOldCoversTheme`, `ReloadArrives` |
| `lyrics` | 3 tracks, 5 changes | `LyricsMatchTrack`, `ImageMatchesTrack`, `LyricsArrive` |
| `lyric_window` | 5 lines, 4 times | `HighlightsLastStarted`, `WindowShowsCurrent`, `ScrollsForward` |

Where a module has liveness properties, they and its safety are checked in one
run, over the fair specification: fairness removes no step, so the invariants
are those of the plain one.

Why the bounds are enough. `event_loop`: after the login, a key or player event
that makes a request, an Exit behind them, and a device poll in between; two
polls reach both the retry and the exit after the last. `auth`: with a lifetime
of 2 and a clock of 7 a token expires three times, and two deaths let a damaged
file be read and replaced; five grants let saves fail and succeed again.
`mpris`: a dropped message needs three announcements (one received, one dropped,
one after); four leave one over. `playback`: one input from rest for
`SpaceToggles`, and two more to race it; three slots hold a command, its fetch
and a stale fetch. `lyrics`: returning to a track needs two changes, five allow
it twice with another reset between. `progress`: the requests at the end of a
track are at most two, so two slots hold them all, and a fetch of the librespot
kind beside one of them; a track of two ticks has a beginning, a middle and an
end; a linger of two ticks is longer than an answer travels, so that both
requests can be spent on the ended track. `cache`: two requests of one list by
two processes, each of which may fail, and one death with a start after it.
`config`: truncate, write a part, write the rest, and one more file's event. The
theorems below do not depend on bounds at all.

Fairness. `EventLoop` assumes that timers fire (frames, the handler's 100 ms,
the six-second retry) and that main goes on after `run`; that librespot's calls
return; and that it authenticates by itself only if credentials are cached,
since otherwise somebody must visit a page. Outside the panics of
`librespot.rs` the librespot crates are taken not to panic. Nothing is assumed
of the HTTP server: `client_read` has no read deadline, and quitting must work
without an answer; it ends the loop (`QuitStops`) unless the main thread has
blocked for ever or the process died before. Inputs are finite (`MaxInputs`), so
weak fairness of `Handle` as a whole stands for "each tick takes one event".
`Auth`'s liveness assumes that the token server keeps answering (strong
fairness, as refusals may come between) and that its timer fires. `Mpris`
assumes that a posted resumption runs. `Lyrics` assumes frames, ticks, and that
lookups return. `Config` assumes that a readable inotify descriptor is read and
that frames are drawn.

## 4. What is proved

All for arbitrary constants under the modules' named assumptions (bounds are
naturals, threads are distinct, absent values differ from present ones).

* `EventLoopProofs`: `TypeCorrectness`, `UiIsSafeBeforeLogin`, `LoginOnce`,
  `GuardDiscipline`, `StopCause`. The invariant joins `LocalInv` (types; the
  token exists exactly if logged in; the main screen and a device with a volume
  need it; attempts are left while polling; the guard is held exactly in
  `transfer`) and `QueueInv` (what the queues may hold). It is needed because a
  queued `Login` could restart the login coroutine: `OneLogin` is what makes the
  guard count inductive, and the token clause what keeps API events out of the
  main queue. `SessionIsKept` adds that `EventLoop` implements `Session`;
  `OneLogin` is what keeps a failed login from being begun again. `StopCause`
  covers the ways to die, too: while librespot starts, of a D-Bus or player
  event before login, or in a lookup after it (`LookupsNeedToken` in `QueueInv`:
  nobody asks for lyrics earlier). An event of the main thread cannot
  dereference a null token, because `UiWaitsForToken` keeps API commands out of
  its queue and no device supports a volume before an authorised answer said so.
  `QuitIsKept` (the `Exit` of a quit key stays queued until it is handled) and
  `StoppedDrains` (after the loop the strand's jobs only become fewer, and the
  exit finds it idle) are the safety halves of `QuitStops` and `StoppedExits`.
* `AuthProofs`: `AuthTypeCorrectness`, `FileIsCurrent`, `RotationIsSafe`,
  `FailedSaveKeepsGrant`, `TimerIsRight`. The invariant adds to them which
  suspension points can occur together (`Phases`), that member, file and shared
  token agree (`Agreement`), what is being saved (`Contents`) and how the
  server's token relates to them (`Session`). A second invariant on top of it,
  `Newest`, follows the newest grant from the wire through the members into the
  file; `SessionSurvives` and `UnsavedIsHeld` need it, and `TokensAdvance`: no
  answer puts an older grant back into the header. `TimerIsKept` is the safety
  half of `StaleTokenIsReplaced`: refused refreshes and saves always lead back
  to the armed timer. `LoginIsFinal`: `Auth` implements the module `Session`,
  because the timer runs only after a login that succeeded (`Phases`).
* `MprisProofs`: `MprisTypeCorrectness`, `DroppedMessagesLoseNothing`, and
  `Refinement`, that every behaviour of `Mpris` is one of `Notify`. The
  invariant adds that no published or announced version is newer than the track.
* `PlaybackProofs`: `PlaybackTypeCorrectness`, `ClientShowsServer`,
  `SpaceKeyToggles`. At rest nothing shows why the fields agree, so `Informed`
  says it for every state: a fetch is queued or sent, or the freshest value of
  each field, stored or in a served answer, is Spotify's. `OnTheWay` follows the
  space key's request: alone in the queue, alone in flight, or executed, when
  whatever completes from then on stores what was asked. `WellFormed` excludes
  answers to no request.
* `ProgressProofs`: `ProgressTypeCorrectness`, `ShownIsNeverAhead`,
  `NoRequestFlood`, `RequestsFollowTheEnd`. `ShownIsLate` is about what is
  stored, and a step of it needs the same of every answer still travelling
  (`AnswerLate`): its age makes up for what Spotify has played since. `Counts`
  says that the counter covers every request since the last answer, and that
  each was made past the end, where it is not reset.
* `CacheProofs`: `CacheTypeCorrectness`, `ShownSurvives`, and
  `CacheImplementsStore`, the refinement of `Store` for any number of processes.
  The invariant needs that only a running process has requests (`OwnersRun`):
  a completion for a dead one would bring its screen back.
* `ConfigProofs`: `ConfigTypeCorrectness`, `DataFollowFile`, `SectionIsCurrent`,
  `NoStaleTheme`. `QuietFollowsFile` and `NoOldCoversTheme` are inductive: an
  edit either leaves something unsettled or no file (`EditsAreUnsettled`), a
  reload leaves what a quiet directory needs (`RefreshFollowsFile`), and a cover
  changes the colour alone, to the palette's (`CoversChangeColour`).
  `SectionFollowsData` is not, since it is about the main screen only;
  `SectionIsKept` says it of the login screen as well. With `ErrorIsShown`,
  which follows a broken file's message to the screen, they give
  `NothingPendingIsShown`, the safety half of `ReloadArrives`. Assumed of the
  constants: a text parses, is broken or is not there, and a cover's colour is
  not the name of another origin.
* `LyricsProofs`: `LyricsTypeCorrectness`, `LyricsFollowTrack`,
  `ImageFollowsTrack`. The invariant `Coming` says that a lookup which will read
  the track, or has read it, is on its way, or its lines are there; `Rendered`
  ties a rendered image to the id the last frame saw. `LookupIsComing`, the
  safety half of `LyricsArrive`, is `Coming` itself. For the window:
  `HighlightIsRight`, `WindowIsRight`, `WindowScrollsForward`. The loop with its
  `break` takes a prefix of the lines; a prefix is known by its cardinality
  (`PrefixIsCounted`), which needs no induction, and the lines are sorted
  (`WindowInv`), so whatever has started is in it.

Only model-checked: liveness, that is `QuitStops`, `StoppedExits`,
`LoginShowsMain`, `StaleTokenIsReplaced`, `ClientsCatchUp`, `ReloadArrives`,
`LyricsArrive`, and the fairness half of `ImplementsNotify`: the prover has no
rule for ENABLED. Every invariant and every action property that a passing run
checks is proved, and so is every refinement up to fairness. The type invariants
of `Playback`, `Lyrics` and `LyricWindow` are proved and in no run. `Volume` has
a run that refutes the documentation and no theorem.

## 5. What was learnt

* `s` and `R` are documented in the help window (ui.cpp:368-369) and do nothing:
  their events fall into the default case (event.cpp:220). Run `shuffle_key`.
* After a browser login the refresh timer dies at once: `login()` builds a local
  `TokenCache` that shadows the member (spotifyAuthPKCE.cpp:244), and
  `startRefreshTimer` throws on the empty optional. The session is refreshed
  again only after a restart. `Auth` has this as `StartedTimer`.
* `TransferPlayback` awaits with a read guard (spotifyWebAPI.cpp:332). If a
  volume request completes in that window the main thread waits for itself.
  `DevicesGuard` shows that nothing else can block it.
* Before login, D-Bus and player events can make a request use a null token; the
  UI cannot (`UiWaitsForToken`).
* A torn token file stops every later login: parsing throws and the coroutine
  ends silently. A death or a failed write during a save tears it
  (`FileFollowsSession`), and nobody looks at either.
* A save whose file does not open is skipped without notice, and one whose
  directory cannot be made ends the timer's coroutine: the process goes on with
  the new grant (`UnsavedIsHeld`), and if it ends before the next save a rotated
  refresh token is gone with it. `SessionSurvives` has to except that.
* A lyrics line with a time that is not a number ends the process from inside a
  lookup (librespot.rs:136), however long it has run; `StopsForAReason` names it.
* When a cover does not load, the frame writes the previous cover's colour again
  (ui.cpp:566-573), before any cover black; drawing it rounds the corners of an
  empty vector. A window small enough for 64-pixel covers has its colour picked
  from 300 by 300 pixels, past the end. `NoOldCoversTheme` excepts them by
  `misread`.
* Completing a seek stores `isPlaying = false` (spotifyWebAPI.cpp:491), and a
  failed command stores its value too; `ShowsServer` has to except both.
* If two tracks are stored between two frames and the second is the one last
  requested, a lookup may have read the first, and its lines stay;
  `LyricsMatchTrack` has to except it, as it does a failed lookup.
* A track of 2147.484 seconds or more is published with a negative length, where
  the compiler wraps: the product is computed in an int (mpris.cpp:293). Run
  `mpris_length`.
* Two presses of `=` before the next fetch ask for the same volume twice
  (event.cpp:183); nothing the requests complete with updates what the keys add
  to. Run `volume_up`.
* The bar lags Spotify by the time the answer travelled, and is never ahead,
  except after a resume: the paused time is counted as played until the next
  fetch. A seek starts from the progress last fetched, not from the one shown.
* If Spotify still reports the ended track to both requests the end allows, the
  bar stays at its end until librespot or the user asks again; so nothing true
  can be said of the end always being noticed. The counter is not reset while
  the bar is at its end, so a long pause before a resume can spend it.
* A failed first fetch is not repeated by the UI (ui.cpp:496).
* A save that throws empties the list on the screen that had just arrived, and
  the row perhaps too; an error does so for good rows (event.cpp:74).
* An empty or truncated configuration parses as all defaults, so a reload between
  an editor's truncation and its write applies the defaults for a moment; the
  event of the close repairs it (`QuietFollowsFile`).
* The keys that the built-in default saves for the theme are not the ones parsing
  reads, so the first reload after a first start changes the colours.
* A broken `.config/spocli.toml` falls back to the home file without a message,
  and is not watched from then on. A broken home file ends the program.
* An `Event_ReConfig` posted during login is consumed by the login screen.
* The first configuration error is shown for ever (ui.cpp:583-588).
* A refused refresh is retried without a pause, since the expiry is unchanged
  (`WithoutToken`).

## 6. Not modelled

* Without behaviour of interest: logging, layout, terminal escapes, colour
  clustering, the bars of the visualizer, the syntax of JSON and TOML, build
  files.
* Outside the program, modelled by how the code uses it: Spotify's servers,
  librespot, the browser, sd-bus, inotify, SQLite's own atomicity, and which
  component of the widget library has the focus. So the order of shortcuts and
  search input has no module: the outer handler (ui.cpp:206-272) takes `q`, `s`
  and its other keys before an open search sees them.
* The sampler's timer: `ProcRefresh` lets it enqueue at any time. After a stop of
  n seconds `next_tick` (proc.cpp:90) lies n seconds in the past, and n events
  are enqueued at once, which the handler takes one per 100 ms.
* Without a caller or a consumer: `StartPlayback` and `GetUserPlaylistItems`
  behind queues nothing fills, `search_query` beyond the keys that fill it, the
  events no thread enqueues, `MprisServer::stop`, `Version`, which only
  `test/version_test.cpp` uses, and the fields of `SpotifyData` nothing reads.
* Lock contention between threads: `RwLock`'s critical sections contain no
  suspension except the one in `TransferPlayback` and are single steps.
* Undefined behaviour at the edges of the process: destruction of static
  objects while librespot's threads run (visualizer.cppm:39, listed as a hazard
  without a property), a missing session bus (mpris.cpp:32), artists with fewer
  than three images (spotifyWebAPI.cpp:587).

## 7. What remains

The order of the plan was by what a user would notice: the event loop and
login, then what is stored and shown, then cache and configuration. It is
carried out except for:

1. `Config` with `Auth`: a refresh names the `client_id` of the configuration at
   that instant (spotifyAuthPKCE.cpp:375), so a reload of a half-written file can
   get it refused. Both modules have their half of it.
2. `Cache`, `Progress` and `Playback` as instances of one module of requests: they
   share the life of a request and differ in what completion stores.
3. The sampler against the event handler after a stop of the process, and the
   volume keys from rest: what holds of them when no key is repeated.
