------------------------------ MODULE Progress ------------------------------
(***************************************************************************)
(* The position the client shows, computed from the last answer and a      *)
(* clock, against Spotify's position, and the requests frames make when    *)
(* the track must have ended.  Time passes in ticks longer than a frame    *)
(* and an iteration of the event handler.                                  *)
(***************************************************************************)
EXTENDS Integers

CONSTANTS
    Tracks,         \* track ids
    NoTrack,        \* the id of an empty CurrentlyPlayingTrack
    Duration,       \* of a track, in ticks
    Linger,         \* ticks Spotify goes on reporting an ended track
    MaxLag,         \* ticks a request takes to be served, and to be answered
    Slots,          \* bounds the requests in flight
    MaxInputs,      \* bounds the keys and the changes made elsewhere
    MaxFailures     \* bounds the requests that end in an error

ASSUME ProgressAssumption ==
    /\ NoTrack \notin Tracks
    /\ Duration \in Nat \ {0} /\ Linger \in Nat /\ MaxLag \in Nat
    /\ MaxInputs \in Nat /\ MaxFailures \in Nat

Fetch    == "GetCurrentlyPlayingTrack"
Seeks    == {"SeekRight", "SeekLeft"}
Commands == {"Resume", "Pause"} \cup Seeks
Events   == Commands \cup {Fetch}

VARIABLES
    server,         \* Spotify: track, position (past Duration: lingering), playing
    local,          \* currentlyPlayTrack: id, progress_ms, isPlaying
    elapsed,        \* since playback_last_updated_time, up to Duration + 1
    queryCount,     \* query_count of playback_progress
    requested,      \* request_currently_playing_track of the UI
    redraw,         \* a frame was requested
    pending,        \* eventQueue, as a bag
    request,        \* the request of each slot
    fresh, lag,     \* history: what became of the track local was answered for
                    \* ("yes": still playing, "ended", "no"), how late it came
    asked,          \* history: requests made at the end since the last answer
    inputs, failures

vars == <<server, local, elapsed, queryCount, requested, redraw, pending,
          request, fresh, lag, asked, inputs, failures>>

State == [track : Tracks \cup {NoTrack}, progress : 0..Duration, playing : BOOLEAN]
Empty == [track |-> NoTrack, progress |-> 0, playing |-> FALSE]
Server == [track : Tracks, pos : 0..(Duration + Linger - 1), playing : BOOLEAN]
Fresh == {"yes", "ended", "no"}

Free == [event |-> "none", phase |-> "free", age |-> 0, seek |-> 0,
         answer |-> Empty, fresh |-> "no"]

TypeOK ==
    /\ server \in Server
    /\ local \in State
    /\ elapsed \in 0..(Duration + 1)
    /\ queryCount \in Nat
    /\ requested \in BOOLEAN /\ redraw \in BOOLEAN
    /\ pending \in [Events -> Nat]
    /\ request \in [Slots -> [event  : Events \cup {"none"},
                              phase  : {"free", "sent", "served", "lost"},
                              age    : 0..MaxLag,
                              seek   : -1..(Duration + 1),
                              answer : State,
                              fresh  : Fresh]]
    /\ fresh \in Fresh /\ lag \in 0..MaxLag /\ asked \in Nat
    /\ inputs \in 0..MaxInputs /\ failures \in 0..MaxFailures

Init ==
    /\ server \in [track : Tracks, pos : {0}, playing : BOOLEAN]
    /\ local = Empty /\ elapsed = Duration + 1
    /\ queryCount = 0 /\ requested = FALSE /\ redraw = TRUE
    /\ pending = [e \in Events |-> 0]
    /\ request = [s \in Slots |-> Free]
    /\ fresh = "no" /\ lag = 0 /\ asked = 0
    /\ inputs = 0 /\ failures = 0

Counted == inputs < MaxInputs /\ inputs' = inputs + 1

EnqueueAnd(e, bag) == [bag EXCEPT ![e] = @ + 1]

-----------------------------------------------------------------------------
(* Spotify and time.                                                       *)

(* What was answered before is no longer about the track playing. *)
Outdated(f, how) == IF f = "yes" THEN how ELSE f

(* Spotify's state becomes after; how it ended what it played, for the     *)
(* history of answers.                                                     *)
OutdatedRequests(how) ==
    [s \in Slots |-> [request[s] EXCEPT !.fresh = Outdated(@, how)]]

Aged(r) == [r EXCEPT !.age = IF r.phase = "free" THEN 0 ELSE @ + 1]

(* At the end of a track Spotify plays the next one or stops, at the       *)
(* latest Linger ticks later.                                              *)
AfterTick ==
    IF ~server.playing THEN {server}
    ELSE {after \in Server :
            \/ after = [server EXCEPT !.pos = @ + 1]
            \/ server.pos + 1 >= Duration /\ after.pos = 0}

Ends(after) == server.playing /\ after.pos = 0

Tick ==
    /\ ~redraw /\ \A e \in Events : pending[e] = 0
    /\ \A s \in Slots : request[s].phase # "free" => request[s].age < MaxLag
    /\ server' \in AfterTick
    /\ elapsed' = IF elapsed <= Duration THEN elapsed + 1 ELSE elapsed
    /\ LET how == IF Ends(server') THEN "ended" ELSE "yes" IN
        /\ fresh' = Outdated(fresh, how)
        /\ request' = [s \in Slots |-> Aged(OutdatedRequests(how)[s])]
    /\ redraw' = TRUE
    /\ UNCHANGED <<local, queryCount, requested, pending, lag, asked, inputs, failures>>

(* Another client of Spotify plays, pauses, skips or seeks.  librespot     *)
(* reports it if it is the device: its callbacks request the track.        *)
ChangedElsewhere(after, reported) ==
    /\ Counted
    /\ after # server /\ server' = after
    /\ fresh' = Outdated(fresh, "no") /\ request' = OutdatedRequests("no")
    /\ pending' = IF reported THEN EnqueueAnd(Fetch, pending) ELSE pending
    /\ UNCHANGED <<local, elapsed, queryCount, requested, redraw, lag, asked, failures>>

-----------------------------------------------------------------------------
(* Frames.                                                                 *)

LocalDuration == IF local.track = NoTrack THEN 0 ELSE Duration
Total == local.progress + elapsed

(* Mutants: asks for ever, and as soon as the end is reached. *)
NeverGivesUp == local.playing /\ Total > LocalDuration
AsksEarly == local.playing /\ Total >= LocalDuration /\ queryCount < 2

(* The end of the track is passed and asked for less than twice. *)
Asks == local.playing /\ Total > LocalDuration /\ queryCount < 2

(* A call of playback_progress by a frame: for the bar if the track has a  *)
(* duration, for the lyrics if there are any.                              *)
PlaybackProgress ==
    /\ queryCount' = IF local.playing /\ Total < LocalDuration THEN 0
                     ELSE IF Asks THEN queryCount + 1 ELSE queryCount
    /\ pending' = IF Asks THEN EnqueueAnd(Fetch, pending) ELSE pending
    /\ asked' = IF Asks THEN asked + 1 ELSE asked
    /\ redraw' = FALSE
    /\ UNCHANGED <<server, local, elapsed, requested, request, fresh, lag, inputs,
                   failures>>

(* The frame of an empty track asks for it once in the process's life. *)
EmptyFrame ==
    /\ local.track = NoTrack
    /\ requested' = TRUE
    /\ pending' = IF requested THEN pending ELSE EnqueueAnd(Fetch, pending)
    /\ redraw' = FALSE
    /\ UNCHANGED <<server, local, elapsed, queryCount, request, fresh, lag, asked,
                   inputs, failures>>

Key(e) ==
    /\ Counted
    /\ pending' = EnqueueAnd(e, pending)
    /\ UNCHANGED <<server, local, elapsed, queryCount, requested, redraw, request,
                   fresh, lag, asked, failures>>

-----------------------------------------------------------------------------
(* Requests.                                                               *)

(* SeekRight and SeekLeft start from the progress last answered. *)
SeekTarget(e) == CASE e = "SeekRight" -> local.progress + 1
                   [] e = "SeekLeft"  -> local.progress - 1
                   [] OTHER           -> 0

(* Mutant: handles what try_dequeue did not return. *)
TakesAnything(e) == pending' = [pending EXCEPT ![e] = @ - 1]

Dequeue(e) == pending[e] > 0 /\ pending' = [pending EXCEPT ![e] = @ - 1]

Handle(e) ==
    /\ Dequeue(e)
    /\ \E s \in Slots :
        /\ request[s] = Free
        /\ request' = [request EXCEPT ![s] =
             [event |-> e, phase |-> "sent", age |-> 0, seek |-> SeekTarget(e),
              answer |-> Empty, fresh |-> "no"]]
    /\ UNCHANGED <<server, local, elapsed, queryCount, requested, redraw, fresh, lag,
                   asked, inputs, failures>>

Reported == IF server.pos < Duration THEN server.pos ELSE Duration

Served(r, answer, how) ==
    [event |-> r.event, phase |-> "served", age |-> 0, seek |-> r.seek,
     answer |-> answer, fresh |-> how]

(* Spotify answers a fetch. *)
ServeFetch(s) ==
    /\ request[s].phase = "sent" /\ request[s].event = Fetch
    /\ request' = [request EXCEPT ![s] = Served(@,
         [track |-> server.track, progress |-> Reported, playing |-> server.playing],
         IF server.playing THEN "yes" ELSE "no")]
    /\ UNCHANGED <<server, local, elapsed, queryCount, requested, redraw, pending,
                   fresh, lag, asked, inputs, failures>>

(* Spotify executes a command; a seek past the end skips, one before the   *)
(* start is refused.                                                       *)
Executed(r) ==
    {after \in Server :
        \/ r.event = "Resume" /\ after = [server EXCEPT !.playing = TRUE]
        \/ r.event = "Pause" /\ after = [server EXCEPT !.playing = FALSE]
        \/ /\ r.event \in Seeks
           /\ \/ r.seek < 0 /\ after = server
              \/ r.seek \in 0..(Duration - 1) /\ after = [server EXCEPT !.pos = r.seek]
              \/ r.seek >= Duration /\ after.pos = 0 /\ after.playing = server.playing}

ServeCommand(s) ==
    /\ request[s].phase = "sent" /\ request[s].event \in Commands
    /\ \E after \in Executed(request[s]), reported \in BOOLEAN :
        LET how == IF after = server THEN "yes" ELSE "no" IN
        /\ server' = after
        /\ fresh' = Outdated(fresh, how)
        /\ request' = [OutdatedRequests(how) EXCEPT ![s] = Served(@, Empty, "no")]
        /\ pending' = IF reported /\ after # server
                      THEN EnqueueAnd(Fetch, pending) ELSE pending
    /\ UNCHANGED <<local, elapsed, queryCount, requested, redraw, lag, asked, inputs,
                   failures>>

(* Refused, or the connection failed. *)
Lose(s) ==
    /\ request[s].phase \in {"sent", "served"}
    /\ failures < MaxFailures /\ failures' = failures + 1
    /\ request' = [request EXCEPT ![s] = [@ EXCEPT !.phase = "lost", !.fresh = "no"]]
    /\ UNCHANGED <<server, local, elapsed, queryCount, requested, redraw, pending,
                   fresh, lag, asked, inputs>>

(* Mutant: playback_last_updated_time keeps its value. *)
TimeKept == elapsed

(* update_playback_last_updated_time(). *)
TimeUpdated == 0

(* A fetch stores its answer, an empty one after an error, and the time.   *)
CompleteFetch(s) ==
    /\ request[s].phase \in {"served", "lost"} /\ request[s].event = Fetch
    /\ local' = IF request[s].phase = "lost" THEN Empty ELSE request[s].answer
    /\ elapsed' = TimeUpdated
    /\ fresh' = request[s].fresh /\ lag' = request[s].age
    /\ asked' = 0
    /\ request' = [request EXCEPT ![s] = Free]
    /\ redraw' = TRUE
    /\ UNCHANGED <<server, queryCount, requested, pending, inputs, failures>>

(* A command stores isPlaying, whether or not it failed, and no time.      *)
CompleteCommand(s) ==
    /\ request[s].phase \in {"served", "lost"} /\ request[s].event \in Commands
    /\ local' = [local EXCEPT !.playing = request[s].event = "Resume"]
    /\ fresh' = IF local' = local THEN fresh ELSE "no"
    /\ request' = [request EXCEPT ![s] = Free]
    /\ redraw' = TRUE
    /\ UNCHANGED <<server, elapsed, queryCount, requested, pending, lag, asked, inputs,
                   failures>>

Next ==
    \/ Tick
    \/ \E after \in Server, reported \in BOOLEAN : ChangedElsewhere(after, reported)
    \/ PlaybackProgress \/ EmptyFrame
    \/ \E e \in Commands : Key(e)
    \/ \E e \in Events : Handle(e)
    \/ \E s \in Slots : \/ ServeFetch(s) \/ ServeCommand(s) \/ Lose(s)
                        \/ CompleteFetch(s) \/ CompleteCommand(s)

Spec == Init /\ [][Next]_vars

-----------------------------------------------------------------------------
(* While Spotify plays the track the client was answered for, the bar is   *)
(* behind Spotify by exactly the time the answer travelled, and never      *)
(* ahead (spotifyData.cpp:15-26, spotifyWebAPI.cpp:348).                   *)
ShownIsLate ==
    fresh = "yes" =>
        /\ Total + lag <= server.pos
        /\ local.progress < Duration /\ elapsed <= Duration
           => Total + lag = server.pos

(* However many frames are drawn, the end of a track makes at most two     *)
(* requests until an answer is stored (spotifyData.cpp:28-33).             *)
AsksTwice == asked <= 2

(* A frame that asks because the track must have ended is right: the track *)
(* it was answered for has ended at Spotify, unless something else was     *)
(* done to the playback since (spotifyData.cpp:30).                        *)
AsksAfterTheEnd ==
    [][asked' > asked /\ fresh # "no" =>
         fresh = "ended" \/ server.pos > Duration]_vars
=============================================================================
