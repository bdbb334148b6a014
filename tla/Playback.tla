------------------------------ MODULE Playback ------------------------------
(***************************************************************************)
(* What the client believes is playing, against what Spotify plays.  Keys  *)
(* and D-Bus calls become requests; a request is sent, served or lost, and *)
(* completed, in any order with the others.  While librespot is the active *)
(* device its player events make the client fetch the state again.         *)
(***************************************************************************)
EXTENDS Naturals

CONSTANTS
    Tracks,         \* track ids
    NoTrack,        \* the empty id of an empty CurrentlyPlayingTrack
    Slots,          \* bounds the requests in flight
    MaxInputs,      \* bounds the keys, D-Bus calls and changes made elsewhere
    MaxFailures     \* bounds the requests that end in an error

ASSUME PlaybackAssumption ==
    /\ NoTrack \notin Tracks /\ Tracks # {}
    /\ MaxInputs \in Nat /\ MaxFailures \in Nat

Events == {"Play", "Pause", "Seek", "SkipToNext", "GetCurrentlyPlayingTrack",
           "NextTrack"}
Fetches == {"GetCurrentlyPlayingTrack", "NextTrack"}
Fields  == {"track", "playing"}

VARIABLES
    server,     \* Spotify's state; here: librespot is the active device
    local,      \* currentlyPlayTrack: the id and isPlaying
    pending,    \* eventQueue, with the player events librespot still holds
    request,    \* the request of each slot
    good,       \* history: fields last written by the last request served
                \* that writes them, with no error since
    goal,       \* history: the state asked for by the only input since a rest
    inputs, failures

vars == <<server, local, pending, request, good, goal, inputs, failures>>

Playback == [track : Tracks, playing : BOOLEAN]
State    == [track : Tracks \cup {NoTrack}, playing : BOOLEAN]
EmptyState == [track |-> NoTrack, playing |-> FALSE]

Free == [event |-> "none", phase |-> "free", answer |-> EmptyState, fresh |-> {}]

TypeOK ==
    /\ server \in [track : Tracks, playing : BOOLEAN, here : BOOLEAN]
    /\ local \in State
    /\ pending \in [Events -> Nat]
    /\ request \in [Slots -> [event  : Events \cup {"none"},
                              phase  : {"free", "sent", "served", "lost"},
                              answer : State,
                              fresh  : SUBSET Fields]]
    /\ good \subseteq Fields
    /\ goal \subseteq BOOLEAN
    /\ inputs \in 0..MaxInputs /\ failures \in 0..MaxFailures

(* After TransferPlayback; the first frame asks for the track. *)
Init ==
    /\ server \in [track : Tracks, playing : BOOLEAN, here : {TRUE}]
    /\ local = EmptyState
    /\ pending = [e \in Events |-> IF e = "GetCurrentlyPlayingTrack" THEN 1 ELSE 0]
    /\ request = [s \in Slots |-> Free]
    /\ good = {} /\ goal = {} /\ inputs = 0 /\ failures = 0

-----------------------------------------------------------------------------
(* Inputs.                                                                 *)

AtRest == /\ \A e \in Events : pending[e] = 0
          /\ \A s \in Slots : request[s].phase = "free"

Enqueue(events) ==
    pending' = [e \in Events |-> pending[e] + (IF e \in events THEN 1 ELSE 0)]

Counted == inputs < MaxInputs /\ inputs' = inputs + 1

(* Mutant: the key asks for what is shown. *)
SameAsShown == IF local.playing THEN "Play" ELSE "Pause"

(* The space key. *)
Toggle == IF local.playing THEN "Pause" ELSE "Play"

SpaceKey ==
    /\ Counted /\ Enqueue({Toggle})
    /\ goal' = IF AtRest /\ server.here /\ "playing" \in good
               THEN {~server.playing} ELSE {}
    /\ UNCHANGED <<server, local, request, good, failures>>

(* The arrow and bracket keys, and the methods of MPRIS. *)
Command(e) ==
    /\ Counted /\ Enqueue({e})
    /\ goal' = {}
    /\ UNCHANGED <<server, local, request, good, failures>>

(* Mutant: no callback for PlayerEvent::Paused. *)
PlayingOnly(before, after) ==
    (IF after.track # before.track THEN {"NextTrack"} ELSE {}) \cup
    (IF after.playing THEN {"GetCurrentlyPlayingTrack"} ELSE {})

(* The callbacks of librespot's player events: TrackChanged enqueues       *)
(* NextTrack; Playing, Paused and EndOfTrack enqueue a fetch.  Seeked, and *)
(* Stopped when playback moves away, have none.                            *)
PlayerCallbacks(before, after) ==
    (IF after.track # before.track THEN {"NextTrack"} ELSE {}) \cup
    {"GetCurrentlyPlayingTrack"}

(* librespot reports what changes on it, and loads what moves to it. *)
Reports(after) ==
    IF ~after.here \/ after = server THEN {} ELSE PlayerCallbacks(server, after)

(* A track ends, or another Spotify client plays, pauses, skips or moves   *)
(* the playback.                                                           *)
ChangedElsewhere(after) ==
    /\ Counted
    /\ server' = after /\ Enqueue(Reports(after))
    /\ goal' = {}
    /\ UNCHANGED <<local, request, good, failures>>

-----------------------------------------------------------------------------
(* Requests.                                                               *)

(* What a completed request stores in currentlyPlayTrack: Seek stores      *)
(* isPlaying = false, skipping stores nothing.                             *)
Writes(e) == CASE e \in Fetches    -> Fields
               [] e = "SkipToNext" -> {}
               [] OTHER            -> {"playing"}

Dequeue(e) == pending[e] > 0 /\ pending' = [pending EXCEPT ![e] = @ - 1]

Handle(e) ==
    /\ Dequeue(e)
    /\ \E s \in Slots :
        /\ request[s] = Free
        /\ request' = [request EXCEPT
                ![s] = [event |-> e, phase |-> "sent",
                        answer |-> EmptyState, fresh |-> {}]]
    /\ UNCHANGED <<server, local, good, goal, inputs, failures>>

(* Spotify executes the request. *)
Executed(e) ==
    {after \in [track : Tracks, playing : BOOLEAN, here : {server.here}] :
        CASE e = "Play"       -> after = [server EXCEPT !.playing = TRUE]
          [] e = "Pause"      -> after = [server EXCEPT !.playing = FALSE]
          [] e = "SkipToNext" -> after.playing
          [] OTHER            -> after = server}

Serve(s) ==
    /\ request[s].phase = "sent"
    /\ LET e == request[s].event IN
       \E after \in Executed(e) :
        /\ server' = after /\ Enqueue(Reports(after))
        /\ request' = [t \in Slots |->
             IF t = s
             THEN [request[s] EXCEPT
                     !.phase = "served", !.fresh = Writes(e),
                     !.answer = [track |-> after.track, playing |-> after.playing]]
             ELSE [request[t] EXCEPT !.fresh = @ \ Writes(e)]]
        /\ good' = good \ Writes(e)
        /\ goal' = IF e = "SkipToNext" THEN {} ELSE goal
    /\ UNCHANGED <<local, inputs, failures>>

(* Spotify refuses the request, or the connection fails before or after    *)
(* Spotify executed it.                                                    *)
Lose(s) ==
    /\ request[s].phase \in {"sent", "served"}
    /\ failures < MaxFailures /\ failures' = failures + 1
    /\ LET e == request[s].event IN
        /\ request' = [t \in Slots |->
             [request[t] EXCEPT !.phase = IF t = s THEN "lost" ELSE @,
                                !.fresh = @ \ Writes(e)]]
        /\ good' = good \ Writes(e)
    /\ goal' = {}
    /\ UNCHANGED <<server, local, pending, inputs>>

(* What completing r stores: a fetch its answer, an empty track after an   *)
(* error (an exception in NextTrack's coroutine skips the write); Play     *)
(* and Pause their own value, whether or not they failed.                  *)
Stored(r) ==
    CASE r.event \in Fetches /\ r.phase = "served" -> {r.answer}
      [] r.event = "GetCurrentlyPlayingTrack" /\ r.phase = "lost" -> {EmptyState}
      [] r.event = "NextTrack" /\ r.phase = "lost" -> {EmptyState, local}
      [] r.event = "SkipToNext" -> {local}
      [] OTHER -> {[local EXCEPT !.playing = r.event = "Play"]}

Complete(s) ==
    /\ request[s].phase \in {"served", "lost"}
    /\ LET r == request[s] IN
        /\ local' \in Stored(r)
        /\ good' = (good \ Writes(r.event))
                   \cup (IF r.phase = "lost" \/ r.event = "Seek" THEN {} ELSE r.fresh)
    /\ request' = [request EXCEPT ![s] = Free]
    /\ goal' = IF request[s].event = "Seek" THEN {} ELSE goal
    /\ UNCHANGED <<server, pending, inputs, failures>>

Next ==
    \/ SpaceKey
    \/ \E e \in {"Play", "Pause", "Seek", "SkipToNext"} : Command(e)
    \/ \E after \in [track : Tracks, playing : BOOLEAN, here : BOOLEAN] :
            after # server /\ ChangedElsewhere(after)
    \/ \E e \in Events : Handle(e)
    \/ \E s \in Slots : Serve(s) \/ Lose(s) \/ Complete(s)

Spec == Init /\ [][Next]_vars

-----------------------------------------------------------------------------
(* At rest, while librespot plays, the client shows Spotify's state, if    *)
(* responses did not overtake each other, none was lost and no seek        *)
(* completed since: every change brings a fetch served after it            *)
(* (librespot.cpp:63-77, spotifyWebAPI.cpp:343-496).                       *)
ShowsServer == AtRest /\ server.here => \A f \in good : local[f] = server[f]

(* A space pressed at rest toggles: once at rest again with no other input *)
(* and no error, Spotify plays what was asked and the client shows it,     *)
(* whichever of the command's and the fetch's answers came last            *)
(* (ui.cpp:214-222).                                                       *)
SpaceToggles == AtRest => goal \subseteq {server.playing} \cap {local.playing}
=============================================================================
