---------------------------- MODULE MprisValues ----------------------------
(***************************************************************************)
(* The times MPRIS publishes: the getters of Metadata and Position turn    *)
(* the milliseconds of the playback state into microseconds.  The product  *)
(* is one of two ints, widened to int64_t only afterwards; where it does   *)
(* not fit an int the code leaves open what is published.                  *)
(*                                                                         *)
(* Published times are counted in units of 8 microseconds, 125 of them in  *)
(* a millisecond, so that the whole range of a 32-bit int fits TLC's.      *)
(***************************************************************************)
EXTENDS Integers

CONSTANTS
    Durations,      \* durations of tracks, in milliseconds
    Progresses,     \* progress at a fetch, in milliseconds
    None            \* no track; nothing published

PerMs == 125
IntRange == 2^29        \* 2^32 values of an int, in units
IntMax == 2^28 - 1

VARIABLES
    track,          \* currentlyPlayTrack: duration_ms and progress_ms
    published       \* what D-Bus clients were last told, and of which track

vars == <<track, published>>

Tracks == [duration : Durations, progress : Progresses]

Init == track = None /\ published = None

(* A fetch stores Spotify's answer; an error or an answer without an item  *)
(* leaves a track without a name.                                          *)
Store ==
    /\ track' \in {t \in Tracks : t.progress <= t.duration} \cup {None}
    /\ UNCHANGED published

(* The result of an int multiplication by 1000: exact if it fits, else     *)
(* undefined: wrapped around, or exact where the compiler widened first.   *)
Wrapped(n) == ((n + IntMax + 1) % IntRange) - (IntMax + 1)
Microseconds(ms) ==
    IF ms * PerMs <= IntMax THEN {ms * PerMs} ELSE {Wrapped(ms * PerMs), ms * PerMs}

(* PropertiesChanged, or a client's Get: Metadata is empty without a name. *)
Publish ==
    /\ track # None
    /\ \E l \in Microseconds(track.duration), p \in Microseconds(track.progress) :
         published' = [of |-> track, length |-> l, position |-> p]
    /\ UNCHANGED track

PublishNothing == track = None /\ published' = None /\ UNCHANGED track

Next == Store \/ Publish \/ PublishNothing

Spec == Init /\ [][Next]_vars
-----------------------------------------------------------------------------
(* mpris.cpp:290, "length (microseconds)": the published length is the     *)
(* duration of the track in microseconds, whatever the track.              *)
LengthInMicroseconds ==
    published # None => published.length = published.of.duration * PerMs
=============================================================================
