------------------------------- MODULE Lyrics -------------------------------
(***************************************************************************)
(* Lyrics and cover of the playing track.  The main thread stores tracks,  *)
(* renders frames and posts lookups; librespot's strand, on a pool thread, *)
(* runs the lookups one by one.  A lookup reads the track when it runs.    *)
(***************************************************************************)
EXTENDS Naturals

CONSTANTS
    Tracks,         \* track ids
    NoTrack,        \* the empty id
    Idle,           \* the strand runs no lookup
    WithImage,      \* tracks with an image for the terminal's size
    MaxChanges      \* bounds the tracks stored and the other inputs

ASSUME LyricsAssumption ==
    /\ NoTrack \notin Tracks /\ Idle \notin Tracks
    /\ WithImage \subseteq Tracks /\ MaxChanges \in Nat

Ids == Tracks \cup {NoTrack}

VARIABLES
    track,          \* currentlyPlayTrack's id
    lastRequest,    \* last_lyrics_request_id
    queued,         \* GetLyrics events in eventQueue
    posted,         \* lookups posted to the strand and not started
    job,            \* the id the running lookup read
    lyrics,         \* the id whose lookup filled curLyric, possibly with no line
    imageRendered,  \* image_rendered
    image,          \* the id image_component_ was made for
    changes,
    unseen,         \* history: since its last request, a frame missed a track
    failed          \* history: the last lookup ended in an error

vars == <<track, lastRequest, queued, posted, job, lyrics, imageRendered,
          image, changes, unseen, failed>>

TypeOK == /\ track \in Ids /\ lastRequest \in Ids
          /\ queued \in Nat /\ posted \in Nat
          /\ job \in Tracks \cup {Idle}
          /\ lyrics \in Ids
          /\ imageRendered \in BOOLEAN /\ image \in Ids
          /\ changes \in 0..MaxChanges
          /\ unseen \in BOOLEAN /\ failed \in BOOLEAN

Init == /\ track = NoTrack /\ lastRequest = NoTrack
        /\ queued = 0 /\ posted = 0 /\ job = Idle
        /\ lyrics = NoTrack
        /\ imageRendered = FALSE /\ image = NoTrack
        /\ changes = 0 /\ unseen = FALSE /\ failed = FALSE

Changes == changes < MaxChanges /\ changes' = changes + 1

(* A completed fetch stores a track, or the empty one. *)
StoreTrack(t) ==
    /\ Changes /\ track' = t
    /\ unseen' = (unseen \/ (t # track /\ track # lastRequest))
    /\ UNCHANGED <<lastRequest, queued, posted, job, lyrics, imageRendered,
                   image, failed>>

(* Event_NextTrack arrives at the screen, or the terminal's size changes.  *)
DropImage ==
    /\ Changes /\ imageRendered' = FALSE
    /\ UNCHANGED <<track, lastRequest, queued, posted, job, lyrics, image,
                   unseen, failed>>

(* Mutant: asks for lyrics once. *)
AsksOnce == lastRequest = NoTrack /\ track # NoTrack

AsksForLyrics == track # lastRequest

(* Mutant: the image is kept until the next Event_NextTrack. *)
OnlyIfDropped == ~imageRendered

(* image_rendered is false when image_box renders. *)
RendersImage == ~imageRendered \/ track # lastRequest

(* A frame: image_lycics_element asks for lyrics once per change of the id *)
(* it sees; then image_box makes the image unless it has none.             *)
Frame ==
    /\ track # lastRequest \/ (RendersImage /\ track \in WithImage)
    /\ lastRequest' = track
    /\ queued' = IF AsksForLyrics THEN queued + 1 ELSE queued
    /\ unseen' = (unseen /\ track = lastRequest)
    /\ imageRendered' = (track \in WithImage \/ (imageRendered /\ track = lastRequest))
    /\ image' = IF RendersImage /\ track \in WithImage THEN track ELSE image
    /\ UNCHANGED <<track, posted, job, lyrics, changes, failed>>

PostsIfIdle == IF job = Idle THEN posted + 1 ELSE posted    \* mutant

PostsLookup == posted + 1

(* The handler of GetLyrics calls update_lyrics. *)
HandleGetLyrics ==
    /\ queued > 0
    /\ queued' = queued - 1 /\ posted' = PostsLookup
    /\ UNCHANGED <<track, lastRequest, job, lyrics, imageRendered, image,
                   changes, unseen, failed>>

LookupId == IF track = NoTrack THEN Idle ELSE track

(* With no track the lookup returns at once.  The strand has run           *)
(* play_backends before, so the context exists.                            *)
StartLookup ==
    /\ posted > 0 /\ job = Idle
    /\ posted' = posted - 1
    /\ job' = LookupId
    /\ UNCHANGED <<track, lastRequest, queued, lyrics, imageRendered, image,
                   changes, unseen, failed>>

(* curLyric is cleared and filled under its write lock.  A 404 is an empty *)
(* list; any other error keeps the old lines.                              *)
EndLookup(ok) ==
    /\ job # Idle /\ job' = Idle
    /\ lyrics' = IF ok THEN job ELSE lyrics
    /\ failed' = ~ok
    /\ UNCHANGED <<track, lastRequest, queued, posted, imageRendered, image,
                   changes, unseen>>

Next == \/ \E t \in Ids : StoreTrack(t)
        \/ DropImage
        \/ Frame
        \/ HandleGetLyrics
        \/ StartLookup
        \/ \E ok \in BOOLEAN : EndLookup(ok)

Spec == Init /\ [][Next]_vars

(* Frames are drawn and events handled on timers; the strand runs what is  *)
(* posted, and lookups return.                                             *)
FairSpec == Spec /\ WF_vars(Frame) /\ WF_vars(HandleGetLyrics)
                 /\ WF_vars(StartLookup) /\ WF_vars(\E ok \in BOOLEAN : EndLookup(ok))

-----------------------------------------------------------------------------
Settled == track = lastRequest /\ queued = 0 /\ posted = 0 /\ job = Idle

(* Once settled, the lines shown are the playing track's, unless the last  *)
(* lookup failed, which is never retried, or two tracks were stored        *)
(* between two frames: the second may restore last_lyrics_request_id after *)
(* a lookup has read the first (ui.cpp:603-607, librespot.cpp:32-45).      *)
LyricsMatchTrack ==
    Settled /\ track # NoTrack /\ ~unseen /\ ~failed => lyrics = track

(* An image that a frame shows is the playing track's, whatever stored it: *)
(* a missed Event_NextTrack does not matter (ui.cpp:553-577, 603-607).     *)
ImageMatchesTrack == imageRendered /\ track = lastRequest => image = track

(* A track that stays gets its lyrics, with the same two exceptions. *)
LyricsArrive ==
    \A t \in Tracks : track = t ~> (lyrics = t \/ track # t \/ unseen \/ failed)
=============================================================================
