------------------------------- MODULE Mpris -------------------------------
(***************************************************************************)
(* MprisServer's notifier and the completions that feed it.  All steps run *)
(* on the io_context thread.  notify_channel has no buffer: try_send       *)
(* succeeds only while handle_notify is suspended in async_receive, and    *)
(* then posts its resumption; any other message is dropped.                *)
(***************************************************************************)
EXTENDS Naturals

CONSTANTS
    MaxRequests     \* bound on the requests sent

ASSUME RequestsAssumption == MaxRequests \in Nat

(* HTTP requests by what their completion does here.  "volume" is in none: *)
(* it notifies when it is sent, and its completion changes no property.    *)
Writing   == {"fetch", "resume", "pause", "seek"}   \* write the track, then notify
Notifying == Writing \cup {"next", "previous"}
Requests  == Notifying \cup {"nextTrack"}           \* written without a message

VARIABLES
    track,      \* version of currentlyPlayTrack
    receiver,   \* handle_notify: not started, receiving, resumption posted, ended
    published,  \* the version whose properties the last signal carried
    announced,  \* history: the version at the last try_send
    inflight,   \* number of requests in flight, by kind
    sent        \* requests sent so far

vars == <<track, receiver, published, announced, inflight, sent>>

TypeOK == /\ track \in Nat
          /\ receiver \in {"off", "waiting", "posted", "dead"}
          /\ published \in Nat /\ announced \in Nat
          /\ inflight \in [Requests -> Nat]
          /\ sent \in 0..MaxRequests

(* mpris.enable decides whether start() ran; its coroutine reaches         *)
(* async_receive before the event handler's first step.                    *)
Init == /\ track = 0 /\ published = 0 /\ announced = 0
        /\ receiver \in {"off", "waiting"}
        /\ inflight = [r \in Requests |-> 0] /\ sent = 0

(* Mutant: the channel never has a receiver. *)
TrySendFails == UNCHANGED receiver /\ announced' = track'

TrySend ==
    /\ receiver' = IF receiver = "waiting" THEN "posted" ELSE receiver
    /\ announced' = track'

WriteTrack == track' = track + 1

SendRequest(r) ==
    /\ sent < MaxRequests /\ sent' = sent + 1
    /\ inflight' = [inflight EXCEPT ![r] = @ + 1]
    /\ UNCHANGED <<track, receiver, published, announced>>

(* SetVolumeUp and SetVolumeDown notify at once. *)
SetVolume ==
    /\ sent < MaxRequests /\ sent' = sent + 1
    /\ UNCHANGED track
    /\ TrySend
    /\ UNCHANGED <<published, inflight>>

(* Mutant: the callback runs again from the catch of fetchData. *)
CompletesTwice(r) == /\ inflight[r] > 0
                     /\ inflight' = [inflight EXCEPT ![r] = @ - 2]

Completes(r) == /\ inflight[r] > 0
                /\ inflight' = [inflight EXCEPT ![r] = @ - 1]

(* A fetch stores what it got, an empty track after an error; the commands *)
(* store isPlaying whether or not they failed; the callback notifies.      *)
WriteAndNotify(r) ==
    /\ Completes(r) /\ WriteTrack /\ TrySend
    /\ UNCHANGED <<published, sent>>

(* Skipping leaves the track to librespot's own events. *)
NotifyOnly(r) ==
    /\ Completes(r) /\ UNCHANGED track /\ TrySend
    /\ UNCHANGED <<published, sent>>

(* The handler of NextTrack posts to the UI only. *)
WriteOnly ==
    /\ Completes("nextTrack") /\ WriteTrack
    /\ UNCHANGED <<receiver, published, announced, sent>>

(* An exception ends that coroutine before the write. *)
NextTrackFails ==
    /\ Completes("nextTrack")
    /\ UNCHANGED <<track, receiver, published, announced, sent>>

(* Mutant: a message publishes its own change, not the current state. *)
OneChangeMore == IF published < track THEN published + 1 ELSE published

(* notifyChanged makes sdbus read every property through its getter. *)
PublishedVersion == track

EndsAfterOne == "dead"      \* mutant: no loop around async_receive

ReceivesAgain == "waiting"

Deliver ==
    /\ receiver = "posted"
    /\ published' = PublishedVersion
    /\ receiver' = ReceivesAgain
    /\ UNCHANGED <<track, announced, inflight, sent>>

(* Emitting throws: the detached coroutine is gone. *)
DeliverThrows ==
    /\ receiver = "posted"
    /\ receiver' = "dead"
    /\ UNCHANGED <<track, published, announced, inflight, sent>>

Next == \/ \E r \in Requests : SendRequest(r)
        \/ SetVolume
        \/ \E r \in Writing : WriteAndNotify(r)
        \/ \E r \in Notifying \ Writing : NotifyOnly(r)
        \/ WriteOnly \/ NextTrackFails
        \/ Deliver \/ DeliverThrows

Spec == Init /\ [][Next]_vars

(* A posted resumption runs. *)
FairSpec == Spec /\ WF_vars(Deliver \/ DeliverThrows)

-----------------------------------------------------------------------------
(* A resumption is posted exactly when a publication is due. *)
Abstract == INSTANCE Notify WITH
    state <- track,
    due   <- receiver = "posted",
    alive <- receiver \in {"waiting", "posted"}

(* The bufferless channel with its dropped messages implements Notify. *)
ImplementsNotify == Abstract!FairSpec

(* A dropped try_send loses nothing: while the receiver waits, the last    *)
(* signal carries every announced version (mpris.cpp:63, event.cpp:113).   *)
NoLostUpdate == receiver = "waiting" => published >= announced

(* Clients catch up with every announced version, or the notifier ended.   *)
ClientsCatchUp == Abstract!AnnouncementsArrive
=============================================================================
