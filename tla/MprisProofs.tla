---------------------------- MODULE MprisProofs ----------------------------
(***************************************************************************)
(* The notifier keeps its promise for any number of requests: its steps    *)
(* are steps of Notify, and no announced change is left unpublished.       *)
(***************************************************************************)
EXTENDS Mpris, TLAPS

USE RequestsAssumption DEF Requests, Notifying, Writing

(* Versions only grow, and nothing newer than the track is known. *)
Versions == announced <= track /\ published <= track

IInv == TypeOK /\ Versions /\ NoLostUpdate

LEMMA InitInv == Init => IInv
BY DEF Init, IInv, TypeOK, Versions, NoLostUpdate

LEMMA StepInv == IInv /\ [Next]_vars => IInv'
<1> SUFFICES ASSUME IInv, [Next]_vars PROVE IInv'
  OBVIOUS
<1> USE DEF IInv, TypeOK, Versions, NoLostUpdate
<1>1. ASSUME NEW r \in Requests, Completes(r) PROVE inflight' \in [Requests -> Nat]
  BY <1>1 DEF Completes
<1>2. ASSUME NEW r \in Requests, SendRequest(r) PROVE IInv'
  BY <1>2 DEF SendRequest
<1>3. CASE SetVolume
  BY <1>3 DEF SetVolume, TrySend
<1>4. ASSUME NEW r \in Writing, WriteAndNotify(r) PROVE IInv'
  BY <1>1, <1>4 DEF WriteAndNotify, WriteTrack, TrySend
<1>5. ASSUME NEW r \in Notifying \ Writing, NotifyOnly(r) PROVE IInv'
  BY <1>1, <1>5 DEF NotifyOnly, TrySend
<1>6. CASE WriteOnly
  BY <1>1, <1>6 DEF WriteOnly, WriteTrack
<1>7. CASE NextTrackFails
  BY <1>1, <1>7 DEF NextTrackFails
<1>8. CASE Deliver
  BY <1>8 DEF Deliver, PublishedVersion, ReceivesAgain
<1>9. CASE DeliverThrows
  BY <1>9 DEF DeliverThrows
<1>10. CASE UNCHANGED vars
  BY <1>10 DEF vars
<1> QED
  BY <1>2, <1>3, <1>4, <1>5, <1>6, <1>7, <1>8, <1>9, <1>10 DEF Next

THEOREM Invariance == Spec => []IInv
BY InitInv, StepInv, PTL DEF Spec

(* Every variable keeps its type. *)
THEOREM MprisTypeCorrectness == Spec => []TypeOK
<1>1. IInv => TypeOK
  BY DEF IInv
<1> QED BY <1>1, Invariance, PTL

(* While the receiver waits, D-Bus clients have every announced change. *)
THEOREM DroppedMessagesLoseNothing == Spec => []NoLostUpdate
<1>1. IInv => NoLostUpdate
  BY DEF IInv
<1> QED BY <1>1, Invariance, PTL

(* Every behaviour of the notifier is one of Notify: its initial states    *)
(* are, and each step announces, changes silently, publishes, fails or     *)
(* stutters.                                                               *)
THEOREM Refinement == Spec => Abstract!Spec
<1>1. Init => Abstract!Init
  BY DEF Init, Abstract!Init
<1>2. IInv /\ [Next]_vars => [Abstract!Next]_(Abstract!vars)
  <2> SUFFICES ASSUME IInv, [Next]_vars PROVE [Abstract!Next]_(Abstract!vars)
    OBVIOUS
  <2> USE DEF IInv, TypeOK, Abstract!Next, Abstract!vars
  <2>1. ASSUME NEW r \in Requests, SendRequest(r) PROVE UNCHANGED Abstract!vars
    BY <2>1 DEF SendRequest
  <2>2. ASSUME TrySend, track' \in {track, track + 1}, UNCHANGED published,
               receiver \in {"off", "waiting", "posted", "dead"}
        PROVE  Abstract!Announce
    BY <2>2 DEF TrySend, Abstract!Announce
  <2>3. CASE SetVolume
    BY <2>2, <2>3 DEF SetVolume
  <2>4. ASSUME NEW r \in Writing, WriteAndNotify(r) PROVE Abstract!Next
    BY <2>2, <2>4 DEF WriteAndNotify, WriteTrack
  <2>5. ASSUME NEW r \in Notifying \ Writing, NotifyOnly(r) PROVE Abstract!Next
    BY <2>2, <2>5 DEF NotifyOnly
  <2>6. CASE WriteOnly
    BY <2>6 DEF WriteOnly, WriteTrack, Abstract!ChangeSilently
  <2>7. CASE NextTrackFails
    BY <2>7 DEF NextTrackFails
  <2>8. CASE Deliver
    BY <2>8 DEF Deliver, PublishedVersion, ReceivesAgain, Abstract!Publish
  <2>9. CASE DeliverThrows
    BY <2>9 DEF DeliverThrows, Abstract!Fail
  <2>10. CASE UNCHANGED vars
    BY <2>10 DEF vars
  <2> QED
    BY <2>1, <2>3, <2>4, <2>5, <2>6, <2>7, <2>8, <2>9, <2>10 DEF Next
<1> QED BY <1>1, <1>2, Invariance, PTL DEF Spec, Abstract!Spec

=============================================================================
