----------------------------- MODULE MCPlayback -----------------------------
(* Playback with interchangeable slots. *)
EXTENDS Playback, TLC

SlotSymmetry == Permutations(Slots) \cup Permutations(Tracks)
=============================================================================
