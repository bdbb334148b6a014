---------------------------- MODULE MCEventLoop ----------------------------
(* Instances of EventLoop for TLC: one player thread, one representative of *)
(* each kind of command, and mutants of its definitions.                    *)
EXTENDS EventLoop

MCUiInputs == {"GetCurrentlyPlayingTrack", "SetVolumeUp", "GetLyrics", "Set_shuffle"}
MCDbusInputs == {"Exit", "Pause"}
=============================================================================
