----------------------------- MODULE LyricWindow -----------------------------
(***************************************************************************)
(* The three lyric lines a frame shows.  Lines are numbered from 0, as in  *)
(* curLyric; times are in units of the display offset's granularity.       *)
(***************************************************************************)
EXTENDS Integers, FiniteSets

CONSTANTS
    MaxLines, MaxTime,  \* bounds of the lyrics
    Offset              \* the lyrics run this much ahead of the progress

ASSUME WindowAssumption ==
    /\ MaxLines \in Nat /\ MaxTime \in Nat /\ Offset \in Nat

VARIABLES
    size,       \* curLyric.size()
    time,       \* time_ms of each line
    progress    \* playback_progress()

windowVars == <<size, time, progress>>

Rows == 3       \* lines in the window

AnyOrder(t, n) == TRUE      \* mutant: the lines are not sorted

(* librespot.rs sorts the lines by time. *)
Sorted(t, n) == \A i, j \in 0..n-1 : i < j => t[i] <= t[j]

SortedLyrics(n) == {t \in [0..n-1 -> 0..MaxTime] : Sorted(t, n)}

(* The loop takes lines while their time has come. *)
Started == {i \in 0..size-1 : \A j \in 0..i : time[j] <= progress + Offset}

(* Mutant: looks for the first line still to come, and finds none at the end. *)
BeforeFirstLater ==
    IF Cardinality(Started) \in {0, size} THEN 0 ELSE Cardinality(Started) - 1

Current == IF Started = {} THEN 0 ELSE Cardinality(Started) - 1

(* One past the last line shown, starting one line before c. *)
End(c, n) == LET start == IF c = 0 THEN 0 ELSE c - 1
             IN  IF start + Rows <= n THEN start + Rows ELSE n

NoSlide(c, n) == IF c = 0 THEN 0 ELSE c - 1     \* mutant: short at the end

Start(c, n) == IF End(c, n) >= Rows THEN End(c, n) - Rows ELSE 0

WindowInit ==
    /\ size \in 0..MaxLines /\ time \in SortedLyrics(size)
    /\ progress = 0

(* Playback goes on. *)
Advance == /\ progress < MaxTime /\ progress' = progress + 1
           /\ UNCHANGED <<size, time>>

(* A fetch stores another progress. *)
StoreProgress(p) == progress' = p /\ UNCHANGED <<size, time>>

(* A lookup refills curLyric. *)
Refill(n) == /\ size' = n /\ time' \in SortedLyrics(n)
             /\ UNCHANGED progress

WindowNext ==
    \/ Advance
    \/ \E p \in 0..MaxTime : StoreProgress(p)
    \/ \E n \in 0..MaxLines : Refill(n)

WindowSpec == WindowInit /\ [][WindowNext]_windowVars

-----------------------------------------------------------------------------
WindowTypeOK ==
    /\ size \in 0..MaxLines /\ time \in [0..size-1 -> 0..MaxTime]
    /\ progress \in 0..MaxTime

(* The highlighted line is the last one whose time has come; before the    *)
(* first, the first (ui.cpp:421-427, librespot.rs:140).                *)
HighlightsLastStarted ==
    size > 0 => /\ Current \in 0..size-1
                /\ Current > 0 => time[Current] <= progress + Offset
                /\ \A i \in 0..size-1 : time[i] <= progress + Offset => i <= Current

(* The window has three lines, or all there are, and the highlighted line  *)
(* is one of them (ui.cpp:429-440).                                        *)
WindowShowsCurrent ==
    size > 0 => /\ 0 <= Start(Current, size) /\ End(Current, size) <= size
                /\ Start(Current, size) <= Current /\ Current < End(Current, size)
                /\ \/ End(Current, size) - Start(Current, size) = Rows
                   \/ size < Rows /\ Start(Current, size) = 0 /\ End(Current, size) = size

(* As the song goes on the window never scrolls back. *)
ScrollsForward ==
    [][Advance => Start(Current, size)' >= Start(Current, size)]_windowVars
=============================================================================
