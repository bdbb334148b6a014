---------------------------- MODULE LyricsProofs ----------------------------
(***************************************************************************)
(* For any number of tracks and requests: settled lyrics and rendered      *)
(* images are those of the track, up to the exceptions Lyrics names.  For   *)
(* any number of lines, the window shows the right one of them.            *)
(***************************************************************************)
EXTENDS Lyrics, LyricWindow, FiniteSetTheorems, TLAPS

USE LyricsAssumption DEF Ids

(* A lookup that will read the track, or has read it, is on its way, or    *)
(* its lines are there.                                                    *)
Coming == \/ track # lastRequest \/ queued > 0 \/ posted > 0
          \/ job = track
          \/ job = Idle /\ (lyrics = track \/ failed)
          \/ unseen \/ track = NoTrack

(* An image is rendered by a frame that has seen its track. *)
Rendered == imageRendered => image = lastRequest

IInv == TypeOK /\ Coming /\ Rendered

LEMMA InitInv == Init => IInv
<1> SUFFICES ASSUME Init PROVE IInv
  OBVIOUS
<1>1. TypeOK
  <2>1. changes \in 0..MaxChanges /\ queued \in Nat /\ posted \in Nat
    BY DEF Init
  <2> QED BY <2>1 DEF Init, TypeOK
<1>2. Coming /\ Rendered
  BY DEF Init, Coming, Rendered
<1> QED BY <1>1, <1>2 DEF IInv

LEMMA StepInv == IInv /\ [Next]_vars => IInv'
<1> SUFFICES ASSUME IInv, [Next]_vars PROVE IInv'
  OBVIOUS
<1> USE DEF IInv, TypeOK, Coming, Rendered
<1>1. ASSUME NEW t \in Ids, StoreTrack(t) PROVE IInv'
  <2>1. Coming'
    BY <1>1 DEF StoreTrack, Changes
  <2>2. (unseen \/ (t # track /\ track # lastRequest)) \in BOOLEAN
    OBVIOUS
  <2>3. TypeOK'
    BY <1>1, <2>2 DEF StoreTrack, Changes
  <2>4. Rendered'
    BY <1>1 DEF StoreTrack
  <2> QED BY <2>1, <2>3, <2>4
<1>2. CASE DropImage
  <2>1. Coming' /\ Rendered'
    BY <1>2 DEF DropImage
  <2>2. changes' \in 0..MaxChanges
    BY <1>2 DEF DropImage, Changes
  <2>3. TypeOK'
    BY <1>2, <2>2 DEF DropImage
  <2> QED BY <2>1, <2>3
<1>3. CASE Frame
  <2>1. TypeOK'
    BY <1>3 DEF Frame, RendersImage, AsksForLyrics
  <2>2. Coming'
    BY <1>3 DEF Frame, AsksForLyrics
  <2>3. Rendered'
    BY <1>3 DEF Frame, RendersImage
  <2> QED BY <2>1, <2>2, <2>3
<1>4. CASE HandleGetLyrics
  BY <1>4 DEF HandleGetLyrics, PostsLookup
<1>5. CASE StartLookup
  BY <1>5 DEF StartLookup, LookupId
<1>6. ASSUME NEW ok \in BOOLEAN, EndLookup(ok) PROVE IInv'
  <2>1. CASE ok
    BY <1>6, <2>1 DEF EndLookup
  <2>2. CASE ~ok
    BY <1>6, <2>2 DEF EndLookup
  <2> QED BY <2>1, <2>2
<1>7. CASE UNCHANGED vars
  BY <1>7 DEF vars
<1> QED
  BY <1>1, <1>2, <1>3, <1>4, <1>5, <1>6, <1>7 DEF Next

THEOREM Invariance == Spec => []IInv
BY InitInv, StepInv, PTL DEF Spec

(* Every variable keeps its type. *)
THEOREM LyricsTypeCorrectness == Spec => []TypeOK
<1>1. IInv => TypeOK
  BY DEF IInv
<1> QED BY <1>1, Invariance, PTL

(* Settled lyrics are the track's, but for a failed lookup or tracks that  *)
(* no frame saw.                                                           *)
THEOREM LyricsFollowTrack == Spec => []LyricsMatchTrack
<1>1. IInv => LyricsMatchTrack
  BY DEF IInv, TypeOK, Coming, LyricsMatchTrack, Settled
<1> QED BY <1>1, Invariance, PTL

(* The safety half of LyricsArrive: while the lines are not the track's,   *)
(* something is queued, posted or running that will fetch them, up to the  *)
(* same exceptions.                                                        *)
THEOREM LookupIsComing == Spec => []Coming
<1>1. IInv => Coming
  BY DEF IInv
<1> QED BY <1>1, Invariance, PTL

(* A frame that has seen the track never shows another track's image. *)
THEOREM ImageFollowsTrack == Spec => []ImageMatchesTrack
<1>1. IInv => ImageMatchesTrack
  BY DEF IInv, Rendered, ImageMatchesTrack
<1> QED BY <1>1, Invariance, PTL

-----------------------------------------------------------------------------
(* The window's arithmetic, for any number of lines. *)

(* Whatever line is current, the window shows it and is full if it can be. *)
LEMMA WindowArithmetic ==
    ASSUME NEW n \in Nat \ {0}, NEW c \in 0..n-1
    PROVE  /\ 0 <= Start(c, n) /\ End(c, n) <= n
           /\ Start(c, n) <= c /\ c < End(c, n)
           /\ \/ End(c, n) - Start(c, n) = Rows
              \/ n < Rows /\ Start(c, n) = 0 /\ End(c, n) = n
BY DEF Start, End, Rows

(* The window moves with the line. *)
LEMMA WindowMonotonic ==
    ASSUME NEW n \in Nat \ {0}, NEW c \in 0..n-1, NEW d \in 0..n-1, c <= d
    PROVE  /\ Start(c, n) \in Nat /\ Start(d, n) \in Nat
           /\ Start(c, n) <= Start(d, n)
BY DEF Start, End, Rows

LEMMA CurrentIsALine ==
    ASSUME size \in Nat \ {0}
    PROVE  Current \in 0..size-1
<1>1. IsFiniteSet(0..size-1) /\ Cardinality(0..size-1) = size
  BY FS_Interval
<1>2. Started \subseteq 0..size-1
  BY DEF Started
<1>3. /\ IsFiniteSet(Started) /\ Cardinality(Started) \in Nat
      /\ Cardinality(Started) <= size
  BY <1>1, <1>2, FS_Subset, FS_CardinalityType
<1>4. Started # {} => Cardinality(Started) # 0
  BY <1>3, FS_EmptySet
<1> QED BY <1>3, <1>4 DEF Current

LEMMA CurrentIsMonotonic ==
    ASSUME size \in Nat \ {0}, size' = size, time' = time,
           time \in [0..size-1 -> Nat], Offset \in Nat,
           progress \in Nat, progress' = progress + 1
    PROVE  Current <= Current' /\ Current' \in 0..size-1
<1>1. IsFiniteSet(0..size-1) /\ Cardinality(0..size-1) = size
  BY FS_Interval
<1>2. Started \subseteq Started'
  BY DEF Started
<1>3. Started' \subseteq 0..size-1
  BY DEF Started
<1>4. IsFiniteSet(Started') /\ IsFiniteSet(Started)
  BY <1>1, <1>2, <1>3, FS_Subset
<1>5. /\ Cardinality(Started) \in Nat /\ Cardinality(Started') \in Nat
      /\ Cardinality(Started) <= Cardinality(Started')
      /\ Cardinality(Started') <= size
  <2>1. Cardinality(Started) \in Nat /\ Cardinality(Started') \in Nat
    BY <1>4, FS_CardinalityType
  <2>2. Cardinality(Started) <= Cardinality(Started')
    BY <1>2, <1>4, FS_Subset
  <2>3. Cardinality(Started') <= Cardinality(0..size-1)
    BY <1>1, <1>3, FS_Subset
  <2> QED BY <1>1, <2>1, <2>2, <2>3
<1>6. /\ Started # {} => Cardinality(Started) # 0
      /\ Started' # {} => Cardinality(Started') # 0
  BY <1>4, FS_EmptySet
<1> QED BY <1>2, <1>5, <1>6 DEF Current

(* A set of lines that holds, with each line, all before it consists of the *)
(* first ones: a loop that ends at its first break can be counted.          *)
LEMMA PrefixIsCounted ==
    ASSUME NEW n \in Nat, NEW S \in SUBSET (0..n-1),
           \A i \in S : \A j \in 0..i : j \in S
    PROVE  /\ Cardinality(S) \in Nat
           /\ S = 0..Cardinality(S)-1
<1> DEFINE k == Cardinality(S)
<1>1. IsFiniteSet(0..n-1) /\ Cardinality(0..n-1) = n
  BY FS_Interval
<1>2. IsFiniteSet(S) /\ k \in Nat
  BY <1>1, FS_Subset, FS_CardinalityType
<1>3. ASSUME NEW i \in S PROVE i + 1 <= k
  <2>1. i \in Nat /\ 0..i \subseteq S
    OBVIOUS
  <2>2. Cardinality(0..i) = i + 1
    BY <2>1, FS_Interval
  <2>3. Cardinality(0..i) <= k
    BY <1>2, <2>1, FS_Subset
  <2> QED BY <2>2, <2>3
<1>4. S \subseteq 0..k-1
  BY <1>2, <1>3
<1>5. IsFiniteSet(0..k-1) /\ Cardinality(0..k-1) = k
  <2>1. 0 \in Int /\ k-1 \in Int
    BY <1>2
  <2>2. /\ IsFiniteSet(0..k-1)
        /\ Cardinality(0..k-1) = IF 0 > k-1 THEN 0 ELSE k-1 - 0 + 1
    BY <2>1, FS_Interval
  <2> QED BY <1>2, <2>2
<1>6. S = 0..k-1
  BY <1>4, <1>5, FS_Subset
<1> QED BY <1>2, <1>6

(* The lines stay sorted: every lookup fills them anew. *)
WindowInv == WindowTypeOK /\ Sorted(time, size)

LEMMA WindowInitInv == WindowInit => WindowInv
BY WindowAssumption DEF WindowInit, WindowInv, WindowTypeOK, SortedLyrics

LEMMA WindowStepInv == WindowInv /\ [WindowNext]_windowVars => WindowInv'
<1> SUFFICES ASSUME WindowInv, [WindowNext]_windowVars PROVE WindowInv'
  OBVIOUS
<1> USE WindowAssumption DEF WindowInv, WindowTypeOK
<1>1. CASE Advance
  BY <1>1 DEF Advance, Sorted
<1>2. ASSUME NEW p \in 0..MaxTime, StoreProgress(p) PROVE WindowInv'
  BY <1>2 DEF StoreProgress, Sorted
<1>3. ASSUME NEW n \in 0..MaxLines, Refill(n) PROVE WindowInv'
  BY <1>3 DEF Refill, SortedLyrics, Sorted
<1>4. CASE UNCHANGED windowVars
  BY <1>4 DEF windowVars, Sorted
<1> QED BY <1>1, <1>2, <1>3, <1>4 DEF WindowNext

THEOREM WindowInvariance == WindowSpec => []WindowInv
BY WindowInitInv, WindowStepInv, PTL DEF WindowSpec

THEOREM WindowTyped == WindowSpec => []WindowTypeOK
<1>1. WindowInv => WindowTypeOK
  BY DEF WindowInv
<1> QED BY <1>1, WindowInvariance, PTL

(* For any sorted lyrics and any progress, the line the loop ends at is the *)
(* last one whose time has come.                                           *)
THEOREM HighlightIsRight == WindowSpec => []HighlightsLastStarted
<1>1. WindowInv => HighlightsLastStarted
  <2> SUFFICES ASSUME WindowInv, size > 0 PROVE HighlightsLastStarted
    BY DEF HighlightsLastStarted
  <2>1. size \in Nat \ {0} /\ progress + Offset \in Nat /\ time \in [0..size-1 -> Nat]
    BY WindowAssumption DEF WindowInv, WindowTypeOK
  <2> DEFINE k == Cardinality(Started)
  <2>2. k \in Nat /\ Started = 0..k-1
    <3>1. Started \in SUBSET (0..size-1)
      BY DEF Started
    <3>2. \A i \in Started : \A j \in 0..i : j \in Started
      BY <2>1 DEF Started
    <3> QED BY <2>1, <3>1, <3>2, PrefixIsCounted
  <2>3. Current \in 0..size-1
    BY <2>1, CurrentIsALine
  <2>4. Current = IF k = 0 THEN 0 ELSE k - 1
    <3> HIDE DEF k
    <3>1. k > 0 => 0 \in Started
      BY <2>2
    <3>2. k = 0 => \A i \in Started : FALSE
      BY <2>2
    <3> QED BY <2>2, <3>1, <3>2 DEF Current, k
  <2>5. Current > 0 => time[Current] <= progress + Offset
    <3> SUFFICES ASSUME Current > 0 PROVE time[Current] <= progress + Offset
      OBVIOUS
    <3>1. Current \in Started
      BY <2>2, <2>3, <2>4
    <3> QED BY <2>1, <3>1 DEF Started
  <2>6. ASSUME NEW i \in 0..size-1, time[i] <= progress + Offset
        PROVE  i <= Current
    <3>1. \A j \in 0..i : time[j] <= progress + Offset
      <4> SUFFICES ASSUME NEW j \in 0..i PROVE time[j] <= progress + Offset
        OBVIOUS
      <4>1. j \in 0..size-1 /\ (j < i \/ j = i)
        BY <2>1
      <4>2. time[j] <= time[i]
        BY <2>1, <4>1 DEF WindowInv, Sorted
      <4> QED BY <2>1, <2>6, <4>1, <4>2
    <3>2. i \in Started
      BY <3>1 DEF Started
    <3> QED BY <2>2, <2>4, <3>2
  <2> QED BY <2>3, <2>5, <2>6 DEF HighlightsLastStarted
<1> QED BY <1>1, WindowInvariance, PTL

(* For any lyrics and progress, the frame's window shows the current line. *)
THEOREM WindowIsRight == WindowSpec => []WindowShowsCurrent
<1>1. WindowTypeOK => WindowShowsCurrent
  <2> SUFFICES ASSUME WindowTypeOK, size > 0 PROVE WindowShowsCurrent
    BY DEF WindowShowsCurrent
  <2>1. size \in Nat \ {0}
    BY WindowAssumption DEF WindowTypeOK
  <2>2. Current \in 0..size-1
    BY <2>1, CurrentIsALine
  <2> QED BY <2>1, <2>2, WindowArithmetic DEF WindowShowsCurrent
<1> QED BY <1>1, WindowTyped, PTL

(* While the song goes on, no frame scrolls the lyrics back. *)
THEOREM WindowScrollsForward == WindowSpec => ScrollsForward
<1>1. WindowTypeOK /\ [WindowNext]_windowVars =>
        [Advance => Start(Current, size)' >= Start(Current, size)]_windowVars
  <2> SUFFICES ASSUME WindowTypeOK, Advance
               PROVE  Start(Current, size)' >= Start(Current, size)
    OBVIOUS
  <2> USE WindowAssumption DEF WindowTypeOK
  <2>1. CASE size = 0
    <3>1. Started = {} /\ Started' = {}
      BY <2>1 DEF Started, Advance
    <3> QED BY <2>1, <3>1 DEF Current, Start, End, Rows, Advance
  <2>2. CASE size # 0
    <3>1. /\ size \in Nat \ {0} /\ size' = size /\ time' = time
          /\ progress \in Nat /\ progress' = progress + 1
          /\ time \in [0..size-1 -> Nat]
      BY <2>2 DEF Advance
    <3>2. Current <= Current'
      BY <3>1, CurrentIsMonotonic
    <3>3. Current \in 0..size-1 /\ Current' \in 0..size-1
      BY <3>1, CurrentIsALine, CurrentIsMonotonic
    <3>4. /\ Start(Current, size) \in Nat /\ Start(Current', size) \in Nat
          /\ Start(Current, size) <= Start(Current', size)
      BY <3>1, <3>2, <3>3, WindowMonotonic
    <3>5. Start(Current, size)' = Start(Current', size)
      BY <3>1 DEF Start, End
    <3> QED BY <3>4, <3>5
  <2> QED BY <2>1, <2>2
<1> QED BY <1>1, WindowTyped, PTL DEF WindowSpec, ScrollsForward
=============================================================================
