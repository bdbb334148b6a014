---------------------------- MODULE ConfigProofs ----------------------------
(***************************************************************************)
(* For any texts, covers and numbers of edits: data, screen and colours    *)
(* follow the file, whatever half-written text a reload met in between.    *)
(***************************************************************************)
EXTENDS Config, TLAPS

(* SectionFollowsData is about the main screen, but the section is kept up *)
(* to date, or known to be late, from the start of the program.            *)
SectionIsKept == posted = 0 /\ ~swallowed => procSection = data.proc

(* A broken file's message is on the screen, on its way, or was consumed   *)
(* by the login screen; the message of a broken first choice need not be.  *)
ErrorIsShown ==
    Quiet /\ file \in Broken /\ posted = 0 /\ ~swallowed => shownMsg # None

IInv == /\ TypeOK
        /\ QuietFollowsFile
        /\ SectionIsKept
        /\ NoOldCoversTheme
        /\ ErrorIsShown

-----------------------------------------------------------------------------
(* What the steps have in common. *)

(* Who touches only the disk, and ends with a file still being written or  *)
(* an event not read yet, or without a file, leaves nothing to follow.     *)
LEMMA EditsAreUnsettled ==
    ASSUME IInv, UNCHANGED program, TypeOK',
           ~Quiet' \/ file' = Missing
    PROVE  IInv'
<1> USE DEF IInv, program, ui, images, theme
<1>1. QuietFollowsFile' /\ ErrorIsShown'
  BY ConfigAssumption DEF QuietFollowsFile, ErrorIsShown, Quiet
<1>2. SectionIsKept'
  BY DEF SectionIsKept
<1>3. NoOldCoversTheme'
  BY DEF NoOldCoversTheme
<1> QED BY <1>1, <1>2, <1>3

(* A reload leaves what a quiet directory needs. *)
LEMMA RefreshFollowsFile ==
    ASSUME TypeOK, refresh
    PROVE  /\ data' \in Data /\ notifyMsg' \in Broken \cup {Missing, None}
           /\ file \in Parsed => data' = file /\ notifyMsg' = None
           /\ file \in Broken => notifyMsg' = file
BY ConfigAssumption DEF TypeOK, refresh, Texts, Parsed, Data

(* A cover changes the colour alone, and only to the palette's, which is   *)
(* the cover's own if it could be picked from.                             *)
LEMMA CoversChangeColour ==
    ASSUME TypeOK, render_image
    PROVE  /\ data' \in Data /\ data'.proc = data.proc
           /\ palette' \in Colours /\ misread' \in BOOLEAN /\ imageRendered' \in BOOLEAN
           /\ \/ UNCHANGED <<data, palette, misread>> /\ (track = None \/ track = seenTrack)
              \/ /\ data'.fg = palette' /\ data'.fg \in Colours
                 /\ ~misread' => palette' = track
<1>1. data \in Data /\ track \in Covers \cup {None} /\ imageRendered \in BOOLEAN
  BY DEF TypeOK
<1>2. CASE track # None /\ Redraws
  <2>1. /\ data' = [data EXCEPT !.fg = palette']
        /\ palette' \in Colours /\ misread' \in BOOLEAN
        /\ ~misread' => palette' = track
    BY <1>1, <1>2 DEF render_image, PicksColour, Colours
  <2>2. imageRendered' = TRUE
    BY <1>2 DEF render_image, Redraws
  <2>3. data' \in Data /\ data'.proc = data.proc /\ data'.fg = palette'
    BY <1>1, <2>1 DEF Data
  <2> QED BY <2>1, <2>2, <2>3
<1>3. CASE ~(track # None /\ Redraws)
  BY <1>1, <1>3 DEF render_image, Redraws, theme, TypeOK
<1> QED BY <1>2, <1>3

-----------------------------------------------------------------------------
LEMMA InitInv == Init => IInv
<1> SUFFICES ASSUME Init PROVE IInv
  OBVIOUS
<1>1. /\ file \in Parsed /\ data \in Data /\ data.proc = file.proc
      /\ data.fg \notin Colours
      /\ notifyMsg \in Broken \cup {None}
  <2>1. PICK local \in Texts, home \in Texts : Started(local, home)
    BY DEF Init
  <2>2. CASE file \in {local, home} /\ file \in Parsed /\ data = file /\ notifyMsg = None
    BY <2>2, ConfigAssumption DEF Parsed, Data, Colours
  <2>3. CASE /\ local \notin Parsed /\ file = Blank /\ data = BuiltIn
             /\ notifyMsg = IF local = Missing THEN None ELSE local
    <3>1. local \in Broken \cup {Missing}
      BY <2>3 DEF Texts
    <3>2. Blank \in Parsed /\ BuiltIn \in Data /\ BuiltIn.proc = Blank.proc
          /\ BuiltIn.fg \notin Colours
      BY ConfigAssumption DEF Blank, BuiltIn, Parsed, Data, Colours
    <3> QED BY <2>3, <3>1, <3>2
  <2> QED BY <2>1, <2>2, <2>3 DEF Started
<1>2. TypeOK
  <2>1. data.proc \in BOOLEAN
    BY <1>1 DEF Data
  <2>2. edits \in 0..MaxEdits /\ tracks \in 0..MaxTracks
    BY ConfigAssumption DEF Init
  <2> QED BY <1>1, <2>1, <2>2 DEF Init, TypeOK, Texts, Colours
<1>3. QuietFollowsFile /\ ErrorIsShown
  BY <1>1, ConfigAssumption DEF Init, QuietFollowsFile, ErrorIsShown
<1>4. SectionIsKept /\ NoOldCoversTheme
  BY <1>1 DEF Init, SectionIsKept, NoOldCoversTheme
<1> QED BY <1>2, <1>3, <1>4 DEF IInv

LEMMA EditorsKeepInv ==
    ASSUME IInv,
           Truncate \/ WritePart \/ CloseWritten \/ MoveInto \/ Remove \/ OtherFile
    PROVE  IInv'
<1> USE ConfigAssumption DEF IInv, TypeOK, Edit, program, ui, images, theme
<1>1. CASE Truncate
  BY <1>1, EditsAreUnsettled DEF Truncate, Quiet, Blank, Texts, Parsed
<1>2. CASE WritePart
  BY <1>2, EditsAreUnsettled DEF WritePart, Quiet
<1>3. CASE CloseWritten
  BY <1>3, EditsAreUnsettled DEF CloseWritten, Quiet
<1>4. CASE MoveInto
  BY <1>4, EditsAreUnsettled DEF MoveInto, Quiet
<1>5. CASE Remove
  BY <1>5, EditsAreUnsettled DEF Remove, Texts
<1>6. CASE OtherFile
  BY <1>6, EditsAreUnsettled DEF OtherFile, Quiet
<1> QED BY <1>1, <1>2, <1>3, <1>4, <1>5, <1>6

LEMMA HandleEventKeepsInv ==
    ASSUME IInv, HandleEvent PROVE IInv'
<1>1. /\ data' \in Data /\ notifyMsg' \in Broken \cup {Missing, None}
      /\ file \in Parsed => data' = file /\ notifyMsg' = None
      /\ file \in Broken => notifyMsg' = file
  BY RefreshFollowsFile DEF IInv, HandleEvent
<1>2. /\ UNCHANGED <<file, editor, edits, screen, procSection, shownMsg,
                     swallowed, track, seenTrack, imageRendered, palette, misread,
                     tracks>>
      /\ inotify' \in Nat /\ posted' \in Nat /\ posted' # 0
  BY DEF IInv, TypeOK, HandleEvent, disk, ui, images, theme
<1>3. TypeOK'
  BY <1>1, <1>2 DEF IInv, TypeOK
<1>4. QuietFollowsFile'
  BY <1>1, <1>2 DEF QuietFollowsFile
<1>5. SectionIsKept' /\ ErrorIsShown'
  BY <1>2 DEF SectionIsKept, ErrorIsShown
<1>6. NoOldCoversTheme'
  <2>1. CASE file \in Parsed
    <3>1. data'.fg \notin Colours
      BY <1>1, <2>1, ConfigAssumption DEF Parsed, Colours
    <3> QED BY <3>1 DEF NoOldCoversTheme
  <2>2. CASE file \notin Parsed
    <3>1. data' = data
      BY <2>2 DEF HandleEvent, refresh
    <3> QED BY <1>2, <3>1 DEF IInv, NoOldCoversTheme
  <2> QED BY <2>1, <2>2
<1> QED BY <1>3, <1>4, <1>5, <1>6 DEF IInv

LEMMA MainFrameKeepsInv ==
    ASSUME IInv, MainFrame PROVE IInv'
<1>1. /\ data' \in Data /\ data'.proc = data.proc
      /\ palette' \in Colours /\ misread' \in BOOLEAN /\ imageRendered' \in BOOLEAN
      /\ \/ UNCHANGED <<data, palette, misread>> /\ (track = None \/ track = seenTrack)
         \/ /\ data'.fg = palette' /\ data'.fg \in Colours
            /\ ~misread' => palette' = track
  BY CoversChangeColour DEF IInv, MainFrame
<1>2. /\ UNCHANGED <<file, editor, edits, inotify, notifyMsg, screen, track, tracks>>
      /\ seenTrack' = track /\ posted' = 0
      /\ swallowed' = (swallowed /\ posted = 0)
      /\ procSection' = IF posted > 0 THEN data.proc ELSE procSection
      /\ shownMsg' = IF shownMsg = None THEN notifyMsg ELSE shownMsg
  BY DEF MainFrame, reConfig, render_notify, disk
<1>3. TypeOK'
  <2>1. data.proc \in BOOLEAN
    BY DEF IInv, TypeOK, Data
  <2>2. swallowed' \in BOOLEAN
    BY <1>2
  <2> QED BY <1>1, <1>2, <2>1, <2>2 DEF IInv, TypeOK
<1>4. QuietFollowsFile'
  BY <1>1, <1>2 DEF IInv, QuietFollowsFile, Quiet
<1>5. SectionIsKept'
  BY <1>1, <1>2 DEF IInv, TypeOK, SectionIsKept
<1>6. NoOldCoversTheme'
  BY <1>1, <1>2 DEF IInv, NoOldCoversTheme
<1>7. ErrorIsShown'
  BY <1>2, ConfigAssumption DEF IInv, QuietFollowsFile, ErrorIsShown, Quiet
<1> QED BY <1>3, <1>4, <1>5, <1>6, <1>7 DEF IInv

LEMMA StepInv == IInv /\ [Next]_vars => IInv'
<1> SUFFICES ASSUME IInv, [Next]_vars PROVE IInv'
  OBVIOUS
<1> USE DEF IInv, TypeOK, QuietFollowsFile, Quiet, SectionIsKept,
            NoOldCoversTheme, ErrorIsShown
<1>1. CASE LoginFrame
  <2>1. /\ swallowed' \in BOOLEAN
        /\ ~swallowed' => ~swallowed /\ posted = 0
    <3>1. swallowed' = (swallowed \/ posted > 0)
      BY <1>1 DEF LoginFrame
    <3>2. swallowed' \in BOOLEAN /\ (~swallowed' => ~swallowed /\ ~(posted > 0))
      BY <3>1, Zenon
    <3> QED BY <3>2
  <2>2. /\ posted' = 0
        /\ UNCHANGED <<file, editor, edits, inotify, data, notifyMsg, screen,
                       procSection, shownMsg, track, seenTrack, imageRendered,
                       palette, misread, tracks>>
    BY <1>1 DEF LoginFrame, disk, images, theme
  <2> QED BY <2>1, <2>2
<1>2. CASE LoggedIn
  BY <1>2 DEF LoggedIn, disk, images, theme
<1>3. CASE TrackChanges
  <2>1. tracks' \in 0..MaxTracks
    BY <1>3, ConfigAssumption DEF TrackChanges
  <2> QED BY <1>3, <2>1 DEF TrackChanges, disk, theme
<1>4. CASE ResetImage
  <2>1. /\ imageRendered' = FALSE
        /\ UNCHANGED <<file, editor, edits, inotify, data, notifyMsg, posted, screen,
                       procSection, shownMsg, swallowed, track, seenTrack, palette,
                       misread, tracks>>
    BY <1>4 DEF ResetImage, disk, theme
  <2>2. TypeOK'
    BY <2>1
  <2>3. QuietFollowsFile' /\ SectionIsKept' /\ ErrorIsShown'
    BY <2>1
  <2>4. NoOldCoversTheme'
    BY <2>1
  <2> QED BY <2>2, <2>3, <2>4
<1>5. CASE CoverEndsProcess
  BY <1>5 DEF CoverEndsProcess, disk, images, theme
<1>6. CASE UNCHANGED vars
  BY <1>6 DEF vars
<1> QED
  BY <1>1, <1>2, <1>3, <1>4, <1>5, <1>6, EditorsKeepInv, HandleEventKeepsInv,
     MainFrameKeepsInv DEF Next

THEOREM Invariance == Spec => []IInv
BY InitInv, StepInv, PTL DEF Spec

-----------------------------------------------------------------------------
(* Every variable keeps its type: no text that does not parse gets into    *)
(* the data.                                                               *)
THEOREM ConfigTypeCorrectness == Spec => []TypeOK
<1>1. IInv => TypeOK
  BY DEF IInv
<1> QED BY <1>1, Invariance, PTL

(* When the directory is quiet, the data or the message are the file's.    *)
THEOREM DataFollowFile == Spec => []QuietFollowsFile
<1>1. IInv => QuietFollowsFile
  BY DEF IInv
<1> QED BY <1>1, Invariance, PTL

(* The statistics follow the data, unless the login screen took the event. *)
THEOREM SectionIsCurrent == Spec => []SectionFollowsData
<1>1. IInv => SectionFollowsData
  BY DEF IInv, SectionIsKept, SectionFollowsData
<1> QED BY <1>1, Invariance, PTL

(* No frame keeps the colour of a cover it replaced, unless the new one    *)
(* could not be picked from.                                               *)
THEOREM NoStaleTheme == Spec => []NoOldCoversTheme
<1>1. IInv => NoOldCoversTheme
  BY DEF IInv
<1> QED BY <1>1, Invariance, PTL

(* The safety half of ReloadArrives: with no event left to read or to      *)
(* consume, the screen shows what the file holds, or an error.             *)
THEOREM NothingPendingIsShown ==
    Spec => [](Quiet /\ posted = 0 /\ ~swallowed => Shown)
<1>1. IInv => (Quiet /\ posted = 0 /\ ~swallowed => Shown)
  BY DEF IInv, QuietFollowsFile, SectionIsKept, ErrorIsShown, Shown
<1> QED BY <1>1, Invariance, PTL
=============================================================================
