------------------------------- MODULE Config -------------------------------
(***************************************************************************)
(* The configuration: the file as editors write it, the inotify watcher,   *)
(* the parsed data that reloads and covers overwrite, and what the screens *)
(* make of it.                                                             *)
(***************************************************************************)
EXTENDS Naturals

CONSTANTS
    Broken,         \* texts that do not parse; each is its own error message
    Missing,        \* no file
    None,           \* no message
    Covers,         \* tracks with covers, each standing for the colour picked
    MaxEdits,       \* bounds what editors do to the directory
    MaxTracks       \* bounds the track changes

VARIABLES
    file,           \* the text at config_path
    editor,         \* "idle" or "writing"
    inotify,        \* events of the directory not read yet
    data,           \* Config::data
    notifyMsg,      \* Config::notify_msg
    posted,         \* Event_ReConfig in the screen's task queue
    screen,         \* "login" or "main": the loop that runs; "closed" after
    procSection,    \* does proc_section show the statistics?
    shownMsg,       \* Ui::notify_msg[0]
    track,          \* the stored track, None without one
    seenTrack,      \* the track of the last frame
    imageRendered,  \* Ui::image_rendered
    palette,        \* ThemeManager::palette.colors[0]
    misread,        \* history: the last cover drawn was not picked from
    swallowed,      \* history: the login screen took the last Event_ReConfig
    edits, tracks

vars == <<file, editor, inotify, data, notifyMsg, posted, screen, procSection,
          shownMsg, track, seenTrack, imageRendered, palette, misread,
          swallowed, edits, tracks>>

disk == <<file, editor, edits>>
theme == <<palette, misread>>
images == <<track, seenTrack, imageRendered, theme, tracks>>
ui == <<screen, procSection, shownMsg, swallowed, images>>

(* A parsed text: proc.enable, and the colour of lyrics and progress line. *)
Parsed == [proc : BOOLEAN, fg : {"theme", "default"}]
Texts == Parsed \cup Broken \cup {Missing}

(* A text parses, is broken or is not there; no cover's colour is spelt as *)
(* the origin of another.                                                  *)
ASSUME ConfigAssumption ==
    /\ Missing \notin Parsed \cup Broken /\ Broken \cap Parsed = {}
    /\ None \notin Broken \cup {Missing}
    /\ Covers \cap {"theme", "default", "built-in", "black"} = {}
    /\ MaxEdits \in Nat /\ MaxTracks \in Nat

(* toml::parse_file accepts an empty file; every key has a default.        *)
Blank == [proc |-> FALSE, fg |-> "default"]

(* Default::get().  What it saves has its colours under keys that parse    *)
(* does not read, so the first reload replaces them.                       *)
BuiltIn == [proc |-> FALSE, fg |-> "built-in"]

(* What a palette holds: black pixels at first, then a cover's colours.    *)
Colours == Covers \cup {"black"}

Data == [proc : BOOLEAN, fg : {"theme", "default", "built-in"} \cup Colours]

TypeOK ==
    /\ file \in Texts /\ editor \in {"idle", "writing"}
    /\ inotify \in Nat /\ posted \in Nat
    /\ data \in Data
    /\ notifyMsg \in Broken \cup {Missing, None}
    /\ shownMsg \in Broken \cup {Missing, None}
    /\ screen \in {"login", "main", "closed"} /\ procSection \in BOOLEAN
    /\ track \in Covers \cup {None} /\ seenTrack \in Covers \cup {None}
    /\ imageRendered \in BOOLEAN
    /\ palette \in Colours /\ misread \in BOOLEAN
    /\ swallowed \in BOOLEAN
    /\ edits \in 0..MaxEdits /\ tracks \in 0..MaxTracks

(* Config::Config tries .config/spocli.toml, then the file of the home     *)
(* directory, then writes the default there.  A broken home file ends the  *)
(* program.                                                                *)
Started(local, home) ==
    \/ local \in Parsed /\ file = local /\ data = local /\ notifyMsg = None
    \/ /\ local \notin Parsed /\ home \in Parsed
       /\ file = home /\ data = home /\ notifyMsg = None
    \/ /\ local \notin Parsed /\ home = Missing
       /\ file = Blank /\ data = BuiltIn
       /\ notifyMsg = IF local = Missing THEN None ELSE local

Init ==
    /\ \E local, home \in Texts : Started(local, home)
    /\ editor = "idle" /\ inotify = 0 /\ posted = 0
    /\ screen = "login" /\ procSection = data.proc
    /\ shownMsg = None
    /\ track = None /\ seenTrack = None /\ imageRendered = FALSE
    /\ palette = "black" /\ misread = FALSE
    /\ swallowed = FALSE
    /\ edits = 0 /\ tracks = 0

-----------------------------------------------------------------------------
(* Editors.  The watcher is told of files closed after writing and of      *)
(* files moved into the directory, whatever their names.                   *)

Edit == edits < MaxEdits /\ edits' = edits + 1

program == <<data, notifyMsg, posted, ui>>

Truncate ==
    /\ editor = "idle" /\ Edit
    /\ file' = Blank /\ editor' = "writing"
    /\ UNCHANGED <<inotify, program>>

WritePart ==
    /\ editor = "writing" /\ Edit
    /\ file' \in Texts \ {Missing}
    /\ UNCHANGED <<editor, inotify, program>>

CloseWritten ==
    /\ editor = "writing"
    /\ editor' = "idle" /\ inotify' = inotify + 1
    /\ UNCHANGED <<file, edits, program>>

(* Mutant: the mask lacks IN_MOVED_TO. *)
UnseenMove ==
    /\ editor = "idle" /\ Edit
    /\ file' \in Texts \ {Missing}
    /\ UNCHANGED <<editor, inotify, program>>

MoveInto ==
    /\ editor = "idle" /\ Edit
    /\ file' \in Texts \ {Missing} /\ inotify' = inotify + 1
    /\ UNCHANGED <<editor, program>>

Remove ==
    /\ editor = "idle" /\ Edit
    /\ file' = Missing
    /\ UNCHANGED <<editor, inotify, program>>

OtherFile ==
    /\ Edit
    /\ inotify' = inotify + 1
    /\ UNCHANGED <<file, editor, program>>

-----------------------------------------------------------------------------
(* Reloading. *)

(* Mutant: the result of parse is not tested. *)
UncheckedRefresh == data' = file /\ notifyMsg' = None

refresh ==
    IF file \in Parsed THEN data' = file /\ notifyMsg' = None
                       ELSE notifyMsg' = file /\ UNCHANGED data

(* Mutant: nobody tells the screen. *)
SilentEvent ==
    /\ screen # "closed"
    /\ inotify > 0 /\ inotify' = inotify - 1
    /\ refresh
    /\ UNCHANGED <<posted, disk, ui>>

HandleEvent ==
    /\ screen # "closed"
    /\ inotify > 0 /\ inotify' = inotify - 1
    /\ refresh
    /\ posted' = posted + 1
    /\ UNCHANGED <<disk, ui>>

-----------------------------------------------------------------------------
(* Screens. *)

(* The login screen's component handles only q and Ctrl-C. *)
LoginFrame ==
    /\ screen = "login"
    /\ posted' = 0
    /\ swallowed' = (swallowed \/ posted > 0)
    /\ UNCHANGED <<disk, inotify, data, notifyMsg, screen, procSection, shownMsg,
                   images>>

LoggedIn ==
    /\ screen = "login" /\ screen' = "main"
    /\ UNCHANGED <<disk, inotify, data, notifyMsg, posted, procSection, shownMsg,
                   swallowed, images>>

reConfig ==
    /\ procSection' = IF posted > 0 THEN data.proc ELSE procSection
    /\ swallowed' = (swallowed /\ posted = 0)
    /\ posted' = 0

(* Every frame appends the message, and shows the first there ever was. *)
render_notify ==
    /\ shownMsg' = IF shownMsg = None THEN notifyMsg ELSE shownMsg
    /\ UNCHANGED notifyMsg

(* render_image_lyrics resets the flag for a new track. *)
Redraws == ~imageRendered \/ track # seenTrack

(* ThemeManager::update picks the colour from the first 300 by 300 pixels  *)
(* of the cover.  One that does not load or decode leaves the palette, and *)
(* a smaller one is read past its end, where any colour may be found.      *)
PicksColour ==
    \/ palette' = track /\ misread' = FALSE
    \/ palette' \in Colours /\ misread' = TRUE

(* Mutant: the theme is written for the first cover only. *)
WritesOnce ==
    /\ imageRendered' = (track # None \/ ~Redraws)
    /\ IF track # None /\ Redraws
       THEN /\ PicksColour
            /\ data' = IF data.fg \in Colours THEN data
                       ELSE [data EXCEPT !.fg = palette']
       ELSE UNCHANGED <<theme, data>>

render_image ==
    /\ imageRendered' = (track # None \/ ~Redraws)
    /\ IF track # None /\ Redraws
       THEN PicksColour /\ data' = [data EXCEPT !.fg = palette']
       ELSE UNCHANGED <<theme, data>>

MainFrame ==
    /\ screen = "main"
    /\ reConfig /\ render_notify /\ render_image
    /\ seenTrack' = track
    /\ UNCHANGED <<disk, inotify, screen, track, tracks>>

(* A cover that does not load is drawn through a null pointer, and a small *)
(* one read past its end: either may end the process.                      *)
CoverEndsProcess ==
    /\ screen = "main" /\ track # None /\ screen' = "closed"
    /\ UNCHANGED <<disk, inotify, data, notifyMsg, posted, procSection, shownMsg,
                   swallowed, images>>

(* Event_NextTrack, or a window of another size. *)
ResetImage ==
    /\ screen = "main" /\ imageRendered' = FALSE
    /\ UNCHANGED <<disk, inotify, data, notifyMsg, posted, screen, procSection,
                   shownMsg, swallowed, track, seenTrack, theme, tracks>>

TrackChanges ==
    /\ screen # "closed"
    /\ tracks < MaxTracks /\ tracks' = tracks + 1
    /\ track' \in Covers \cup {None}
    /\ UNCHANGED <<disk, inotify, data, notifyMsg, posted, screen, procSection,
                   shownMsg, swallowed, seenTrack, imageRendered, theme>>

Next ==
    \/ Truncate \/ WritePart \/ CloseWritten \/ MoveInto \/ Remove \/ OtherFile
    \/ HandleEvent
    \/ LoginFrame \/ LoggedIn \/ MainFrame
    \/ CoverEndsProcess
    \/ TrackChanges \/ ResetImage

Spec == Init /\ [][Next]_vars

(* inotify's descriptor is read when it has events; frames are timed.      *)
Fairness == WF_vars(HandleEvent) /\ WF_vars(LoginFrame) /\ WF_vars(MainFrame)

FairSpec == Spec /\ Fairness

-----------------------------------------------------------------------------
Quiet == editor = "idle" /\ inotify = 0

(* Although reloads read whatever half-written text they meet, the data    *)
(* follow the file when the directory is quiet: the file's settings if it  *)
(* parses, and an error message if it does not (config.cpp:74-131,         *)
(* configWatcher.cpp:33-50).                                               *)
QuietFollowsFile ==
    Quiet =>
      /\ file \in Parsed => data.proc = file.proc
      /\ file \in Parsed /\ edits > 0 =>
            notifyMsg = None /\ data.fg \in {file.fg} \cup Colours
      /\ file \in Broken => notifyMsg = file

(* The statistics are shown as the data say, unless the login screen took  *)
(* the last Event_ReConfig (ui.cpp:253-255, 659).                          *)
SectionFollowsData ==
    screen = "main" /\ posted = 0 /\ ~swallowed => procSection = data.proc

(* Lyrics and progress line never keep the colour of a cover that was      *)
(* replaced on the screen, whatever reloads come between: a colour that is *)
(* not the file's is the palette's, and that of the cover shown if it was  *)
(* loaded and large enough to pick from (ui.cpp:552-576, theme.cppm:19-23, *)
(* colorPicker.cppm:146-152).                                              *)
NoOldCoversTheme ==
    data.fg \in Colours =>
        /\ data.fg = palette
        /\ seenTrack # None /\ ~misread => data.fg = seenTrack

(* What the main screen makes of the file: its settings, or an error.      *)
Shown ==
    /\ file \in Parsed => procSection = file.proc
    /\ file \in Broken => shownMsg # None

(* A settled file reaches the main screen (ui.cpp:253-255, 580-596).       *)
ReloadArrives ==
    <>[](editor = "idle" /\ screen = "main" /\ ~swallowed => Shown)
=============================================================================
