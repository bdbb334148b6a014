-------------------------------- MODULE Auth --------------------------------
(***************************************************************************)
(* SpotifyAuthPKCE: the login coroutine, the refresh timer it starts, the  *)
(* token file that survives the process, and the token server, which hands *)
(* out access tokens of a fixed lifetime and may rotate the refresh token. *)
(*                                                                         *)
(* The file is written in two steps, truncation and content, because the   *)
(* process can die between them, and each of them can fail without notice. *)
(* A restart keeps only the file.                                          *)
(***************************************************************************)
EXTENDS Integers

CONSTANTS
    Life,       \* expires_in of every token
    MaxTime,    \* bound on the clock
    MaxIssued,  \* bound on the tokens the server hands out
    MaxCrashes, \* bound on the deaths of the process
    NoFile, Torn, Nullopt  \* a missing file, a truncated one, an empty optional

ASSUME AuthAssumption == /\ Life \in Nat \ {0} /\ MaxTime \in Nat
                         /\ MaxIssued \in Nat /\ MaxCrashes \in Nat

Time == 0..MaxTime
Token == 0..MaxIssued       \* the server's n-th grant; 0 is the empty string
NoToken == 0

TokenCache == [access : Token, refresh : Token, acquired : Time]

ASSUME AbsentAssumption == /\ {NoFile, Torn, Nullopt} \cap TokenCache = {}
                           /\ NoFile # Torn /\ NoFile # Nullopt /\ Torn # Nullopt

VARIABLES
    now,        \* the system clock
    issued,     \* server: number of grants so far
    valid,      \* server: the refresh token it accepts
    file,       \* token.json
    cache,      \* SpotifyAuthPKCE::cache
    access,     \* *access_token, shared with SpotifyWebAPI
    refresh,    \* refresh_token
    login,      \* where login() is suspended, or its result
    timer,      \* where startRefreshTimer() is suspended
    request,    \* the token request: none, sent, answered with a grant
    grant,      \* the tokens of that answer
    toSave,     \* what saveTokenCache is writing
    crashes,    \* deaths of the process so far
    lost,       \* history: the last grant was lost on the wire or in a death
    unsaved     \* history: the process holds a grant that is not in the file

server == <<issued, valid>>
tokens == <<cache, access, refresh>>
wire   == <<request, grant>>
history == <<lost, unsaved>>
vars == <<now, server, file, tokens, login, timer, wire, toSave, crashes, history>>

TypeOK ==
    /\ now \in Time
    /\ issued \in Token /\ valid \in Token
    /\ file \in TokenCache \cup {NoFile, Torn}
    /\ cache \in TokenCache \cup {Nullopt}
    /\ access \in Token /\ refresh \in Token
    /\ login \in {"start", "refreshing", "browser", "exchanging", "truncated",
                  "true", "false", "dead"}
    /\ timer \in {"off", "armed", "refreshing", "truncated", "dead"}
    /\ request \in {"none", "sent", "answered"}
    /\ grant \in [access : Token, refresh : Token]
    /\ toSave \in TokenCache \cup {Nullopt}
    /\ crashes \in 0..MaxCrashes
    /\ lost \in BOOLEAN /\ unsaved \in BOOLEAN

Init ==
    /\ now = 0
    /\ issued = 0 /\ valid = NoToken
    /\ file = NoFile
    /\ cache = Nullopt /\ access = NoToken /\ refresh = NoToken
    /\ login = "start" /\ timer = "off"
    /\ request = "none" /\ grant = [access |-> NoToken, refresh |-> NoToken]
    /\ toSave = Nullopt
    /\ crashes = 0 /\ lost = FALSE /\ unsaved = FALSE

Tick == /\ now < MaxTime /\ now' = now + 1
        /\ UNCHANGED <<server, file, tokens, login, timer, wire, toSave, crashes, history>>

-----------------------------------------------------------------------------
(* login() *)

Expired(c) == now - c.acquired >= Life

(* startRefreshTimer computes its delay from the member cache; an empty    *)
(* optional throws and ends the coroutine.                                 *)
AlwaysArmed(c) == "armed"    \* mutant: no look at the optional

StartedTimer(c) == IF c = Nullopt THEN "dead" ELSE "armed"

(* No file, or one that cannot be opened. *)
LoginReadsNothing ==
    /\ login = "start"
    /\ cache' = Nullopt /\ login' = "browser"
    /\ UNCHANGED <<now, server, file, access, refresh, timer, wire, toSave, crashes, history>>

(* nlohmann::json::parse throws. *)
LoginReadsTorn ==
    /\ login = "start" /\ file = Torn
    /\ login' = "dead"
    /\ UNCHANGED <<now, server, file, tokens, timer, wire, toSave, crashes, history>>

LoginReadsToken ==
    /\ login = "start" /\ file \in TokenCache
    /\ cache' = file
    /\ refresh' = file.refresh
    /\ IF Expired(file)
       THEN /\ login' = "refreshing" /\ request' = "sent"
            /\ UNCHANGED <<access, timer>>
       ELSE /\ login' = "true" /\ timer' = StartedTimer(file)
            /\ access' = file.access
            /\ UNCHANGED request
    /\ UNCHANGED <<now, server, file, grant, toSave, crashes, history>>

(* The browser calls back; its code, or an empty one, is exchanged. *)
BrowserReturns ==
    /\ login = "browser"
    /\ login' = "exchanging" /\ request' = "sent"
    /\ UNCHANGED <<now, server, file, tokens, timer, grant, toSave, crashes, history>>

(* The port is taken, or the callback connection breaks. *)
BrowserFails ==
    /\ login = "browser"
    /\ login' = "dead"
    /\ UNCHANGED <<now, server, file, tokens, timer, wire, toSave, crashes, history>>

-----------------------------------------------------------------------------
(* The token server: it grants a code exchange, and a refresh that names   *)
(* the refresh token it holds valid, keeping that token or rotating it.    *)

ServerGrants(rotates) ==
    /\ request = "sent" /\ issued < MaxIssued
    /\ login = "exchanging" => rotates
    /\ login # "exchanging" => refresh = valid
    /\ issued' = issued + 1
    /\ valid' = IF rotates THEN issued' ELSE valid
    /\ grant' = [access |-> issued', refresh |-> valid']
    /\ request' = "answered"
    /\ UNCHANGED <<now, file, tokens, login, timer, toSave, crashes, history>>

-----------------------------------------------------------------------------
(* The awaiting coroutine resumes. *)

Exchanging  == login = "exchanging"
AnyRequest  == TRUE             \* mutant: a refresh by the timer ends the login too
LoginAwaits == login \in {"exchanging", "refreshing"}

KeepsOldRefresh == refresh      \* mutant: a rotated token is ignored

(* The refresh token a response carries, or else the one already held. *)
ReceivedRefresh == grant.refresh

StoresExpiry == now + Life      \* mutant: the end of the lifetime is stored

AcquireTime == now

Received == [access |-> grant.access, refresh |-> ReceivedRefresh,
             acquired |-> AcquireTime]

SavesBeforeUpdate == [Received EXCEPT !.refresh = refresh]      \* mutant

Saved == Received

(* After a code exchange login() builds a local TokenCache that shadows    *)
(* the member; refreshAccessToken assigns the member.                      *)
CacheAfter(c) == IF Exchanging THEN cache ELSE c

(* What the awaiting coroutine goes on with: the save, or its end by an    *)
(* exception.                                                              *)
Proceeds(pc) == IF LoginAwaits THEN login' = pc /\ UNCHANGED timer
                               ELSE timer' = pc /\ UNCHANGED login

StartsTimer == login' = "true" /\ timer' = StartedTimer(cache')

(* saveTokenCache truncates the file. *)
Truncates ==
    /\ toSave' = Saved /\ file' = Torn
    /\ Proceeds("truncated")

(* A file that does not open is skipped without notice.                    *)
SkipsSave == StartsTimer /\ UNCHANGED <<file, toSave>>

(* create_directories throws. *)
ThrowsInSave == Proceeds("dead") /\ UNCHANGED <<file, toSave>>

UpdatesMembers ==
    /\ access' = Received.access /\ refresh' = Received.refresh
    /\ cache' = CacheAfter(Received)

(* Mutant: the members are assigned after the save, if it returns.         *)
SavesFirst ==
    /\ request = "answered" /\ request' = "none"
    /\ lost' = FALSE /\ unsaved' = TRUE
    /\ \/ UpdatesMembers /\ (Truncates \/ SkipsSave)
       \/ UNCHANGED tokens /\ ThrowsInSave
    /\ UNCHANGED <<now, server, grant, crashes>>

(* The members are updated, then saved. *)
ResponseArrives ==
    /\ request = "answered" /\ request' = "none"
    /\ lost' = FALSE /\ unsaved' = TRUE
    /\ UpdatesMembers
    /\ Truncates \/ SkipsSave \/ ThrowsInSave
    /\ UNCHANGED <<now, server, grant, crashes>>

(* The content follows, or the write fails, which nobody looks at; the     *)
(* timer is started, or waits for the new expiry.                          *)
SaveCompletes ==
    /\ login = "truncated" \/ timer = "truncated"
    /\ file' \in {toSave, Torn} /\ toSave' = Nullopt
    /\ unsaved' = (file' = Torn)
    /\ UNCHANGED <<now, server, tokens, wire, crashes, lost>>
    /\ StartsTimer

(* Mutant: the timer's loop ends with the first null response. *)
EndsWithoutToken ==
    /\ login' = IF Exchanging THEN "false" ELSE "true"
    /\ timer' = "off"

(* What a coroutine does when the response is null: login() gives up after *)
(* a code exchange and reports success after a refresh; the timer loops.   *)
WithoutToken ==
    /\ login' = CASE Exchanging -> "false"
                  [] login = "refreshing" -> "true"
                  [] OTHER -> login
    /\ timer' = IF Exchanging THEN timer ELSE StartedTimer(cache)

(* The server was not reached or refused. *)
RequestRefused ==
    /\ request = "sent"
    /\ request' = "none"
    /\ WithoutToken
    /\ UNCHANGED <<now, server, file, tokens, grant, toSave, crashes, history>>

(* The connection broke after the request was written, or the body does    *)
(* not parse: the coroutine ends.                                          *)
ResponseBreaks ==
    /\ request \in {"sent", "answered"}
    /\ request' = "none"
    /\ lost' = (lost \/ request = "answered")
    /\ Proceeds("dead")
    /\ UNCHANGED <<now, server, file, tokens, grant, toSave, crashes, unsaved>>

-----------------------------------------------------------------------------
(* startRefreshTimer(): the wait ends when the cached token expires. *)

TimerFires ==
    /\ timer = "armed" /\ Expired(cache)
    /\ timer' = "refreshing" /\ request' = "sent"
    /\ UNCHANGED <<now, server, file, tokens, login, grant, toSave, crashes, history>>

(* The process ends, by the user or by force, and is started again. *)
CrashAndRestart ==
    /\ crashes < MaxCrashes /\ crashes' = crashes + 1
    /\ lost' = (lost \/ request = "answered" \/ unsaved)
    /\ unsaved' = FALSE
    /\ cache' = Nullopt /\ access' = NoToken /\ refresh' = NoToken
    /\ login' = "start" /\ timer' = "off"
    /\ request' = "none" /\ toSave' = Nullopt
    /\ UNCHANGED <<now, server, file, grant>>

-----------------------------------------------------------------------------
Login == LoginReadsNothing \/ LoginReadsTorn \/ LoginReadsToken
Browser == BrowserReturns \/ BrowserFails
Resume == ResponseArrives \/ RequestRefused \/ ResponseBreaks

Next == \/ Tick \/ Login \/ Browser
        \/ \E rotates \in BOOLEAN : ServerGrants(rotates)
        \/ Resume \/ SaveCompletes \/ TimerFires \/ CrashAndRestart

Spec == Init /\ [][Next]_vars

(* Timers fire and a file write ends.  The last two are the assumption of  *)
(* a server that keeps answering while its grants last.                    *)
FairSpec == /\ Spec
            /\ WF_vars(TimerFires) /\ WF_vars(SaveCompletes)
            /\ SF_vars(\E rotates \in BOOLEAN : ServerGrants(rotates))
            /\ SF_vars(ResponseArrives)

-----------------------------------------------------------------------------
(* Properties. *)

Saving == toSave # Nullopt

(* The file follows the session: once logged in, it holds the refresh      *)
(* token in use and the cache it was armed with, unless the last save      *)
(* failed, or is under way; a torn file is always the trace of a save that *)
(* failed or was ended by a death (spotifyAuthPKCE.cpp:244-249, 286-293).  *)
FileFollowsSession ==
    /\ login = "true" /\ ~unsaved =>
         /\ file \in TokenCache /\ file.refresh = refresh
         /\ cache # Nullopt => file = cache
    /\ file = Torn => unsaved \/ lost

(* A session ends only with its last grant: unless that was lost, or its   *)
(* save failed, a file left for the next start holds it, under the refresh *)
(* token the server accepts, though it may rotate that at every refresh,   *)
(* and there is no grant without a file (spotifyAuthPKCE.cpp:285).         *)
SessionSurvives ==
    ~lost /\ ~unsaved /\ request # "answered" =>
        /\ file \in TokenCache => file.refresh = valid /\ file.access = issued
        /\ file = NoFile => issued = 0

(* A save that is skipped, breaks off or throws costs the running process  *)
(* nothing: whatever older grant the file names, the members go on with    *)
(* the newest one, which the next save writes (spotifyAuthPKCE.cpp:332,    *)
(* 339-341).                                                               *)
UnsavedIsHeld ==
    ~lost /\ unsaved /\ request # "answered" => refresh = valid /\ access = issued

(* An armed timer counts down for the token in use; a login that succeeded *)
(* without a token is one whose refresh of an expired file was refused.    *)
TimerWatchesToken ==
    /\ timer = "armed" => cache # Nullopt /\ access \in {cache.access, NoToken}
    /\ login = "true" /\ access = NoToken => cache # Nullopt /\ Expired(cache)

(* login() has one outcome and the timer, which runs on after it and fails *)
(* in ways of its own, never changes it: the session is open, denied or    *)
(* pending until the process is started again (spotifyAuthPKCE.cpp:203).   *)
SessionState == CASE login = "start"               -> "closed"
                  [] login \in {"false", "dead"}   -> "failed"
                  [] login = "true"                -> "open"
                  [] OTHER                         -> "opening"
Promise == INSTANCE Session WITH session <- SessionState
ImplementsSession == Promise!Spec

(* While the server answers, an armed timer replaces an expired token,     *)
(* unless the timer's coroutine or the process dies, grants run out, or    *)
(* the refresh token was lost with a rotation.                             *)
Stale == timer = "armed" /\ Expired(cache)
Settled == \/ timer = "dead" \/ login = "start" \/ issued = MaxIssued
           \/ lost /\ refresh # valid
           \/ cache # Nullopt /\ ~Expired(cache)
StaleTokenIsReplaced == Stale ~> Settled
=============================================================================
