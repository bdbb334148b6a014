----------------------------- MODULE AuthProofs -----------------------------
(***************************************************************************)
(* The token file and the session, for any lifetime, clock, number of      *)
(* grants and number of restarts.                                          *)
(***************************************************************************)
EXTENDS Auth, TLAPS

LoginWaits == login \in {"exchanging", "refreshing"}

(* At most one of login() and the timer is past its first suspension, and  *)
(* its state says whether a request or a save is under way.                *)
Phases ==
    /\ request # "none" <=> (LoginWaits \/ timer = "refreshing")
    /\ Saving <=> (login = "truncated" \/ timer = "truncated")
    /\ login # "true" => timer = "off"
    /\ login = "start" => ~unsaved
    /\ timer \in {"armed", "refreshing", "truncated"} => cache # Nullopt

(* The members, the cache and, unless a save failed, the file agree at     *)
(* every suspension point.                                                 *)
Agreement ==
    /\ login \in {"true", "refreshing"} /\ ~unsaved =>
          /\ file \in TokenCache /\ file.refresh = refresh
          /\ cache # Nullopt => file = cache
    /\ login = "refreshing" => cache # Nullopt /\ access = NoToken /\ Expired(cache)
    /\ login \in {"start", "browser", "exchanging"} => access = NoToken /\ cache = Nullopt
    /\ login = "true" /\ cache # Nullopt => access \in {cache.access, NoToken}
    /\ login = "true" /\ access = NoToken => cache # Nullopt /\ Expired(cache)

(* A grant is never empty, and a save writes the tokens in use.            *)
Contents ==
    /\ request = "answered" => grant.access # NoToken
    /\ file \in TokenCache => file.access # NoToken
    /\ Saving => /\ unsaved /\ access # NoToken
                 /\ toSave.access = access /\ toSave.refresh = refresh
                 /\ cache # Nullopt => toSave = cache

(* Wherever the newest grant is, on the wire, in the members or, once a    *)
(* save of it succeeded, in the file, it carries the valid refresh token.  *)
Session ==
    /\ request = "answered" => grant.refresh = valid
    /\ ~lost => /\ file = Torn => unsaved
                /\ request # "answered" /\ unsaved => refresh = valid
                /\ request # "answered" /\ ~unsaved /\ file \in TokenCache =>
                      file.refresh = valid

IInv == TypeOK /\ Phases /\ Agreement /\ Contents /\ Session

USE AuthAssumption, AbsentAssumption DEF NoToken, Saving, LoginWaits

(* A cached token that has expired stays expired while the clock advances. *)
LEMMA ExpiredStays ==
    ASSUME TypeOK, Expired(cache), cache \in TokenCache, UNCHANGED cache,
           now' \in Nat, now' >= now
    PROVE  Expired(cache)'
<1>1. cache.acquired \in Nat /\ now \in Nat
  BY DEF TypeOK, TokenCache, Time
<1> QED BY <1>1 DEF Expired

LEMMA InitInv == Init => IInv
<1> SUFFICES ASSUME Init PROVE IInv
  OBVIOUS
<1>1. TypeOK
  <2>1. 0 \in Time /\ 0 \in Token /\ 0 \in 0..MaxCrashes
    BY DEF Time, Token
  <2>2. [access |-> 0, refresh |-> 0] \in [access : Token, refresh : Token]
    BY <2>1
  <2> QED BY <2>1, <2>2 DEF Init, TypeOK
<1>2. NoFile \notin TokenCache /\ Torn # NoFile
  OBVIOUS
<1>3. Phases /\ Agreement /\ Contents /\ Session
  BY <1>2 DEF Init, Phases, Agreement, Contents, Session
<1> QED BY <1>1, <1>3 DEF IInv

LEMMA StepInv == IInv /\ [Next]_vars => IInv'
<1> SUFFICES ASSUME IInv, [Next]_vars PROVE IInv'
  OBVIOUS
<1> USE DEF IInv, history
<1>0. /\ NoFile \notin TokenCache /\ Torn \notin TokenCache /\ Nullopt \notin TokenCache
      /\ Torn # NoFile /\ Torn # Nullopt
  OBVIOUS
<1>1. CASE Tick
  <2>1. now' \in Time /\ now' \in Nat /\ now' >= now
    BY <1>1 DEF Tick, TypeOK, Time
  <2>2. TypeOK'
    BY <1>1, <2>1 DEF Tick, TypeOK, server, tokens, wire
  <2>3. cache # Nullopt /\ Expired(cache) => Expired(cache)'
    BY <1>1, <2>1, ExpiredStays DEF Tick, tokens, TypeOK
  <2> QED BY <1>1, <2>2, <2>3 DEF Tick, server, tokens, wire, Phases, Agreement,
             Contents, Session
<1>2. CASE LoginReadsNothing
  BY <1>2 DEF LoginReadsNothing, server, wire, TypeOK, Phases, Agreement, Contents, Session
<1>3. CASE LoginReadsTorn
  BY <1>3 DEF LoginReadsTorn, server, tokens, wire, TypeOK, Phases, Agreement, Contents,
     Session
<1>4. CASE LoginReadsToken
  <2>1. file \in TokenCache /\ file.access \in Token /\ file.refresh \in Token /\ file # Nullopt
    BY <1>0, <1>4 DEF LoginReadsToken, TokenCache
  <2>2. CASE Expired(file)
    <3>1. Expired(cache)'
      BY <1>4, <2>2 DEF LoginReadsToken, Expired
    <3> QED BY <1>0, <1>4, <2>1, <2>2, <3>1 DEF LoginReadsToken, server, TypeOK, Phases,
               Agreement, Contents, Session
  <2>3. CASE ~Expired(file)
    BY <1>0, <1>4, <2>1, <2>3 DEF LoginReadsToken, StartedTimer, server, TypeOK, Phases,
       Agreement, Contents, Session
  <2> QED BY <2>2, <2>3
<1>5. CASE Browser
  BY <1>5 DEF Browser, BrowserReturns, BrowserFails, server, tokens, wire, TypeOK,
     Phases, Agreement, Contents, Session
<1>6. ASSUME NEW rotates \in BOOLEAN, ServerGrants(rotates) PROVE IInv'
  <2>1. issued' \in Token /\ issued' # 0 /\ valid' \in Token
    BY <1>6 DEF ServerGrants, TypeOK, Token
  <2>2. /\ grant' \in [access : Token, refresh : Token]
        /\ grant'.access = issued' /\ grant'.refresh = valid'
    BY <1>6, <2>1 DEF ServerGrants
  <2>3. TypeOK'
    BY <1>6, <2>1, <2>2 DEF ServerGrants, tokens, TypeOK
  <2>4. request = "sent" /\ request' = "answered"
    BY <1>6 DEF ServerGrants
  <2>5. UNCHANGED <<now, file, cache, access, refresh, login, timer, toSave, lost, unsaved>>
    BY <1>6 DEF ServerGrants, tokens
  <2>6. ~Saving
    BY <2>4 DEF Phases
  <2>7. Expired(cache)' = Expired(cache)
    BY <2>5 DEF Expired
  <2> QED BY <2>1, <2>2, <2>3, <2>4, <2>5, <2>6, <2>7 DEF Phases, Agreement, Contents,
             Session
<1>7. CASE ResponseArrives
  <2>1. /\ Received \in TokenCache /\ Received # Nullopt
        /\ Received.access = grant.access /\ Received.refresh = grant.refresh
    BY <1>0, <1>7 DEF Received, ReceivedRefresh, AcquireTime, TypeOK, TokenCache
  <2>2. /\ request = "answered" /\ request' = "none" /\ ~lost' /\ unsaved'
        /\ access' = grant.access /\ refresh' = grant.refresh
        /\ cache' = IF login = "exchanging" THEN cache ELSE Received
        /\ UNCHANGED <<now, issued, valid, grant, crashes>>
    BY <1>7, <2>1 DEF ResponseArrives, UpdatesMembers, CacheAfter, Exchanging, server
  <2>3. /\ LoginWaits => timer = "off"
        /\ ~LoginWaits => timer = "refreshing" /\ login = "true"
        /\ ~Saving /\ grant.access # NoToken /\ grant.refresh = valid
        /\ login # "start"
    BY <2>2 DEF Phases, Contents, Session
  <2>4. lost' \in BOOLEAN /\ unsaved' \in BOOLEAN
    BY <1>7 DEF ResponseArrives
  <2>5. CASE Truncates
    <3>1. /\ file' = Torn /\ toSave' = Received
          /\ \/ LoginWaits /\ login' = "truncated" /\ timer' = timer
             \/ ~LoginWaits /\ timer' = "truncated" /\ login' = login
      BY <2>5 DEF Truncates, Saved, Proceeds, LoginAwaits
    <3>2. TypeOK'
      BY <2>1, <2>2, <2>4, <3>1 DEF TypeOK
    <3>3. Phases' /\ Contents' /\ Session'
      BY <1>0, <2>1, <2>2, <2>3, <3>1 DEF Phases, Agreement, Contents, Session
    <3>4. Agreement'
      BY <1>0, <2>1, <2>2, <2>3, <3>1 DEF Phases, Agreement
    <3> QED BY <3>2, <3>3, <3>4
  <2>6. CASE SkipsSave
    <3>1. /\ UNCHANGED <<file, toSave>> /\ login' = "true"
          /\ timer' = IF cache' = Nullopt THEN "dead" ELSE "armed"
      BY <2>6 DEF SkipsSave, StartsTimer, StartedTimer
    <3>2. TypeOK'
      BY <2>1, <2>2, <2>4, <3>1 DEF TypeOK
    <3>3. Phases' /\ Contents' /\ Session'
      BY <1>0, <2>1, <2>2, <2>3, <3>1 DEF Phases, Contents, Session
    <3>4. Agreement'
      BY <1>0, <2>1, <2>2, <2>3, <3>1 DEF Agreement
    <3> QED BY <3>2, <3>3, <3>4
  <2>7. CASE ThrowsInSave
    <3>1. /\ UNCHANGED <<file, toSave>>
          /\ \/ LoginWaits /\ login' = "dead" /\ timer' = timer
             \/ ~LoginWaits /\ timer' = "dead" /\ login' = login
      BY <2>7 DEF ThrowsInSave, Proceeds, LoginAwaits
    <3>2. TypeOK'
      BY <2>1, <2>2, <2>4, <3>1 DEF TypeOK
    <3>3. Phases' /\ Contents' /\ Session'
      BY <1>0, <2>1, <2>2, <2>3, <3>1 DEF Phases, Contents, Session
    <3>4. Agreement'
      BY <1>0, <2>1, <2>2, <2>3, <3>1 DEF Agreement
    <3> QED BY <3>2, <3>3, <3>4
  <2> QED BY <1>7, <2>5, <2>6, <2>7 DEF ResponseArrives
<1>8. CASE SaveCompletes
  <2>1. /\ toSave \in TokenCache /\ request = "none" /\ unsaved
        /\ cache # Nullopt => toSave = cache
        /\ toSave.access = access /\ toSave.refresh = refresh /\ access # NoToken
    BY <1>8 DEF SaveCompletes, TypeOK, Phases, Contents
  <2>2. /\ file' \in {toSave, Torn} /\ toSave' = Nullopt /\ unsaved' = (file' = Torn)
        /\ login' = "true" /\ timer' = IF cache' = Nullopt THEN "dead" ELSE "armed"
        /\ UNCHANGED <<now, issued, valid, cache, access, refresh, request, grant,
                       crashes, lost>>
    BY <1>8 DEF SaveCompletes, StartsTimer, StartedTimer, server, tokens, wire
  <2>3. TypeOK'
    BY <2>1, <2>2 DEF TypeOK
  <2>4. Phases' /\ Agreement'
    BY <1>0, <2>1, <2>2 DEF Phases, Agreement
  <2>5. Contents' /\ Session'
    BY <1>0, <2>1, <2>2 DEF Contents, Session
  <2> QED BY <2>3, <2>4, <2>5
<1>9. CASE RequestRefused
  <2>1. Expired(cache)' = Expired(cache)
    BY <1>9 DEF RequestRefused, tokens, Expired
  <2> QED BY <1>9, <2>1 DEF RequestRefused, WithoutToken, StartedTimer, Exchanging, server,
             tokens, TypeOK, Phases, Agreement, Contents, Session
<1>10. CASE ResponseBreaks
  <2>1. Expired(cache)' = Expired(cache)
    BY <1>10 DEF ResponseBreaks, tokens, Expired
  <2> QED BY <1>10, <2>1 DEF ResponseBreaks, Proceeds, LoginAwaits, server, tokens, TypeOK, Phases,
             Agreement, Contents, Session
<1>11. CASE TimerFires
  <2>1. Expired(cache)' = Expired(cache)
    BY <1>11 DEF TimerFires, tokens, Expired
  <2> QED BY <1>11, <2>1 DEF TimerFires, server, tokens, TypeOK, Phases, Agreement,
             Contents, Session
<1>12. CASE CrashAndRestart
  <2>1. lost' \in BOOLEAN /\ unsaved' \in BOOLEAN
    BY <1>12 DEF CrashAndRestart
  <2>2. /\ crashes < MaxCrashes /\ crashes' = crashes + 1
        /\ cache' = Nullopt /\ access' = NoToken /\ refresh' = NoToken
        /\ login' = "start" /\ timer' = "off"
        /\ request' = "none" /\ toSave' = Nullopt
        /\ UNCHANGED <<now, issued, valid, file, grant>>
    BY <1>12 DEF CrashAndRestart, server
  <2>3. TypeOK'
    BY <2>1, <2>2 DEF TypeOK, Token
  <2>4. ~unsaved' /\ (~lost' => ~lost /\ request # "answered" /\ ~unsaved)
    BY <1>12 DEF CrashAndRestart
  <2> QED BY <2>2, <2>3, <2>4 DEF Phases, Agreement, Contents, Session
<1>13. CASE UNCHANGED vars
  <2>1. Expired(cache)' = Expired(cache)
    BY <1>13 DEF vars, tokens, Expired
  <2> QED BY <1>13, <2>1 DEF vars, server, tokens, wire, TypeOK, Phases, Agreement, Contents,
             Session
<1> QED
  BY <1>1, <1>2, <1>3, <1>4, <1>5, <1>6, <1>7, <1>8, <1>9, <1>10, <1>11, <1>12, <1>13
  DEF Next, Login, Resume

THEOREM Invariance == Spec => []IInv
BY InitInv, StepInv, PTL DEF Spec

(* Grants are used in the order the server makes them: a token in memory or *)
(* on disk is no newer than the last grant, and that grant is on the wire,  *)
(* in the members, in the file, or lost.                                   *)
Newest ==
    /\ access <= issued
    /\ file \in TokenCache => file.access <= issued
    /\ request = "answered" => grant.access = issued
    /\ ~lost /\ request # "answered" =>
          /\ unsaved => access = issued
          /\ ~unsaved /\ file \in TokenCache => file.access = issued
          /\ ~unsaved /\ file = NoFile => issued = 0

LEMMA NewestStep == IInv /\ Newest /\ [Next]_vars => Newest'
<1> SUFFICES ASSUME IInv, Newest, [Next]_vars PROVE Newest'
  OBVIOUS
<1> USE DEF IInv, Newest, history
<1>0. /\ NoFile \notin TokenCache /\ Torn \notin TokenCache /\ Torn # NoFile
      /\ issued \in Nat /\ access \in Nat
      /\ \A c \in TokenCache : c.access \in Nat
  BY DEF TypeOK, Token, TokenCache
<1>1. CASE Login
  <2>1. login = "start" /\ ~unsaved /\ request = "none" /\ request' # "answered"
    BY <1>1 DEF Login, LoginReadsNothing, LoginReadsTorn, LoginReadsToken, Phases,
       TypeOK, wire
  <2>2. /\ UNCHANGED <<issued, file, lost, unsaved>>
        /\ access' = access \/ (file \in TokenCache /\ access' = file.access)
    BY <1>1 DEF Login, LoginReadsNothing, LoginReadsTorn, LoginReadsToken, server, tokens
  <2> QED BY <2>1, <2>2
<1>2. ASSUME NEW rotates \in BOOLEAN, ServerGrants(rotates) PROVE Newest'
  <2>1. /\ issued' = issued + 1 /\ grant'.access = issued' /\ request' = "answered"
        /\ UNCHANGED <<file, access, lost, unsaved>>
    BY <1>2 DEF ServerGrants, tokens
  <2> QED BY <1>0, <2>1
<1>3. CASE ResponseArrives
  <2>1. /\ access' = issued /\ issued' = issued
        /\ request' = "none" /\ ~lost' /\ unsaved'
    BY <1>3 DEF ResponseArrives, UpdatesMembers, Received, server
  <2>2. file' \in {file, Torn}
    BY <1>3 DEF ResponseArrives, Truncates, SkipsSave, ThrowsInSave
  <2> QED BY <1>0, <2>1, <2>2
<1>4. CASE SaveCompletes
  <2>1. /\ toSave \in TokenCache /\ toSave.access = access
        /\ request = "none" /\ unsaved
    BY <1>4 DEF SaveCompletes, TypeOK, Phases, Contents
  <2>2. /\ file' \in {toSave, Torn} /\ unsaved' = (file' = Torn)
        /\ UNCHANGED <<issued, access, request, grant, lost>>
    BY <1>4 DEF SaveCompletes, server, tokens, wire
  <2> QED BY <1>0, <2>1, <2>2
<1>5. CASE RequestRefused \/ ResponseBreaks
  <2>1. UNCHANGED <<issued, access, file, unsaved>> /\ request' = "none"
    BY <1>5 DEF RequestRefused, ResponseBreaks, server, tokens
  <2>2. ~lost' => ~lost /\ request # "answered"
    BY <1>5 DEF RequestRefused, ResponseBreaks
  <2> QED BY <1>0, <2>1, <2>2
<1>6. CASE CrashAndRestart
  <2>1. ~lost' => ~lost /\ request # "answered" /\ ~unsaved
    BY <1>6 DEF CrashAndRestart
  <2> QED BY <1>0, <1>6, <2>1 DEF CrashAndRestart, server
<1>7. CASE Tick \/ Browser \/ TimerFires \/ UNCHANGED vars
  <2>1. /\ UNCHANGED <<issued, access, file, grant, lost, unsaved>>
        /\ request' = "answered" <=> request = "answered"
    BY <1>7 DEF Tick, Browser, BrowserReturns, BrowserFails, TimerFires, vars, server,
       tokens, wire, Phases
  <2> QED BY <2>1
<1> QED BY <1>1, <1>2, <1>3, <1>4, <1>5, <1>6, <1>7 DEF Next, Resume

LEMMA NewestInvariance == Spec => []Newest
<1>1. Init => Newest
  BY DEF Init, Newest
<1> QED BY <1>1, NewestStep, Invariance, PTL DEF Spec

(* Every variable keeps its type across restarts. *)
THEOREM AuthTypeCorrectness == Spec => []TypeOK
<1>1. IInv => TypeOK
  BY DEF IInv
<1> QED BY <1>1, Invariance, PTL

(* The token file follows the session, and a torn one is the trace of a     *)
(* save that failed or was ended by a death.                               *)
THEOREM FileIsCurrent == Spec => []FileFollowsSession
<1>1. IInv => FileFollowsSession
  BY DEF IInv, Agreement, Session, FileFollowsSession
<1> QED BY <1>1, Invariance, PTL

(* Neither rotation nor a restart costs a session whose last grant was     *)
(* neither lost nor left unsaved.                                          *)
THEOREM RotationIsSafe == Spec => []SessionSurvives
<1>1. IInv /\ Newest => SessionSurvives
  BY DEF IInv, Session, Newest, SessionSurvives
<1> QED BY <1>1, Invariance, NewestInvariance, PTL

(* A save that failed leaves the newest grant in the members.              *)
THEOREM FailedSaveKeepsGrant == Spec => []UnsavedIsHeld
<1>1. IInv /\ Newest => UnsavedIsHeld
  BY DEF IInv, Session, Newest, UnsavedIsHeld
<1> QED BY <1>1, Invariance, NewestInvariance, PTL

(* An armed timer watches the token in use. *)
THEOREM TimerIsRight == Spec => []TimerWatchesToken
<1>1. IInv => TimerWatchesToken
  BY DEF IInv, Phases, Agreement, TimerWatchesToken
<1> QED BY <1>1, Invariance, PTL

(* Until the process is started again, no answer puts an older grant back   *)
(* into the header of the requests.                                        *)
TokensNeverGoBack == [][login' = "start" \/ access' >= access]_vars

(* However login and timer share their requests, a token is only ever      *)
(* replaced by a newer one.                                                *)
THEOREM TokensAdvance == Spec => TokensNeverGoBack
<1>1. IInv /\ Newest /\ [Next]_vars => [login' = "start" \/ access' >= access]_vars
  <2> SUFFICES ASSUME IInv, Newest, Next PROVE login' = "start" \/ access' >= access
    BY DEF vars
  <2>0. access \in Nat /\ access' \in Nat
    BY StepInv DEF IInv, TypeOK, Token
  <2>1. CASE LoginReadsToken
    BY <2>0, <2>1 DEF LoginReadsToken, IInv, Agreement
  <2>2. CASE ResponseArrives
    BY <2>0, <2>2 DEF ResponseArrives, UpdatesMembers, Received, Newest
  <2>3. CASE CrashAndRestart
    BY <2>3 DEF CrashAndRestart
  <2>4. CASE UNCHANGED access
    BY <2>0, <2>4
  <2>5. LoginReadsToken \/ ResponseArrives \/ CrashAndRestart \/ UNCHANGED access
    BY DEF Next, Tick, Login, LoginReadsNothing, LoginReadsTorn, Browser, BrowserReturns,
       BrowserFails, ServerGrants, Resume, RequestRefused, ResponseBreaks,
       SaveCompletes, TimerFires, tokens
  <2> QED BY <2>1, <2>2, <2>3, <2>4, <2>5
<1> QED BY <1>1, Invariance, NewestInvariance, PTL DEF Spec, TokensNeverGoBack

(* The timer that watches a token stops only with the process, or with its *)
(* coroutine when the answer to its refresh breaks or cannot be saved.     *)
Watching == timer \in {"armed", "refreshing", "truncated"}
TimerKeepsWatching ==
    [][Watching /\ ~Watching' =>
         login' = "start" \/ (timer = "refreshing" /\ timer' = "dead")]_vars

(* The safety half of StaleTokenIsReplaced: refused refreshes and saves    *)
(* always lead back to the armed timer.                                    *)
THEOREM TimerIsKept == Spec => TimerKeepsWatching
<1> DEFINE Step == Watching /\ ~Watching' =>
                     login' = "start" \/ (timer = "refreshing" /\ timer' = "dead")
<1>1. IInv /\ [Next]_vars => [Step]_vars
  <2> SUFFICES ASSUME IInv, Next, Watching PROVE Step
    BY DEF vars
  <2> USE DEF Watching
  <2>1. login = "true" /\ cache # Nullopt
    BY DEF IInv, TypeOK, Phases
  <2>2. CASE Tick \/ Login \/ Browser \/ (\E rotates \in BOOLEAN : ServerGrants(rotates))
    BY <2>1, <2>2 DEF Tick, Login, LoginReadsNothing, LoginReadsTorn, LoginReadsToken,
       Browser, BrowserReturns, BrowserFails, ServerGrants
  <2>3. CASE Resume
    <3>1. request # "none" => timer = "refreshing"
      BY <2>1 DEF IInv, Phases
    <3> QED BY <2>1, <2>3, <3>1 DEF Resume, ResponseArrives, UpdatesMembers, Truncates,
               SkipsSave, ThrowsInSave, StartsTimer, Proceeds, CacheAfter, RequestRefused,
               ResponseBreaks, LoginAwaits, WithoutToken, StartedTimer, Exchanging, Received,
               IInv, TypeOK
  <2>4. CASE SaveCompletes
    BY <2>1, <2>4 DEF SaveCompletes, StartsTimer, StartedTimer, tokens
  <2>5. CASE TimerFires \/ CrashAndRestart
    BY <2>5 DEF TimerFires, CrashAndRestart
  <2> QED BY <2>2, <2>3, <2>4, <2>5 DEF Next
<1> QED BY <1>1, Invariance, PTL DEF Spec, TimerKeepsWatching

(* login() keeps its promise: the timer, which shares its requests and its *)
(* members, neither ends nor reopens the session.                          *)
THEOREM LoginIsFinal == Spec => ImplementsSession
<1>1. Init => Promise!Init
  BY DEF Init, Promise!Init, SessionState
<1>2. IInv /\ [Next]_vars => [Promise!Next]_SessionState
  <2> SUFFICES ASSUME IInv, [Next]_vars PROVE [Promise!Next]_SessionState
    OBVIOUS
  <2> USE DEF Promise!Next, Promise!Begin, Promise!Grant, Promise!Deny, Promise!Restart,
              SessionState
  <2>1. /\ login \in {"start", "refreshing", "browser", "exchanging", "truncated",
                      "true", "false", "dead"}
        /\ timer = "truncated" => login = "true"
        /\ request # "none" /\ ~LoginWaits => login = "true"
    BY DEF IInv, TypeOK, Phases
  <2>2. CASE Login
    BY <2>1, <2>2 DEF Login, LoginReadsNothing, LoginReadsTorn, LoginReadsToken
  <2>3. CASE Browser
    BY <2>1, <2>3 DEF Browser, BrowserReturns, BrowserFails
  <2>4. CASE Resume
    BY <2>1, <2>4 DEF Resume, ResponseArrives, Truncates, SkipsSave, ThrowsInSave,
       StartsTimer, Proceeds, RequestRefused, ResponseBreaks, LoginAwaits, WithoutToken,
       Exchanging
  <2>5. CASE SaveCompletes
    BY <2>1, <2>5 DEF SaveCompletes, StartsTimer
  <2>6. CASE CrashAndRestart
    BY <2>1, <2>6 DEF CrashAndRestart
  <2>7. CASE Tick \/ (\E rotates \in BOOLEAN : ServerGrants(rotates)) \/ TimerFires
                  \/ UNCHANGED vars
    BY <2>7 DEF Tick, ServerGrants, TimerFires, vars
  <2> QED BY <2>2, <2>3, <2>4, <2>5, <2>6, <2>7 DEF Next
<1> QED BY <1>1, <1>2, Invariance, PTL DEF Spec, ImplementsSession, Promise!Spec
=============================================================================
