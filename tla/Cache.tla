------------------------------- MODULE Cache -------------------------------
(***************************************************************************)
(* The lists of the library (top artists, top tracks, playlists) in memory *)
(* and in the table api_cache of spotify.db, which every process of the    *)
(* user shares: requests of the menu, answers out of order, errors, saves  *)
(* that throw, deaths and starts.                                          *)
(***************************************************************************)
EXTENDS Naturals

CONSTANTS
    Processes,      \* instances of the program with the same cache directory
    Keys,           \* cache keys: GetUserTopArtists, GetUserTopTracks, ...
    Answers,        \* parsed responses
    Empty,          \* the value T{}; a missing row reads the same
    Unreadable,     \* a row that rfl::json::read refuses
    Off,            \* the memory of a process that does not run
    Slots,          \* bounds the requests in flight
    MaxFailures,    \* bounds the requests and saves that fail
    MaxDeaths       \* bounds the deaths

ASSUME CacheAssumption ==
    /\ Empty \notin Answers /\ Unreadable \notin Answers /\ Off \notin Answers
    /\ Empty # Unreadable /\ Empty # Off /\ Off # Unreadable
    /\ MaxFailures \in Nat /\ MaxDeaths \in Nat

VARIABLES
    memory,         \* SpotifyData of each process: topArtists, topTracks, ...
    row,            \* api_cache
    request,        \* the request of each slot
    inSync,         \* history: the processes that last wrote a row, or have
                    \* read it since
    failures, deaths

vars == <<memory, row, request, inSync, failures, deaths>>

Values == Answers \cup {Empty}
Phases == {"sent", "answered", "threw"}

Free == [phase |-> "free"]
Request(phase, p, k, v) == [phase |-> phase, owner |-> p, key |-> k, value |-> v]
Requests == [phase : Phases, owner : Processes, key : Keys, value : Values]

TypeOK ==
    /\ memory \in [Processes -> [Keys -> Values \cup {Off}]]
    /\ row \in [Keys -> Values \cup {Unreadable}]
    /\ request \in [Slots -> Requests \cup {Free}]
    /\ inSync \in [Keys -> SUBSET Processes]
    /\ failures \in 0..MaxFailures /\ deaths \in 0..MaxDeaths

Init ==
    /\ memory = [p \in Processes |-> [k \in Keys |-> Off]]
    /\ row \in [Keys -> Values \cup {Unreadable}]
    /\ request = [s \in Slots |-> Free]
    /\ inSync = [k \in Keys |-> {}]
    /\ failures = 0 /\ deaths = 0

Runs(p) == \A k \in Keys : memory[p][k] # Off

MayFail == failures < MaxFailures /\ failures' = failures + 1

-----------------------------------------------------------------------------
(* Starting: initDataFromCache reads the rows one by one. *)

(* Mutant: an error of rfl::json::read is not looked at. *)
Unchecked(k) == k \in Keys

Readable(k) == row[k] # Unreadable

(* Mutant: the row is parsed, and the result dropped. *)
LoadsNothing(p, k) ==
    /\ memory[p][k] = Off /\ Readable(k)
    /\ memory' = [memory EXCEPT ![p][k] = Empty]
    /\ inSync' = [inSync EXCEPT ![k] = @ \cup {p}]
    /\ UNCHANGED <<row, request, failures, deaths>>

LoadRow(p, k) ==
    /\ memory[p][k] = Off /\ Readable(k)
    /\ memory' = [memory EXCEPT ![p][k] = row[k]]
    /\ inSync' = [inSync EXCEPT ![k] = @ \cup {p}]
    /\ UNCHANGED <<row, request, failures, deaths>>

(* What a death leaves: the rows, and the other processes' requests. *)
Dies(p) ==
    /\ deaths < MaxDeaths /\ deaths' = deaths + 1
    /\ memory' = [memory EXCEPT ![p] = [k \in Keys |-> Off]]
    /\ request' = [s \in Slots |->
         IF request[s] # Free /\ request[s].owner = p THEN Free ELSE request[s]]

(* Quitting, a crash, an unreadable row or a locked database at the start: *)
(* nothing catches what initDataFromCache throws.                          *)
Death(p) ==
    /\ Dies(p)
    /\ UNCHANGED <<row, inSync, failures>>

-----------------------------------------------------------------------------
(* Requests: the entries of the menu, sent by the event handler. *)

Send(p, k) ==
    /\ Runs(p)
    /\ \E s \in Slots :
        /\ request[s] = Free
        /\ request' = [request EXCEPT
             ![s] = Request("sent", p, k, Empty)]
    /\ UNCHANGED <<memory, row, inSync, failures, deaths>>

(* Any status but 200, a refused connection and an empty body give T{}.    *)
Respond(s, v) ==
    /\ request[s].phase = "sent"
    /\ IF v = Empty THEN MayFail ELSE UNCHANGED failures
    /\ request' = [request EXCEPT ![s] = Request("answered", @.owner, @.key, v)]
    /\ UNCHANGED <<memory, row, inSync, deaths>>

(* Resolving, reading or parsing throws. *)
Throw(s) ==
    /\ request[s].phase = "sent"
    /\ MayFail
    /\ request' = [request EXCEPT ![s] = Request("threw", @.owner, @.key, Empty)]
    /\ UNCHANGED <<memory, row, inSync, deaths>>

-----------------------------------------------------------------------------
(* Completion: the callback writes memory, then the row. *)

(* onComplete(v), when saving does not throw. *)
Store(p, k, v) ==
    /\ memory' = [memory EXCEPT ![p][k] = v]
    /\ row' = [row EXCEPT ![k] = v]

(* Mutant: the exception of the save is only logged. *)
OnlyLogged(p, k, v) == memory' = [memory EXCEPT ![p][k] = v] /\ UNCHANGED row

(* The handler of fetchData calls onComplete(T{}); what its save throws is *)
(* dropped with the coroutine.                                             *)
StoreEmpty(p, k, v) ==
    /\ memory' = [memory EXCEPT ![p][k] = Empty]
    /\ row' \in {row, [row EXCEPT ![k] = Empty]}

Written(p, k) ==
    inSync' = [inSync EXCEPT ![k] = {p}]

(* The callback of an answer inside the try block. *)
Complete(s) ==
    /\ request[s].phase = "answered"
    /\ LET r == request[s] IN
        /\ Store(r.owner, r.key, r.value)
        /\ Written(r.owner, r.key)
    /\ request' = [request EXCEPT ![s] = Free]
    /\ UNCHANGED <<failures, deaths>>

(* The request threw, or now the save. *)
CompleteWithError(s) ==
    /\ \/ request[s].phase = "threw" /\ UNCHANGED failures
       \/ request[s].phase = "answered" /\ MayFail
    /\ LET r == request[s] IN
        /\ StoreEmpty(r.owner, r.key, r.value)
        /\ Written(r.owner, r.key)
    /\ request' = [request EXCEPT ![s] = Free]
    /\ UNCHANGED deaths

(* The process dies when it has saved, before it goes on. *)
DeathAfterSave(s) ==
    /\ request[s].phase \in {"answered", "threw"}
    /\ LET r == request[s] IN
        /\ Dies(r.owner)
        /\ row' = [row EXCEPT ![r.key] = IF r.phase = "answered" THEN r.value ELSE Empty]
        /\ inSync' = [inSync EXCEPT ![r.key] = {}]
    /\ UNCHANGED failures

Next ==
    \/ \E p \in Processes :
        \/ Death(p)
        \/ \E k \in Keys : LoadRow(p, k) \/ Send(p, k)
    \/ \E s \in Slots :
        \/ \E v \in Values : Respond(s, v)
        \/ Throw(s) \/ Complete(s) \/ CompleteWithError(s) \/ DeathAfterSave(s)

Spec == Init /\ [][Next]_vars

-----------------------------------------------------------------------------
(* What a process shows survives a restart: while no other process wrote   *)
(* the row since, its lists are the rows', or empty after an error; in     *)
(* particular a failed save does not leave an answer on the screen that    *)
(* the next start does not know (spotifyWebAPI.cpp:154-166).               *)
ShownIsKept ==
    \A k \in Keys : \A p \in inSync[k] : memory[p][k] \in {row[k], Empty, Off}

Promise == INSTANCE Store WITH kept <- row, shown <- memory

(* Completions with their two callbacks, and deaths at any point,          *)
(* implement the store.                                                    *)
ImplementsStore == Promise!Spec
=============================================================================
