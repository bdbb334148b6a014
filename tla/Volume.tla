------------------------------- MODULE Volume -------------------------------
(***************************************************************************)
(* The volume keys: each adds to the volume of the last stored fetch, not  *)
(* to what earlier keys have asked for.  Volumes are counted in tens, the  *)
(* step of a key; devices[0].volume_percent, which completions write, has  *)
(* no reader and is left out.                                              *)
(***************************************************************************)
EXTENDS Integers, Sequences

CONSTANTS
    Top,            \* Spotify's loudest volume
    None,           \* no device stored
    Slots,          \* bounds the requests in flight
    MaxInputs,      \* bounds the keys and fetches
    MaxChanges,     \* bounds the changes made elsewhere
    MaxFailures     \* bounds the requests that fail

Keys == {"up", "down"}              \* SetVolumeUp and SetVolumeDown
Step(k) == IF k = "up" THEN 1 ELSE -1

VARIABLES
    server,         \* the volume of Spotify's active device
    stored,         \* currentlyPlayTrack.device.volume_percent, if
                    \* the device supports it
    queue,          \* eventQueue
    request,        \* the request of each slot
    inputs, changes, failures

vars == <<server, stored, queue, request, inputs, changes, failures>>

counts == <<inputs, changes, failures>>

Free == [kind |-> "free"]

Init ==
    /\ server \in 0..Top /\ stored \in {server, None}
    /\ queue = <<>> /\ request = [s \in Slots |-> Free]
    /\ inputs = 0 /\ changes = 0 /\ failures = 0

Input == inputs < MaxInputs /\ inputs' = inputs + 1

-----------------------------------------------------------------------------
(* What comes in. *)

Key(k) ==
    /\ Input
    /\ queue' = Append(queue, k)
    /\ UNCHANGED <<server, stored, request, changes, failures>>

(* Player events, D-Bus methods and the end of a track ask for a fetch. *)
RequestFetch ==
    /\ Input
    /\ queue' = Append(queue, "fetch")
    /\ UNCHANGED <<server, stored, request, changes, failures>>

ChangedElsewhere ==
    /\ changes < MaxChanges /\ changes' = changes + 1
    /\ server' \in 0..Top \ {server}
    /\ UNCHANGED <<stored, queue, request, inputs, failures>>

-----------------------------------------------------------------------------
(* The event handler. *)

NewVolume(k) == stored + Step(k)

Sends(r) ==
    \E s \in Slots : request[s] = Free /\ request' = [request EXCEPT ![s] = r]

HandleKey ==
    /\ queue # <<>> /\ Head(queue) \in Keys /\ queue' = Tail(queue)
    /\ IF stored = None THEN UNCHANGED request
       ELSE Sends([kind |-> "set", volume |-> NewVolume(Head(queue)), key |-> Head(queue)])
    /\ UNCHANGED <<server, stored, counts>>

HandleFetch ==
    /\ queue # <<>> /\ Head(queue) = "fetch" /\ queue' = Tail(queue)
    /\ Sends([kind |-> "fetch"])
    /\ UNCHANGED <<server, stored, counts>>

-----------------------------------------------------------------------------
(* Spotify, and the completions. *)

Accepts(v) == v \in 0..Top

ServeSet(s) ==
    /\ request[s].kind = "set"
    /\ server' = IF Accepts(request[s].volume) THEN request[s].volume ELSE server
    /\ request' = [request EXCEPT ![s] = [kind |-> "set done"]]
    /\ UNCHANGED <<stored, queue, counts>>

(* An answer may name no device, or one without a volume. *)
ServeFetch(s) ==
    /\ request[s].kind = "fetch"
    /\ \E v \in {server, None} :
         request' = [request EXCEPT ![s] = [kind |-> "fetched", volume |-> v]]
    /\ UNCHANGED <<server, stored, queue, counts>>

Fail(s) ==
    /\ request[s].kind \in {"set", "fetch"}
    /\ failures < MaxFailures /\ failures' = failures + 1
    /\ request' = [request EXCEPT ![s] =
         [kind |-> IF request[s].kind = "set" THEN "set failed" ELSE "fetch failed"]]
    /\ UNCHANGED <<server, stored, queue, inputs, changes>>

(* Only fetches write the stored track; a failed one empties it. *)
Stores(r) ==
    stored' = IF r.kind = "fetched" THEN r.volume
              ELSE IF r.kind = "fetch failed" THEN None ELSE stored

Complete(s) ==
    /\ request[s].kind \in {"set done", "fetched", "set failed", "fetch failed"}
    /\ Stores(request[s])
    /\ request' = [request EXCEPT ![s] = Free]
    /\ UNCHANGED <<server, queue, counts>>

Next ==
    \/ \E k \in Keys : Key(k)
    \/ RequestFetch \/ ChangedElsewhere
    \/ HandleKey \/ HandleFetch
    \/ \E s \in Slots : ServeSet(s) \/ ServeFetch(s) \/ Fail(s) \/ Complete(s)

Spec == Init /\ [][Next]_vars
-----------------------------------------------------------------------------
(* "=" raises the volume (ui.cpp:372, "set song's volume up"): Spotify,    *)
(* when it carries out the key's request, gets louder unless it already is *)
(* at its loudest.                                                         *)
VolumeUpRaises ==
    [][\A s \in Slots : ServeSet(s) /\ request[s].key = "up" => server' > server \/ server = Top]_vars
=============================================================================
