---------------------------- MODULE CacheProofs ----------------------------
(***************************************************************************)
(* The response cache for any processes, keys, answers, slots, failures    *)
(* and deaths: what is shown is kept, and the completions with their two   *)
(* callbacks implement Store.                                              *)
(***************************************************************************)
EXTENDS Cache, TLAPS

USE CacheAssumption

(* Only a running process has requests: a death takes them with it. *)
OwnersRun ==
    \A s \in Slots : request[s] # Free =>
        \A k \in Keys : memory[request[s].owner][k] # Off

IInv == TypeOK /\ OwnersRun /\ ShownIsKept

-----------------------------------------------------------------------------
(* What the requests and the operators on them are made of. *)

LEMMA Building ==
    ASSUME NEW phase \in Phases, NEW p \in Processes, NEW k \in Keys, NEW v \in Values
    PROVE  /\ Request(phase, p, k, v) \in Requests
           /\ Request(phase, p, k, v).owner = p
           /\ Request(phase, p, k, v) # Free
BY DEF Request, Requests, Free, Phases

LEMMA Taken ==
    ASSUME TypeOK, NEW s \in Slots, request[s].phase \in Phases
    PROVE  /\ request[s] \in Requests /\ request[s] # Free
           /\ request[s].owner \in Processes /\ request[s].key \in Keys
           /\ request[s].value \in Values
BY DEF TypeOK, Requests, Free, Phases

LEMMA Counting ==
    ASSUME TypeOK, MayFail \/ UNCHANGED failures
    PROVE  failures' \in 0..MaxFailures
BY DEF TypeOK, MayFail

(* A death hides what the process showed and takes its requests with it;   *)
(* the others keep theirs.                                                 *)
LEMMA Dying ==
    ASSUME IInv, NEW p \in Processes, Dies(p)
    PROVE  /\ memory' \in [Processes -> [Keys -> Values \cup {Off}]]
           /\ request' \in [Slots -> Requests \cup {Free}]
           /\ deaths' \in 0..MaxDeaths
           /\ OwnersRun'
           /\ \A q \in Processes, k \in Keys : memory'[q][k] \in {memory[q][k], Off}
<1>1. deaths' \in 0..MaxDeaths
  BY DEF IInv, TypeOK, Dies
<1>2. memory' \in [Processes -> [Keys -> Values \cup {Off}]]
  BY DEF IInv, TypeOK, Dies
<1>3. request' \in [Slots -> Requests \cup {Free}]
  BY DEF IInv, TypeOK, Dies
<1>4. \A q \in Processes, k \in Keys :
        memory'[q][k] = IF q = p THEN Off ELSE memory[q][k]
  BY DEF IInv, TypeOK, Dies
<1>5. ASSUME NEW s \in Slots, request'[s] # Free
      PROVE  \A k \in Keys : memory'[request'[s].owner][k] # Off
  <2>1. request'[s] = request[s] /\ request[s] # Free /\ request[s].owner # p
    BY <1>5 DEF Dies
  <2>2. (\A k \in Keys : memory[request[s].owner][k] # Off) /\ request[s].owner \in Processes
    BY <2>1 DEF IInv, OwnersRun, TypeOK, Requests
  <2> QED BY <1>4, <2>1, <2>2
<1> QED BY <1>1, <1>2, <1>3, <1>4, <1>5 DEF OwnersRun

(* A completion frees its slot, stores a value in one list of a running    *)
(* process and leaves the row with that list or unchanged.                 *)
LEMMA Completing ==
    ASSUME IInv, NEW s \in Slots, request[s].phase \in Phases, NEW v \in Values,
           NEW r, r = request[s],
           memory' = [memory EXCEPT ![r.owner][r.key] = v],
           row' = [row EXCEPT ![r.key] = v] \/ (v = Empty /\ row' = row),
           Written(r.owner, r.key),
           request' = [request EXCEPT ![s] = Free]
    PROVE  /\ memory' \in [Processes -> [Keys -> Values \cup {Off}]]
           /\ row' \in [Keys -> Values \cup {Unreadable}]
           /\ request' \in [Slots -> Requests \cup {Free}]
           /\ inSync' \in [Keys -> SUBSET Processes]
           /\ OwnersRun' /\ ShownIsKept'
<1> DEFINE p == r.owner
           k == r.key
<1>0. p \in Processes /\ k \in Keys
  BY Taken DEF IInv
<1>1. /\ memory' \in [Processes -> [Keys -> Values \cup {Off}]]
      /\ row' \in [Keys -> Values \cup {Unreadable}]
      /\ request' \in [Slots -> Requests \cup {Free}]
      /\ inSync' \in [Keys -> SUBSET Processes]
  BY <1>0 DEF IInv, TypeOK, Written
<1>2. \A q \in Processes, j \in Keys :
        memory'[q][j] = IF q = p /\ j = k THEN v ELSE memory[q][j]
  BY <1>0 DEF IInv, TypeOK
<1>3. ASSUME NEW t \in Slots, request'[t] # Free
      PROVE  \A j \in Keys : memory'[request'[t].owner][j] # Off
  <2>1. /\ request'[t] = request[t] /\ request[t].owner \in Processes
        /\ \A j \in Keys : memory[request[t].owner][j] # Off
    BY <1>3 DEF IInv, TypeOK, OwnersRun, Requests
  <2> QED BY <1>2, <2>1 DEF Values
<1>4. ASSUME NEW j \in Keys, NEW q \in inSync'[j]
      PROVE  memory'[q][j] \in {row'[j], Empty, Off}
  <2>1. CASE j = k
    <3>1. q = p
      BY <1>0, <1>4, <2>1 DEF Written, IInv, TypeOK
    <3> QED BY <1>0, <1>2, <2>1, <3>1 DEF IInv, TypeOK
  <2>2. CASE j # k
    <3>1. q \in inSync[j] /\ row'[j] = row[j] /\ q \in Processes
      BY <1>0, <1>4, <2>2 DEF Written, IInv, TypeOK
    <3> QED BY <1>2, <2>2, <3>1 DEF IInv, ShownIsKept
  <2> QED BY <2>1, <2>2
<1> QED BY <1>1, <1>3, <1>4 DEF OwnersRun, ShownIsKept

-----------------------------------------------------------------------------
(* The invariant. *)

LEMMA InitInv == Init => IInv
BY DEF Init, IInv, TypeOK, OwnersRun, ShownIsKept, Free, Values

LEMMA LoadRowInv ==
    ASSUME IInv, NEW p \in Processes, NEW k \in Keys, LoadRow(p, k)
    PROVE  IInv'
<1>1. row[k] \in Values
  BY DEF IInv, TypeOK, LoadRow, Readable
<1>2. TypeOK'
  BY <1>1 DEF IInv, TypeOK, LoadRow
<1>3. \A q \in Processes, j \in Keys :
        memory'[q][j] = IF q = p /\ j = k THEN row[k] ELSE memory[q][j]
  BY DEF IInv, TypeOK, LoadRow
<1>4. OwnersRun'
  <2> SUFFICES ASSUME NEW s \in Slots, request'[s] # Free
               PROVE  \A j \in Keys : memory'[request'[s].owner][j] # Off
    BY DEF OwnersRun
  <2>1. /\ request'[s] = request[s] /\ request[s].owner \in Processes
        /\ \A j \in Keys : memory[request[s].owner][j] # Off
    BY DEF IInv, TypeOK, OwnersRun, LoadRow, Requests
  <2> QED BY <1>1, <1>3, <2>1 DEF Values
<1>5. ShownIsKept'
  <2> SUFFICES ASSUME NEW j \in Keys, NEW q \in inSync'[j]
               PROVE  memory'[q][j] \in {row'[j], Empty, Off}
    BY DEF ShownIsKept
  <2>1. q \in Processes /\ row'[j] = row[j]
    BY <1>2 DEF TypeOK, LoadRow
  <2>2. (q = p /\ j = k) \/ q \in inSync[j]
    BY DEF LoadRow, IInv, TypeOK
  <2> QED BY <1>3, <2>1, <2>2 DEF IInv, ShownIsKept
<1> QED BY <1>2, <1>4, <1>5 DEF IInv

LEMMA DeathInv ==
    ASSUME IInv, NEW p \in Processes, Death(p)
    PROVE  IInv'
<1>1. /\ memory' \in [Processes -> [Keys -> Values \cup {Off}]]
      /\ request' \in [Slots -> Requests \cup {Free}]
      /\ deaths' \in 0..MaxDeaths /\ OwnersRun'
      /\ \A q \in Processes, k \in Keys : memory'[q][k] \in {memory[q][k], Off}
  BY Dying DEF Death
<1>2. TypeOK'
  BY <1>1 DEF IInv, TypeOK, Death
<1>3. ShownIsKept'
  BY <1>1 DEF IInv, TypeOK, ShownIsKept, Death
<1> QED BY <1>1, <1>2, <1>3 DEF IInv

(* A request that is sent, answered or throws changes its slot only. *)
LEMMA SlotInv ==
    ASSUME IInv, NEW s \in Slots, NEW r \in Requests, r # Free, Runs(r.owner),
           request' = [request EXCEPT ![s] = r],
           UNCHANGED <<memory, row, inSync, deaths>>,
           MayFail \/ UNCHANGED failures
    PROVE  IInv'
<1>1. failures' \in 0..MaxFailures
  BY Counting DEF IInv
<1>2. TypeOK'
  BY <1>1 DEF IInv, TypeOK
<1>3. OwnersRun'
  BY DEF IInv, TypeOK, OwnersRun, Runs
<1> QED BY <1>2, <1>3 DEF IInv, ShownIsKept

LEMMA StepInv == IInv /\ [Next]_vars => IInv'
<1> SUFFICES ASSUME IInv, [Next]_vars PROVE IInv'
  OBVIOUS
<1>1. ASSUME NEW p \in Processes, Death(p) PROVE IInv'
  BY <1>1, DeathInv
<1>2. ASSUME NEW p \in Processes, NEW k \in Keys, LoadRow(p, k) PROVE IInv'
  BY <1>2, LoadRowInv
<1>3. ASSUME NEW p \in Processes, NEW k \in Keys, Send(p, k) PROVE IInv'
  <2>1. PICK s \in Slots : request' = [request EXCEPT ![s] = Request("sent", p, k, Empty)]
    BY <1>3 DEF Send
  <2>2. Request("sent", p, k, Empty) \in Requests /\ Request("sent", p, k, Empty) # Free
        /\ Request("sent", p, k, Empty).owner = p
    BY Building DEF Phases, Values
  <2> QED BY <1>3, <2>1, <2>2, SlotInv DEF Send
<1>4. ASSUME NEW s \in Slots, NEW v \in Values, Respond(s, v) PROVE IInv'
  <2>1. request[s] # Free /\ request[s].owner \in Processes /\ request[s].key \in Keys
    BY <1>4, Taken DEF Respond, Phases, IInv
  <2>2. Runs(request[s].owner)
    BY <2>1 DEF IInv, OwnersRun, Runs
  <2>3. PICK r : r = Request("answered", request[s].owner, request[s].key, v)
    OBVIOUS
  <2>4. r \in Requests /\ r # Free /\ r.owner = request[s].owner
    BY <2>1, <2>3, Building DEF Phases
  <2> QED BY <1>4, <2>2, <2>3, <2>4, SlotInv DEF Respond, IInv, TypeOK
<1>5. ASSUME NEW s \in Slots, Throw(s) PROVE IInv'
  <2>1. request[s] # Free /\ request[s].owner \in Processes /\ request[s].key \in Keys
    BY <1>5, Taken DEF Throw, Phases, IInv
  <2>2. Runs(request[s].owner)
    BY <2>1 DEF IInv, OwnersRun, Runs
  <2>3. PICK r : r = Request("threw", request[s].owner, request[s].key, Empty)
    OBVIOUS
  <2>4. r \in Requests /\ r # Free /\ r.owner = request[s].owner
    BY <2>1, <2>3, Building DEF Phases, Values
  <2> QED BY <1>5, <2>2, <2>3, <2>4, SlotInv DEF Throw, IInv, TypeOK
<1>6. ASSUME NEW s \in Slots, Complete(s) PROVE IInv'
  <2>1. request[s].phase \in Phases
    BY <1>6 DEF Complete, Phases
  <2>2. request[s].value \in Values
    BY <2>1, Taken DEF IInv
  <2>3. /\ memory' \in [Processes -> [Keys -> Values \cup {Off}]]
        /\ row' \in [Keys -> Values \cup {Unreadable}]
        /\ request' \in [Slots -> Requests \cup {Free}]
        /\ inSync' \in [Keys -> SUBSET Processes]
        /\ OwnersRun' /\ ShownIsKept'
    BY <1>6, <2>1, <2>2, Completing DEF Complete, Store
  <2> QED BY <1>6, <2>3 DEF Complete, IInv, TypeOK
<1>7. ASSUME NEW s \in Slots, CompleteWithError(s) PROVE IInv'
  <2>1. request[s].phase \in Phases /\ (MayFail \/ UNCHANGED failures)
    BY <1>7 DEF CompleteWithError, Phases
  <2>2. failures' \in 0..MaxFailures
    BY <2>1, Counting DEF IInv
  <2>3. Empty \in Values
    BY DEF Values
  <2>4. /\ memory' \in [Processes -> [Keys -> Values \cup {Off}]]
        /\ row' \in [Keys -> Values \cup {Unreadable}]
        /\ request' \in [Slots -> Requests \cup {Free}]
        /\ inSync' \in [Keys -> SUBSET Processes]
        /\ OwnersRun' /\ ShownIsKept'
    BY <1>7, <2>1, <2>3, Completing DEF CompleteWithError, StoreEmpty
  <2> QED BY <1>7, <2>2, <2>4 DEF CompleteWithError, IInv, TypeOK
<1>8. ASSUME NEW s \in Slots, DeathAfterSave(s) PROVE IInv'
  <2> DEFINE r == request[s]
  <2>1. r.owner \in Processes /\ r.key \in Keys /\ r.value \in Values
    BY <1>8, Taken DEF DeathAfterSave, Phases, IInv
  <2>2. /\ memory' \in [Processes -> [Keys -> Values \cup {Off}]]
        /\ request' \in [Slots -> Requests \cup {Free}]
        /\ deaths' \in 0..MaxDeaths /\ OwnersRun'
        /\ \A q \in Processes, k \in Keys : memory'[q][k] \in {memory[q][k], Off}
    BY <1>8, <2>1, Dying DEF DeathAfterSave
  <2>3. row' \in [Keys -> Values \cup {Unreadable}] /\ inSync' \in [Keys -> SUBSET Processes]
    BY <1>8, <2>1 DEF DeathAfterSave, IInv, TypeOK, Values
  <2>4. TypeOK'
    BY <1>8, <2>2, <2>3 DEF DeathAfterSave, IInv, TypeOK
  <2>5. ASSUME NEW k \in Keys, NEW q \in inSync'[k]
        PROVE  q \in inSync[k] /\ row'[k] = row[k] /\ q \in Processes
    BY <1>8, <2>1, <2>5 DEF DeathAfterSave, IInv, TypeOK
  <2>6. ShownIsKept'
    BY <2>2, <2>5 DEF IInv, ShownIsKept
  <2> QED BY <2>2, <2>4, <2>6 DEF IInv
<1>9. CASE UNCHANGED vars
  BY <1>9 DEF vars, IInv, TypeOK, OwnersRun, ShownIsKept, Runs
<1> QED BY <1>1, <1>2, <1>3, <1>4, <1>5, <1>6, <1>7, <1>8, <1>9 DEF Next

THEOREM Invariance == Spec => []IInv
BY InitInv, StepInv, PTL DEF Spec

(* Lists, rows and requests keep their types; in particular no unreadable  *)
(* row reaches memory (spotifyClient.cpp:28-57).                           *)
THEOREM CacheTypeCorrectness == Spec => []TypeOK
<1>1. IInv => TypeOK
  BY DEF IInv
<1> QED BY <1>1, Invariance, PTL

(* What a process shows is what the next start reads, or nothing, until    *)
(* another process writes the row (spotifyWebAPI.cpp:154-166).             *)
THEOREM ShownSurvives == Spec => []ShownIsKept
<1>1. IInv => ShownIsKept
  BY DEF IInv
<1> QED BY <1>1, Invariance, PTL

-----------------------------------------------------------------------------
(* Every behaviour of the cache is one of Store: an answer is shown and    *)
(* kept in one step, only an error or another answer replaces it, and a    *)
(* death loses nothing that was kept (event.cpp:68-107).                   *)
THEOREM CacheImplementsStore == Spec => ImplementsStore
<1>1. Init => Promise!Init
  BY DEF Init, Promise!Init, Values
<1>2. IInv /\ [Next]_vars => [Promise!Next]_(Promise!vars)
  <2> SUFFICES ASSUME IInv, [Next]_vars PROVE [Promise!Next]_(Promise!vars)
    OBVIOUS
  <2> USE DEF Promise!vars
  <2>1. ASSUME NEW p \in Processes, Death(p) PROVE Promise!Next
    BY <2>1 DEF Death, Dies, Promise!Next, Promise!Stop, Promise!Hidden
  <2>2. ASSUME NEW p \in Processes, NEW k \in Keys, LoadRow(p, k) PROVE Promise!Next
    <3>1. Promise!Recall(p, k)
      BY <2>2 DEF LoadRow, Readable, Promise!Recall
    <3> QED BY <3>1 DEF Promise!Next
  <2>3. ASSUME NEW s \in Slots, request[s].phase \in Phases
        PROVE  /\ request[s].owner \in Processes /\ request[s].key \in Keys
               /\ request[s].value \in Values
               /\ \A j \in Keys : memory[request[s].owner][j] # Off
    BY <2>3, Taken DEF IInv, OwnersRun, Runs
  <2>4. ASSUME NEW s \in Slots, Complete(s) PROVE Promise!Next
    <3>1. request[s].phase \in Phases
      BY <2>4 DEF Complete, Phases
    <3>2. CASE request[s].value = Empty
      <4>1. Promise!Fail(request[s].owner, request[s].key)
        BY <2>4, <3>2 DEF Complete, Store, Promise!Fail
      <4> QED BY <2>3, <3>1, <4>1 DEF Promise!Next
    <3>3. CASE request[s].value # Empty
      <4>1. Promise!Answer(request[s].owner, request[s].key, request[s].value)
        BY <2>4 DEF Complete, Store, Promise!Answer
      <4>2. request[s].value \in Answers
        BY <2>3, <3>1, <3>3 DEF Values
      <4> QED BY <2>3, <3>1, <4>1, <4>2 DEF Promise!Next
    <3> QED BY <3>2, <3>3
  <2>5. ASSUME NEW s \in Slots, CompleteWithError(s) PROVE Promise!Next
    <3>1. request[s].phase \in Phases
      BY <2>5 DEF CompleteWithError, Phases
    <3>2. Promise!Fail(request[s].owner, request[s].key)
      BY <2>5 DEF CompleteWithError, StoreEmpty, Promise!Fail
    <3> QED BY <2>3, <3>1, <3>2 DEF Promise!Next
  <2>6. ASSUME NEW s \in Slots, DeathAfterSave(s) PROVE Promise!Next
    <3>1. request[s].phase \in Phases
      BY <2>6 DEF DeathAfterSave, Phases
    <3>2. PICK v \in Values : row' = [row EXCEPT ![request[s].key] = v]
      BY <2>3, <2>6, <3>1 DEF DeathAfterSave, Values
    <3>3. Promise!StopAfter(request[s].owner, request[s].key, v)
      BY <2>6, <3>2 DEF DeathAfterSave, Dies, Promise!StopAfter, Promise!Hidden
    <3> QED BY <2>3, <3>1, <3>2, <3>3 DEF Promise!Next, Values
  <2>7. ASSUME NEW p \in Processes, NEW k \in Keys, Send(p, k)
        PROVE  UNCHANGED Promise!vars
    BY <2>7 DEF Send
  <2>8. ASSUME NEW s \in Slots, NEW v \in Values, Respond(s, v)
        PROVE  UNCHANGED Promise!vars
    BY <2>8 DEF Respond
  <2>9. ASSUME NEW s \in Slots, Throw(s) PROVE UNCHANGED Promise!vars
    BY <2>9 DEF Throw
  <2>10. CASE UNCHANGED vars
    BY <2>10 DEF vars
  <2> QED
    BY <2>1, <2>2, <2>4, <2>5, <2>6, <2>7, <2>8, <2>9, <2>10 DEF Next
<1> QED BY <1>1, <1>2, Invariance, PTL DEF Spec, ImplementsStore, Promise!Spec
=============================================================================
