------------------------------- MODULE Store -------------------------------
(***************************************************************************)
(* What the response cache promises: a running process shows for each kind *)
(* of response an answer or nothing; an answer is kept for the next start  *)
(* as soon as it is shown; an error shows nothing and may lose what was    *)
(* kept.  Nothing else is lost, whenever a process ends.                   *)
(***************************************************************************)
CONSTANTS Processes, Keys, Answers, Empty,
          Off,          \* what a process that does not run shows
          Unreadable    \* kept by something else

VARIABLES kept, shown

vars == <<kept, shown>>

Init ==
    /\ kept \in [Keys -> Answers \cup {Empty, Unreadable}]
    /\ shown = [p \in Processes |-> [k \in Keys |-> Off]]

Hidden == [k \in Keys |-> Off]

(* A starting process reads what is kept. *)
Recall(p, k) ==
    /\ shown[p][k] = Off /\ kept[k] # Unreadable
    /\ shown' = [shown EXCEPT ![p][k] = kept[k]]
    /\ UNCHANGED kept

Stop(p) ==
    /\ shown' = [shown EXCEPT ![p] = Hidden]
    /\ UNCHANGED kept

Answer(p, k, v) ==
    /\ shown' = [shown EXCEPT ![p][k] = v]
    /\ kept' = [kept EXCEPT ![k] = v]

Fail(p, k) ==
    /\ shown' = [shown EXCEPT ![p][k] = Empty]
    /\ kept' \in {kept, [kept EXCEPT ![k] = Empty]}

(* The process ends when it has kept v. *)
StopAfter(p, k, v) ==
    /\ shown' = [shown EXCEPT ![p] = Hidden]
    /\ kept' = [kept EXCEPT ![k] = v]

Next ==
    \E p \in Processes :
        \/ Stop(p)
        \/ \E k \in Keys :
            \/ Recall(p, k)
            \/ /\ \A j \in Keys : shown[p][j] # Off
               /\ \/ Fail(p, k)
                  \/ \E v \in Answers : Answer(p, k, v)
                  \/ \E v \in Answers \cup {Empty} : StopAfter(p, k, v)

Spec == Init /\ [][Next]_vars
=============================================================================
