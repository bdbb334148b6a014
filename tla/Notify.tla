------------------------------- MODULE Notify -------------------------------
(***************************************************************************)
(* What the MPRIS notifier promises D-Bus clients: after an announced      *)
(* change of the playback state it publishes a state at least as new,      *)
(* coalescing announcements, unless publishing fails for good.             *)
(***************************************************************************)
EXTENDS Naturals

VARIABLES
    state,      \* version of the playback state
    announced,  \* newest version announced
    published,  \* version D-Bus clients were last sent
    due,        \* a publication is due
    alive       \* the notifier still publishes

vars == <<state, announced, published, due, alive>>

TypeOK == /\ state \in Nat /\ announced \in Nat /\ published \in Nat
          /\ due \in BOOLEAN /\ alive \in BOOLEAN

Init == /\ state = 0 /\ announced = 0 /\ published = 0
        /\ due = FALSE /\ alive \in BOOLEAN

(* A change, or none, that is announced: a publication becomes due. *)
Announce == /\ state' \in {state, state + 1}
            /\ announced' = state'
            /\ due' = alive
            /\ UNCHANGED <<published, alive>>

(* A change nobody announces. *)
ChangeSilently == /\ state' = state + 1
                  /\ UNCHANGED <<announced, published, due, alive>>

Publish == /\ due
           /\ published' = state /\ due' = FALSE
           /\ UNCHANGED <<state, announced, alive>>

Fail == /\ due
        /\ alive' = FALSE /\ due' = FALSE
        /\ UNCHANGED <<state, announced, published>>

Next == Announce \/ ChangeSilently \/ Publish \/ Fail

Spec == Init /\ [][Next]_vars
FairSpec == Spec /\ WF_vars(Publish \/ Fail)

(* Nothing announced is unpublished once no publication is due. *)
NothingOwed == alive /\ ~due => published >= announced

(* An announced state, or a newer one, reaches the clients. *)
AnnouncementsArrive == announced > published ~> (published >= announced \/ ~alive)
=============================================================================
