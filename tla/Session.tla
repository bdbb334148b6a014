------------------------------ MODULE Session ------------------------------
(***************************************************************************)
(* What a login promises the rest of the program: it is begun at most once *)
(* in the life of a process, its outcome is final, and an opened session   *)
(* stays open until the process is started again, whatever fails later.    *)
(* SpotifyAuthPKCE and the event loop each implement it.                   *)
(***************************************************************************)

VARIABLE session

Init == session = "closed"

Begin == session = "closed" /\ session' = "opening"

(* Stored tokens may open it without a further suspension. *)
Grant == session \in {"closed", "opening"} /\ session' = "open"

Deny == session \in {"closed", "opening"} /\ session' = "failed"

Restart == session # "closed" /\ session' = "closed"

Next == Begin \/ Grant \/ Deny \/ Restart

Spec == Init /\ [][Next]_session
=============================================================================
