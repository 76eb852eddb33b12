------------------------------ MODULE Limiter ------------------------------
(***************************************************************************)
(* What a limiter promises whatever its clock does, and all that Gateway   *)
(* relies on: an attempt joins the window in one step, attempts recorded   *)
(* before may have left it by then, and the attempt is admitted exactly    *)
(* when the window, itself included, is within the limit.                  *)
(***************************************************************************)
EXTENDS Naturals, FiniteSets

CONSTANTS Attempts, max_requests

VARIABLES window, verdict

vars == <<window, verdict>>

Init ==
    /\ window = {}
    /\ verdict = [a \in Attempts |-> "none"]

Recorded(a) == {kept \cup {a} : kept \in SUBSET window}

Decide(a) ==
    /\ verdict[a] = "none"
    /\ window' \in Recorded(a)
    /\ \/ /\ Cardinality(window') <= max_requests
          /\ verdict' = [verdict EXCEPT ![a] = "admitted"]
       \/ /\ Cardinality(window') > max_requests
          /\ verdict' = [verdict EXCEPT ![a] = "refused"]

(* The round trip fails, with the attempt recorded or not. *)
Fail(a) ==
    /\ verdict[a] = "none"
    /\ window' \in {window} \cup Recorded(a)
    /\ verdict' = [verdict EXCEPT ![a] = "failed"]

Forget ==
    /\ window' \in SUBSET window
    /\ UNCHANGED verdict

Next == (\E a \in Attempts : Decide(a) \/ Fail(a)) \/ Forget

Spec == Init /\ [][Next]_vars
=============================================================================
