-------------------------- MODULE GovernedService --------------------------
(***************************************************************************)
(* What the gateway promises about its books, whatever happens inside.     *)
(* A call is opened, and then refused, lost, or served.  Serving a call    *)
(* and recording it are one step: no call is served unrecorded, none is    *)
(* recorded twice, and calls that are refused or lost leave no record.     *)
(* What a served call returns was produced for it, and may then be kept in *)
(* stock for others, or was produced for a call served earlier and kept:   *)
(* log entries and stock name the call the content was produced for.       *)
(* Nothing is ever removed from the log or the stock.                      *)
(***************************************************************************)
CONSTANT Requests

VARIABLES status, log, stock

vars == <<status, log, stock>>

Open == {r \in Requests : status[r] = "open"}

Init ==
    /\ status = [r \in Requests |-> "new"]
    /\ log = {}
    /\ stock = {}

Begin(r) ==
    /\ status[r] = "new"
    /\ status' = [status EXCEPT ![r] = "open"]
    /\ UNCHANGED <<log, stock>>

Refuse(r) ==
    /\ status[r] \in {"new", "open"}
    /\ status' = [status EXCEPT ![r] = "refused"]
    /\ UNCHANGED <<log, stock>>

Lose(calls) ==
    /\ calls # {}
    /\ status' = [r \in Requests |-> IF r \in calls THEN "lost" ELSE status[r]]
    /\ UNCHANGED <<log, stock>>

Record(r, source) ==
    /\ status[r] = "open"
    /\ \A entry \in log : entry.id # r
    /\ status' = [status EXCEPT ![r] = "served"]
    /\ log' = log \cup {[id |-> r, source |-> source, reused |-> source # r]}

Serve(r) ==
    /\ Record(r, r)
    /\ stock' \in {stock, stock \cup {r}}

Reuse(r, source) ==
    /\ source \in stock
    /\ status[source] = "served"
    /\ Record(r, source)
    /\ UNCHANGED stock

Next ==
    \/ \E r \in Requests : Begin(r) \/ Refuse(r) \/ Serve(r)
    \/ \E calls \in SUBSET Open : Lose(calls)
    \/ \E r \in Requests, source \in stock : Reuse(r, source)

Spec == Init /\ [][Next]_vars
=============================================================================
