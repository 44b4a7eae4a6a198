-------------------------- MODULE DeliveryContract --------------------------
(***************************************************************************)
(* What the send pipeline promises about a delivery, whatever its workers, *)
(* copies of rows, requests and faults do: the row's status, what the      *)
(* provider has accepted (a 2xx answer, with or without an id), and        *)
(* whether a task is open.  The README and the entity's methods are what   *)
(* it abstracts; module SendDocument implements it.                        *)
(***************************************************************************)
EXTENDS Naturals

CONSTANT Deliveries

VARIABLES
    status,      \* of the committed row, or "absent"
    accepted,    \* how often the provider has accepted the document
    open         \* deliveries a task of which is queued or running

vars == <<status, accepted, open>>

Init ==
    /\ status = [d \in Deliveries |-> "absent"]
    /\ accepted = [d \in Deliveries |-> 0]
    /\ open = {}

\* A task is queued, before or after the row is there.
Submit(d) ==
    /\ open' = open \cup {d}
    /\ UNCHANGED <<status, accepted>>

\* The row is inserted once, PENDING.
Insert(d) ==
    /\ status[d] = "absent"
    /\ status' = [status EXCEPT ![d] = "PENDING"]
    /\ UNCHANGED <<accepted, open>>

\* Only a task sends, and only what is in the database.
Accept(d) ==
    /\ d \in open
    /\ status[d] # "absent"
    /\ accepted' = [accepted EXCEPT ![d] = @ + 1]
    /\ UNCHANGED <<status, open>>

\* Only a task moves the row on, to SENT only what has been accepted.
Record(d) ==
    /\ d \in open
    /\ status[d] # "absent"
    /\ \E s \in {"PENDING", "SENDING", "SENT", "FAILED"} :
           /\ s = "SENT" => accepted[d] > 0
           /\ status' = [status EXCEPT ![d] = s]
    /\ UNCHANGED <<accepted, open>>

\* A client has the row reset, for a task that has been queued before.
Reset(d) ==
    /\ status[d] # "absent"
    /\ status' = [status EXCEPT ![d] = "PENDING"]
    /\ UNCHANGED <<accepted, open>>

\* The last task is over.
End(d) ==
    /\ d \in open
    /\ open' = open \ {d}
    /\ UNCHANGED <<status, accepted>>

Next ==
    \E d \in Deliveries :
        \/ Submit(d) \/ Insert(d) \/ Accept(d)
        \/ Record(d) \/ Reset(d) \/ End(d)

Spec == Init /\ [][Next]_vars

=============================================================================
