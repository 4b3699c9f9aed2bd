---------------------------- MODULE LiveLifecycle ----------------------------
(***************************************************************************)
(* What the status of a live order promises about the exchange, with no     *)
(* coordinator and no message in sight: an order enters at most once and    *)
(* only when the database already says so, and a settled status is true:    *)
(* rejected never entered, protected holds nothing without protections,     *)
(* emergency_closed holds nothing.  LiveOrders is shown to implement this.  *)
(***************************************************************************)

CONSTANT Orders     \* client order identities

VARIABLES
    status,     \* status[o]: the status of the orders row
    exposure,   \* exposure[o]: the position entry o has on the exchange
    entered     \* entered[o]: whether the entry has ever been accepted

vars == <<status, exposure, entered>>

Init ==
    /\ status = [o \in Orders |-> "absent"]
    /\ exposure = [o \in Orders |-> "none"]
    /\ entered = [o \in Orders |-> FALSE]

Becomes(o, from, to) == status[o] = from /\ status' = [status EXCEPT ![o] = to]

(* The exchange acts on an order.                                           *)
Enter(o) ==
    /\ status[o] \in {"submitting", "uncertain"}
    /\ ~entered[o]
    /\ exposure' = [exposure EXCEPT ![o] = "bare"]
    /\ entered' = [entered EXCEPT ![o] = TRUE]
    /\ UNCHANGED status

Protect(o) ==
    /\ status[o] \in {"unprotected", "uncertain"}
    /\ exposure[o] = "bare"
    /\ exposure' = [exposure EXCEPT ![o] = "guarded"]
    /\ UNCHANGED <<status, entered>>

Leave(o) ==
    /\ exposure[o] = "guarded" \/ status[o] \in {"unprotected", "uncertain"}
    /\ exposure' = [exposure EXCEPT ![o] = "none"]
    /\ UNCHANGED <<status, entered>>

(* The database follows.                                                    *)
Record(o) ==
    /\ \/ Becomes(o, "absent", "prepared")
       \/ Becomes(o, "prepared", "submitting")
       \/ Becomes(o, "submitting", "rejected") /\ ~entered[o]
       \/ Becomes(o, "submitting", "uncertain")
       \/ Becomes(o, "submitting", "unprotected") /\ exposure[o] = "bare"
       \/ Becomes(o, "unprotected", "uncertain")
       \/ Becomes(o, "unprotected", "emergency_closed") /\ exposure[o] = "none"
       \/ Becomes(o, "unprotected", "protected") /\ exposure[o] # "bare"
    /\ UNCHANGED <<exposure, entered>>

Next == \E o \in Orders : Enter(o) \/ Protect(o) \/ Leave(o) \/ Record(o)

Spec == Init /\ [][Next]_vars
=============================================================================
