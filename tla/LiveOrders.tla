------------------------------ MODULE LiveOrders ------------------------------
(***************************************************************************)
(* The live order saga of execution/live.py: coordinators that prepare and  *)
(* submit entries, one database, and an exchange behind a gateway.          *)
(*                                                                         *)
(* An order is its client order identity.  Each has its own symbol, and a   *)
(* quantity only matters by being held or not.  The exchange is external:   *)
(* it is what the comments of ReconciledGateway and of the exceptions in    *)
(* live.py say it may do.  A request that is not answered in time may still *)
(* arrive, and an error no handler names ends the coordinator like a crash. *)
(***************************************************************************)
EXTENDS Naturals

CONSTANTS
    Orders,         \* client order identities
    Coordinators,
    NoOrder,
    MaxCrashes      \* bound: coordinators that end midway

ASSUME LiveAssumption == NoOrder \notin Orders /\ MaxCrashes \in Nat

VARIABLES
    row,        \* row[o]: the orders row
    exchange,   \* exchange[o]: what the exchange has of entry o
    work,       \* work[c]: the local state of a coordinator
    crashes     \* coordinators ended so far

vars == <<row, exchange, work, crashes>>

(* The status of a row, and whether it is at most 15 seconds old.           *)
Unresolved == {"prepared", "submitting", "uncertain", "unprotected"}
Verdicts == {"rejected", "uncertain", "emergency_closed", "protected"}
Statuses == {"absent"} \cup Unresolved \cup Verdicts
Row == [status : Statuses, fresh : BOOLEAN]
NoRow == [status |-> "absent", fresh |-> FALSE]
Intent == [status |-> "prepared", fresh |-> TRUE]

(* Entry requests sent, the requests still on their way, whether an entry   *)
(* has been accepted, the position, and whether stop and target wait for it. *)
Requests == {"enter", "protect", "flatten"}
Exchange == [sent : Nat, flight : SUBSET Requests, entered : BOOLEAN,
             position : {"flat", "open", "reversed"}, guarded : BOOLEAN]
Untouched == [sent |-> 0, flight |-> {}, entered |-> FALSE, position |-> "flat",
              guarded |-> FALSE]

(* A coordinator is idle, past the checks of prepare_entry or of            *)
(* submit_prepared_entry, before or in a call of the gateway, or about to   *)
(* write.                                                                   *)
Pcs == {"idle", "insert", "claim", "leverage", "enter", "entering", "filled", "protect",
        "protecting", "flatten", "flattening", "record"}
Work == [pc : Pcs, order : Orders \cup {NoOrder}, verdict : Verdicts \cup {"none"}]
Idle == [pc |-> "idle", order |-> NoOrder, verdict |-> "none"]

Init ==
    /\ row = [o \in Orders |-> NoRow]
    /\ exchange = [o \in Orders |-> Untouched]
    /\ work = [c \in Coordinators |-> Idle]
    /\ crashes = 0

-----------------------------------------------------------------------------
(* Moving on.                                                               *)

Goes(c, pc) == work' = [work EXCEPT ![c].pc = pc]
Stops(c) == work' = [work EXCEPT ![c] = Idle]
Concludes(c, verdict) == work' = [work EXCEPT ![c].pc = "record", ![c].verdict = verdict]
SetStatus(o, status) == row' = [row EXCEPT ![o].status = status]

-----------------------------------------------------------------------------
(* The exchange and the clock.                                              *)

\* Bug: exits are not reduce-only.
OpensOpposite(position) == IF position = "open" THEN "flat" ELSE "reversed"

\* A reduce-only order closes a position and never opens one.
Reduced(position) == IF position = "open" THEN "flat" ELSE position

\* What a request does when it gets there.
Effect(x, request) ==
    CASE request = "enter" -> [x EXCEPT !.entered = TRUE, !.position = "open"]
      [] request = "protect" -> [x EXCEPT !.guarded = TRUE]
      [] request = "flatten" -> [x EXCEPT !.position = Reduced(@)]

\* A request on its way arrives, or comes to nothing.
Arrive(o, request) ==
    /\ request \in exchange[o].flight
    /\ LET rest == [exchange[o] EXCEPT !.flight = @ \ {request}]
       IN  \E x \in {rest, Effect(rest, request)} :
              exchange' = [exchange EXCEPT ![o] = x]
    /\ UNCHANGED <<row, work, crashes>>

\* The stop or the target of an order is reached.
Fire(o) ==
    /\ exchange[o].guarded
    /\ exchange' = [exchange EXCEPT ![o].guarded = FALSE, ![o].position = Reduced(@)]
    /\ UNCHANGED <<row, work, crashes>>

FifteenSecondsPass(o) ==
    /\ row[o].fresh
    /\ row' = [row EXCEPT ![o].fresh = FALSE]
    /\ UNCHANGED <<exchange, work, crashes>>

-----------------------------------------------------------------------------
(* prepare_entry, with a valid authorization: the identity is new and no    *)
(* order is unresolved ...                                                  *)
PrepareCheck(c, o) ==
    /\ work[c].pc = "idle"
    /\ row[o].status = "absent"
    /\ \A q \in Orders : row[q].status \notin Unresolved
    /\ work' = [work EXCEPT ![c].pc = "insert", ![c].order = o]
    /\ UNCHANGED <<row, exchange, crashes>>

(* ... and the insert, unless risk is refused, or the unique identity has   *)
(* been taken since.                                                        *)
PrepareInsert(c) ==
    LET o == work[c].order
    IN  /\ work[c].pc = "insert"
        /\ \/ row[o].status = "absent" /\ row' = [row EXCEPT ![o] = Intent]
           \/ UNCHANGED row
        /\ Stops(c)
        /\ UNCHANGED <<exchange, crashes>>

-----------------------------------------------------------------------------
(* submit_prepared_entry, with a valid authorization: the row is read ...   *)
SubmitRead(c, o) ==
    /\ work[c].pc = "idle"
    /\ row[o].status = "prepared" /\ row[o].fresh
    /\ work' = [work EXCEPT ![c].pc = "claim", ![c].order = o]
    /\ UNCHANGED <<row, exchange, crashes>>

\* Bug: the row read is claimed without looking at it again.
AnyStatus(o) == TRUE

\* The UPDATE ... WHERE status = 'prepared' finds the row.
StillPrepared(o) == row[o].status = "prepared"

\* ... and claimed, or another coordinator was faster.
SubmitClaim(c) ==
    LET o == work[c].order
    IN  /\ work[c].pc = "claim"
        /\ IF StillPrepared(o) THEN SetStatus(o, "submitting") /\ Goes(c, "leverage")
           ELSE UNCHANGED row /\ Stops(c)
        /\ UNCHANGED <<exchange, crashes>>

\* The gateway confirms the leverage, rejects it, or neither.
SetLeverage(c) ==
    /\ work[c].pc = "leverage"
    /\ \/ Goes(c, "enter")
       \/ Concludes(c, "rejected")
       \/ Concludes(c, "uncertain")
    /\ UNCHANGED <<row, exchange, crashes>>

Send(c, request, pc) ==
    /\ exchange' = [exchange EXCEPT ![work[c].order].flight = @ \cup {request},
                                   ![work[c].order].sent = @ + (IF request = "enter" THEN 1 ELSE 0)]
    /\ Goes(c, pc)
    /\ UNCHANGED <<row, crashes>>

Enter(c) == work[c].pc = "enter" /\ Send(c, "enter", "entering")

\* Bug: a failed connection counts as a rejection.
SilenceIsRejection(c) == Concludes(c, "rejected")

\* Bug: a failed connection is left to the caller.
SilenceIsIgnored(c) == Stops(c)

\* A timeout, a failed connection, an ambiguous or an invalid answer.
EntryUnclear(c) == Concludes(c, "uncertain")

\* A fill, a definite rejection, or neither, which may come before the fill.
EnterAnswer(c) ==
    LET x == exchange[work[c].order]
    IN  /\ work[c].pc = "entering"
        /\ \/ x.entered /\ Goes(c, "filled")
           \/ "enter" \notin x.flight /\ ~x.entered /\ Concludes(c, "rejected")
           \/ EntryUnclear(c)
        /\ UNCHANGED <<row, exchange, crashes>>

\* What a filled entry is until its protections are confirmed.
StatusOfFill == "unprotected"

RecordFill(c) ==
    /\ work[c].pc = "filled"
    /\ SetStatus(work[c].order, StatusOfFill)
    /\ Goes(c, "protect")
    /\ UNCHANGED <<exchange, crashes>>

Protect(c) == work[c].pc = "protect" /\ Send(c, "protect", "protecting")

\* Both protections are confirmed; or they are not, though they may exist.
ProtectAnswer(c) ==
    /\ work[c].pc = "protecting"
    /\ \/ exchange[work[c].order].guarded /\ Concludes(c, "protected")
       \/ Goes(c, "flatten")
    /\ UNCHANGED <<row, exchange, crashes>>

Flatten(c) == work[c].pc = "flatten" /\ Send(c, "flatten", "flattening")

\* The position is confirmed to be flat; or it is not, though it may be.
FlattenAnswer(c) ==
    /\ work[c].pc = "flattening"
    /\ \/ exchange[work[c].order].position = "flat" /\ Concludes(c, "emergency_closed")
       \/ Concludes(c, "uncertain")
    /\ UNCHANGED <<row, exchange, crashes>>

\* _status.
Record(c) ==
    /\ work[c].pc = "record"
    /\ SetStatus(work[c].order, work[c].verdict)
    /\ Stops(c)
    /\ UNCHANGED <<exchange, crashes>>

(* The coordinator ends: what it had committed, sent or placed remains.     *)
Crash(c) ==
    /\ work[c].pc # "idle"
    /\ crashes < MaxCrashes
    /\ crashes' = crashes + 1
    /\ Stops(c)
    /\ UNCHANGED <<row, exchange>>

-----------------------------------------------------------------------------
Step(c) ==
    \/ PrepareInsert(c)
    \/ SubmitClaim(c)
    \/ SetLeverage(c)
    \/ Enter(c)
    \/ EnterAnswer(c)
    \/ RecordFill(c)
    \/ Protect(c)
    \/ ProtectAnswer(c)
    \/ Flatten(c)
    \/ FlattenAnswer(c)
    \/ Record(c)

Next ==
    \/ \E o \in Orders, request \in Requests : Arrive(o, request)
    \/ \E o \in Orders : Fire(o) \/ FifteenSecondsPass(o)
    \/ \E c \in Coordinators, o \in Orders : PrepareCheck(c, o) \/ SubmitRead(c, o)
    \/ \E c \in Coordinators : Step(c) \/ Crash(c)

Spec == Init /\ [][Next]_vars

(* Once called, a coordinator goes on: every call of the gateway returns or *)
(* raises.  Nobody has to call it.                                          *)
FairSpec == Spec /\ \A c \in Coordinators : WF_vars(Step(c))

-----------------------------------------------------------------------------
(* Rows, requests and coordinators hold what they can hold, whoever races   *)
(* whom.                                                                    *)
TypeOK ==
    /\ row \in [Orders -> Row]
    /\ exchange \in [Orders -> Exchange]
    /\ work \in [Coordinators -> Work]
    /\ crashes \in 0..MaxCrashes

(* No identity is entered twice, by however many coordinators and after     *)
(* whatever crash: an intent is claimed before it is sent.                  *)
EnteredOnce == \A o \in Orders : exchange[o].sent <= 1

(* A position without protections, or an entry that may yet become one, is  *)
(* known to the database as unresolved, so it blocks new entries: also      *)
(* between two commits, and when its coordinator is gone.                   *)
NothingForgotten ==
    \A o \in Orders :
        "enter" \in exchange[o].flight \/ (exchange[o].position # "flat" /\ ~exchange[o].guarded)
            => row[o].status \in Unresolved

(* An emergency exit that races the stop or the target of the same position *)
(* does not open the opposite one.                                          *)
NeverReversed == \A o \in Orders : exchange[o].position # "reversed"

(* The view of LiveLifecycle: a position counts by being guarded or not.    *)
ExposureIn(x) == IF x.position = "flat" THEN "none" ELSE IF x.guarded THEN "guarded" ELSE "bare"
Status == [o \in Orders |-> row[o].status]
Exposure == [o \in Orders |-> ExposureIn(exchange[o])]
Entered == [o \in Orders |-> exchange[o].entered]

LC == INSTANCE LiveLifecycle WITH status <- Status, exposure <- Exposure, entered <- Entered

(* What the status of an order says of the exchange is true, and once       *)
(* settled it stays so.                                                     *)
Lifecycle == LC!Spec

(* A claimed order gets its verdict, unless a coordinator ends midway.      *)
Resolves ==
    \A o \in Orders :
        row[o].status \in {"submitting", "unprotected"}
            ~> (row[o].status \in Verdicts \/ crashes # 0)

(* live.py:128: "unresolved live order blocks new entries".                 *)
OneUnresolved ==
    \A o, q \in Orders :
        row[o].status \in Unresolved /\ row[q].status \in Unresolved => o = q
=============================================================================
