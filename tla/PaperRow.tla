------------------------------ MODULE PaperRow ------------------------------
(***************************************************************************)
(* One row of the paper_runs table and what the three writers of            *)
(* execution/paper.py make of it: control_paper_run, fault_paper_run and    *)
(* process_paper_bar.  Only the control part of the row is kept here: the   *)
(* money is the subject of PaperAccount.                                    *)
(*                                                                         *)
(* A candle is its number: bar b is the b-th bar, last is the number of     *)
(* the last bar processed (PaperState.last_bar), and a position is the      *)
(* number of the bar it was entered on, 0 for none.                         *)
(***************************************************************************)
EXTENDS Naturals

CONSTANT MaxBar     \* bound: bars numbered 1..MaxBar

ASSUME MaxBarAssumption == MaxBar \in Nat

Bars == 1..MaxBar

Processing == {"running", "paused", "stopping"}
Statuses == Processing \cup {"stopped", "faulted"}
Actions == {"resume", "pause", "stop", "recover"}

Row == [status : Statuses \cup {"absent"}, last : 0..MaxBar,
        pending : BOOLEAN, position : 0..MaxBar, fault : BOOLEAN]

\* A run that has not been created.
NoRow == [status |-> "absent", last |-> 0, pending |-> FALSE,
          position |-> 0, fault |-> FALSE]

\* What the unique active_slot counts: every row that is not stopped.
HoldsSlot(row) == row.status \notin {"absent", "stopped"}

-----------------------------------------------------------------------------
(* create_paper_run: the run starts paused, its checkpoint one bar before   *)
(* the requested start.                                                     *)
CreatedRow(start) == [NoRow EXCEPT !.status = "paused", !.last = start]

(* control_paper_run. *)
ControlAllowed(row, action) ==
    \/ action = "recover" /\ row.status = "faulted"
    \/ action = "resume" /\ row.status = "paused"
    \/ action = "pause" /\ row.status = "running"
    \/ action = "stop" /\ row.status \in Statuses \ {"stopped"}

ControlStatus(row, action) ==
    CASE action = "resume" -> "running"
      [] action = "stop" -> IF row.position # 0 THEN "stopping" ELSE "stopped"
      [] OTHER -> "paused"

\* Bug: the run is freed while its position is still open.
StopsAtOnce(row, action) ==
    [row EXCEPT !.status = IF action = "stop" THEN "stopped" ELSE ControlStatus(row, action),
                !.fault = action # "recover" /\ @, !.pending = FALSE]

\* Bug: the pending setup survives a pause or a stop.
KeepsPending(row, action) ==
    [row EXCEPT !.status = ControlStatus(row, action), !.fault = action # "recover" /\ @]

\* Bug: acknowledging a fault leaves the message behind.
KeepsFault(row, action) ==
    [row EXCEPT !.status = ControlStatus(row, action), !.pending = FALSE]

ControlledRow(row, action) ==
    [row EXCEPT !.status = ControlStatus(row, action),
                !.fault = action # "recover" /\ @,
                !.pending = FALSE]

(* fault_paper_run: nothing happens to a stopped or already faulted run. *)
FaultedRow(row) ==
    IF row.status \in Processing
    THEN [row EXCEPT !.status = "faulted", !.fault = TRUE, !.pending = FALSE]
    ELSE row

-----------------------------------------------------------------------------
(* process_paper_bar.  The market decides the outcome of a bar: whether the *)
(* setup (pending or new) enters, stays pending or is gone (invalidated,    *)
(* expired, rejected by the risk engine), and whether the position then     *)
(* leaves at its stop, target or time stop, or by liquidation.              *)
Outcomes == [enter : BOOLEAN, pend : BOOLEAN, exit : {"none", "exit", "liquidation"}]

\* Entries are looked for only by a running run without a position.
LooksForEntry(row) == row.status = "running" /\ row.position = 0

(* The outcomes a bar can have; a late bar opens no position. *)
Possible(row, o, late) ==
    /\ o.enter => LooksForEntry(row) /\ ~late
    /\ o.pend => LooksForEntry(row) /\ ~o.enter
    /\ o.exit # "none" => row.position # 0 \/ o.enter

Held(row, b, o) == IF o.enter THEN b ELSE row.position
PositionAfter(row, b, o) == IF o.exit = "none" THEN Held(row, b, o) ELSE 0

StatusAfter(row, b, o) ==
    IF o.exit = "liquidation" THEN "faulted"
    ELSE IF row.status = "stopping" /\ PositionAfter(row, b, o) = 0 THEN "stopped"
    ELSE row.status

\* Bug: the checkpoint is not advanced with the bar.
ForgetsCheckpoint(row, b, o) ==
    [row EXCEPT !.status = StatusAfter(row, b, o),
                !.pending = IF LooksForEntry(row) THEN o.pend ELSE @,
                !.position = PositionAfter(row, b, o),
                !.fault = o.exit = "liquidation"]

ProcessedRow(row, b, o) ==
    [status |-> StatusAfter(row, b, o),
     last |-> b,
     pending |-> IF LooksForEntry(row) THEN o.pend ELSE row.pending,
     position |-> PositionAfter(row, b, o),
     fault |-> o.exit = "liquidation"]

(* A bar the run already has is skipped; the next one is processed; any     *)
(* other is a gap and faults the run.                                       *)
AlreadyProcessed(row, b) == b <= row.last
IsNextBar(row, b) == b = row.last + 1
=============================================================================
