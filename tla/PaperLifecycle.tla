--------------------------- MODULE PaperLifecycle ---------------------------
(***************************************************************************)
(* What paper trading promises, with no worker, no transaction and no       *)
(* crash in sight: at most one run is active, every change of a run is one  *)
(* of the legal ones applied to its current row, and the events and the     *)
(* position ledger move in the same instant as the row.  PaperWorker is     *)
(* shown to implement this.                                                 *)
(***************************************************************************)
EXTENDS PaperRow

CONSTANT Runs       \* the ids paper_runs rows can have

VARIABLES
    run,        \* run[r]: the row of paper_runs
    events,     \* events[r]: the bars with a paper_events row
    ledger      \* ledger[r][b]: the positions row entered on bar b of run r

vars == <<run, events, ledger>>

NoPositions == [b \in Bars |-> "none"]

Init ==
    /\ run = [r \in Runs |-> NoRow]
    /\ events = [r \in Runs |-> {}]
    /\ ledger = [r \in Runs |-> NoPositions]

\* Bug: _record_exit leaves the position open.
LeavesOpen(rows, row, b, o) ==
    [c \in Bars |-> IF c # Held(row, b, o) THEN rows[c] ELSE "open"]

(* The ledger rows of one run after an entry on bar b and/or an exit:       *)
(* _record_entry and _record_exit.                                          *)
LedgerAfter(rows, row, b, o) ==
    [c \in Bars |-> IF c # Held(row, b, o) THEN rows[c]
                    ELSE IF o.exit = "none" THEN "open" ELSE "closed"]

Create(r, start) ==
    /\ run[r].status = "absent"
    /\ \A q \in Runs : ~HoldsSlot(run[q])
    /\ run' = [run EXCEPT ![r] = CreatedRow(start)]
    /\ UNCHANGED <<events, ledger>>

Control(r, action) ==
    /\ ControlAllowed(run[r], action)
    /\ run' = [run EXCEPT ![r] = ControlledRow(run[r], action)]
    /\ UNCHANGED <<events, ledger>>

Fault(r) ==
    /\ run[r].status \in Processing
    /\ run' = [run EXCEPT ![r] = FaultedRow(run[r])]
    /\ UNCHANGED <<events, ledger>>

Process(r, b, o) ==
    /\ run[r].status \in Processing
    /\ IsNextBar(run[r], b)
    /\ Possible(run[r], o, FALSE)
    /\ run' = [run EXCEPT ![r] = ProcessedRow(run[r], b, o)]
    /\ events' = [events EXCEPT ![r] = @ \cup {b}]
    /\ ledger' = [ledger EXCEPT ![r] = LedgerAfter(ledger[r], run[r], b, o)]

Next ==
    \E r \in Runs :
        \/ \E start \in 0..MaxBar : Create(r, start)
        \/ \E action \in Actions : Control(r, action)
        \/ Fault(r)
        \/ \E b \in Bars, o \in Outcomes : Process(r, b, o)

Spec == Init /\ [][Next]_vars
=============================================================================
