----------------------------- MODULE PaperWorker -----------------------------
(***************************************************************************)
(* Paper trading as it runs: worker processes (execution/worker.py) that    *)
(* poll public market data and process closed bars, operators who create    *)
(* and control runs through the web API, and one SQLite database.           *)
(*                                                                         *)
(* Each database transaction reads a row in one step and saves it in a      *)
(* later one.  _save updates the row WHERE version = the version read and   *)
(* raises ConfigurationConflict when no row matches.  Every save increments *)
(* the version, so a snapshot still matches exactly when no save of that    *)
(* row came after it: a snapshot carries that as its flag "current" and     *)
(* the version number itself is left out.                                   *)
(*                                                                         *)
(* The clock is the number of closed bars and whether more than 90 seconds  *)
(* have passed since the last of them closed.                               *)
(***************************************************************************)
EXTENDS PaperRow, FiniteSets

CONSTANTS
    Runs,           \* ids of paper_runs rows
    Workers,        \* worker processes
    Operators,      \* owners acting through the web API
    NoRun,
    Starts,         \* bound: the starting checkpoints of created runs
    MaxRecovery,    \* MAX_RECOVERY_BARS
    MaxCrashes      \* bound: worker crashes

ASSUME WorkerAssumption ==
    /\ NoRun \notin Runs
    /\ Starts \subseteq 0..MaxBar
    /\ MaxRecovery \in Nat
    /\ MaxCrashes \in Nat

VARIABLES
    run, events, ledger,    \* the database, as in PaperLifecycle
    first,                  \* first[r]: the checkpoint run r was created with
    clock,                  \* exchange time
    work,                   \* work[w]: the local state of a worker
    desk,                   \* desk[o]: the request an operator has in flight
    crashes                 \* crashes so far

database == <<run, events, ledger, first>>
vars == <<database, clock, work, desk, crashes>>

Time == [closed : 0..MaxBar, late : BOOLEAN]
Late(now, b) == b < now.closed \/ now.late

(* A worker's program counter:                                              *)
(*   idle     between polls                                                 *)
(*   clock    polled run read, waiting for the exchange                     *)
(*   bars     between two bars of the fetched candles                       *)
(*   save     a bar is computed from the row read, not yet committed        *)
(*   outage   a fault for an outage is computed, not yet committed          *)
(*   handler  the same in the error handler of serve                        *)
(*   ended    the process ended on an error serve does not catch            *)
Pcs == {"idle", "clock", "bars", "save", "outage", "handler", "ended"}

Worker == [pc : Pcs, run : Runs \cup {NoRun}, cursor : 0..MaxBar + 1,
           upto : 0..MaxBar, now : Time, row : Row, current : BOOLEAN]

StartOfTime == [closed |-> 0, late |-> FALSE]

IdleWorker ==
    [pc |-> "idle", run |-> NoRun, cursor |-> 0, upto |-> 0, now |-> StartOfTime,
     row |-> NoRow, current |-> FALSE]

(* An operator: nothing in flight, a create request past its check, or a    *)
(* control request on the row the dashboard showed.                         *)
Desk == [mode : {"idle", "create", "control"}, run : Runs \cup {NoRun},
         row : Row, current : BOOLEAN]
IdleDesk == [mode |-> "idle", run |-> NoRun, row |-> NoRow, current |-> FALSE]

LC == INSTANCE PaperLifecycle

Init ==
    /\ run = [r \in Runs |-> NoRow]
    /\ events = [r \in Runs |-> {}]
    /\ ledger = [r \in Runs |-> LC!NoPositions]
    /\ first = [r \in Runs |-> 0]
    /\ clock = StartOfTime
    /\ work = [w \in Workers |-> IdleWorker]
    /\ desk = [o \in Operators |-> IdleDesk]
    /\ crashes = 0

-----------------------------------------------------------------------------
(* Writing a row makes every other snapshot of it out of date.              *)

StaleWork(r) ==
    [w \in Workers |-> IF work[w].run = r THEN [work[w] EXCEPT !.current = FALSE]
                       ELSE work[w]]
StaleDesk(r) ==
    [o \in Operators |-> IF desk[o].run = r THEN [desk[o] EXCEPT !.current = FALSE]
                         ELSE desk[o]]

\* Worker w writes run r and goes on as `next`.
WorkerSaves(w, r, row, next) ==
    /\ run' = [run EXCEPT ![r] = row]
    /\ work' = [StaleWork(r) EXCEPT ![w] = next]
    /\ desk' = StaleDesk(r)

\* Operator o writes run r and is done.
OperatorSaves(o, r, row) ==
    /\ run' = [run EXCEPT ![r] = row]
    /\ work' = StaleWork(r)
    /\ desk' = [StaleDesk(r) EXCEPT ![o] = IdleDesk]

\* Worker w changes nothing but its own state.
Becomes(w, next) ==
    /\ work' = [work EXCEPT ![w] = next]
    /\ UNCHANGED <<database, clock, desk, crashes>>

\* Bug: the save does not compare versions.
AnyVersion(snapshot) == TRUE

\* The UPDATE ... WHERE version = ... of _save finds the row.
VersionMatches(snapshot) == snapshot.current

-----------------------------------------------------------------------------
(* The passage of time, which nothing schedules.                            *)

CloseBar ==
    /\ clock.closed < MaxBar
    /\ clock' = [closed |-> clock.closed + 1, late |-> FALSE]
    /\ UNCHANGED <<database, work, desk, crashes>>

NinetySecondsPass ==
    /\ clock.closed > 0 /\ ~clock.late
    /\ clock' = [clock EXCEPT !.late = TRUE]
    /\ UNCHANGED <<database, work, desk, crashes>>

-----------------------------------------------------------------------------
(* The worker: serve and poll_once.                                         *)

\* Bug: paused and stopping runs are not polled.
PollRunning(w, r) ==
    /\ work[w].pc = "idle"
    /\ run[r].status = "running"
    /\ Becomes(w, [work[w] EXCEPT !.pc = "clock", !.run = r, !.cursor = run[r].last + 1])

PollRow(w, r) ==
    /\ work[w].pc = "idle"
    /\ run[r].status \in Processing
    /\ Becomes(w, [work[w] EXCEPT !.pc = "clock", !.run = r, !.cursor = run[r].last + 1])

(* The time is sampled and the candles arrive, the exchange perhaps still   *)
(* lacking the last ones; or there is nothing to do; or more to do than     *)
(* MAX_RECOVERY_BARS, and a session reads the run to fault it.              *)
PollMarket(w) ==
    LET next == work[w].cursor
        row == run[work[w].run]
    IN  /\ work[w].pc = "clock"
        /\ IF next > clock.closed
           THEN Becomes(w, IdleWorker)
           ELSE IF clock.closed + 1 - next > MaxRecovery
           THEN Becomes(w, IF row.status \in Processing
                           THEN [work[w] EXCEPT !.pc = "outage", !.row = row, !.current = TRUE]
                           ELSE IdleWorker)
           ELSE \E upto \in (next - 1)..clock.closed :
                  Becomes(w, [work[w] EXCEPT !.pc = "bars", !.upto = upto, !.now = clock])

\* One iteration of the loop over the candles: a session of its own reads the row.
BarRead(w) ==
    LET row == run[work[w].run]
    IN  /\ work[w].pc = "bars"
        /\ Becomes(w,
             IF work[w].cursor > work[w].upto \/ row.status \notin Processing
             THEN IdleWorker
             ELSE IF AlreadyProcessed(row, work[w].cursor)
                  THEN [work[w] EXCEPT !.cursor = @ + 1]
                  ELSE [work[w] EXCEPT !.pc = "save", !.row = row, !.current = TRUE])

(* _record_entry and _record_exit write before _save compares the version,  *)
(* so a stale bar can meet what another worker has committed: an open       *)
(* position of the same symbol and side, or the order of the same exit.     *)
(* (Every run of this model trades one symbol and side.)                    *)
RecordsRefused(w, o) ==
    LET row == work[w].row
    IN  IF o.enter
        THEN \E q \in Runs, c \in Bars : ledger[q][c] = "open"
        ELSE o.exit # "none" /\ ledger[work[w].run][row.position] = "closed"

(* _record_entry takes up the signal its SELECT finds; its INSERT collides  *)
(* with the one that was committed in between.  Which signal an entry has   *)
(* is left to the candles: any that came after the row was read may be it,  *)
(* on this run or, once this run has stopped, on another.  (The model does  *)
(* not know which of two other runs is the older and admits both.)          *)
SignalRaced(w, o) ==
    LET r == work[w].run
    IN  /\ o.enter
        /\ \/ \E c \in Bars : c > work[w].row.last /\ ledger[r][c] # "none"
           \/ /\ run[r].status = "stopped"
              /\ \E q \in Runs \ {r}, c \in Bars : ledger[q][c] # "none"

\* The unique constraint of paper_events, met after the version was compared.
EventIsNew(w) == work[w].cursor \notin events[work[w].run]

\* The transaction is rolled back, and serve goes on to the next poll.
Conflicts(w) ==
    /\ work' = [work EXCEPT ![w] = IdleWorker]
    /\ UNCHANGED <<run, events, ledger, desk>>

(* The transaction is rolled back and the process ends.  Of its locals only *)
(* "current" is kept: whether its save would have been accepted.            *)
Ends(w) ==
    /\ work' = [work EXCEPT ![w] = [IdleWorker EXCEPT !.pc = "ended", !.current = work[w].current]]
    /\ UNCHANGED <<run, events, ledger, desk>>

(* process_paper_bar on the row read, and the commit: row, event and ledger *)
(* in one transaction.  A gap faults the run.  The records of the trades    *)
(* come first, the version next, the event last: a conflict abandons the    *)
(* poll, an IntegrityError ends the process.  (A closed position that       *)
(* _record_exit already finds closed is a ValueError: PollFails.)           *)
BarSave(w) ==
    LET r == work[w].run  b == work[w].cursor  row == work[w].row
        more == [work[w] EXCEPT !.pc = "bars", !.cursor = b + 1, !.row = NoRow,
                                !.current = FALSE]
    IN  /\ work[w].pc = "save"
        /\ UNCHANGED <<first, clock, crashes>>
        /\ \/ /\ ~IsNextBar(row, b)
              /\ IF VersionMatches(work[w])
                 THEN /\ WorkerSaves(w, r, FaultedRow(row), more)
                      /\ UNCHANGED <<events, ledger>>
                 ELSE Conflicts(w)
           \/ /\ IsNextBar(row, b)
              /\ \E o \in Outcomes :
                   /\ Possible(row, o, Late(work[w].now, b))
                   /\ \/ /\ \/ RecordsRefused(w, o)
                            \/ SignalRaced(w, o)
                            \/ VersionMatches(work[w]) /\ ~EventIsNew(w)
                         /\ Ends(w)
                      \/ /\ ~RecordsRefused(w, o) /\ ~VersionMatches(work[w])
                         /\ Conflicts(w)
                      \/ /\ ~RecordsRefused(w, o) /\ VersionMatches(work[w]) /\ EventIsNew(w)
                         /\ WorkerSaves(w, r, ProcessedRow(row, b, o), more)
                         /\ events' = [events EXCEPT ![r] = @ \cup {b}]
                         /\ ledger' = [ledger EXCEPT ![r] = LC!LedgerAfter(@, row, b, o)]

(* A network error, an unusable payload or a ValueError of the bar's checks *)
(* rolls back; the handler of serve then picks an active run anew.          *)
PollFails(w) ==
    /\ work[w].pc \in {"clock", "bars", "save"}
    /\ \/ \E r \in Runs :
            /\ run[r].status \in Processing
            /\ Becomes(w, [IdleWorker EXCEPT !.pc = "handler", !.run = r, !.row = run[r],
                                             !.current = TRUE])
       \/ /\ \A r \in Runs : run[r].status \notin Processing
          /\ Becomes(w, IdleWorker)

(* fault_paper_run commits, or conflicts with another save, which serve     *)
(* logs, unless it is in serve's handler, where it ends the process.        *)
FaultSave(w) ==
    /\ work[w].pc \in {"outage", "handler"}
    /\ UNCHANGED <<first, clock, crashes>>
    /\ IF VersionMatches(work[w])
       THEN /\ WorkerSaves(w, work[w].run, FaultedRow(work[w].row), IdleWorker)
            /\ UNCHANGED <<events, ledger>>
       ELSE IF work[w].pc = "handler" THEN Ends(w) ELSE Conflicts(w)

(* The service manager starts a process that has ended again.               *)
Restart(w) ==
    /\ work[w].pc = "ended"
    /\ Becomes(w, IdleWorker)

(* The machine fails anywhere and comes back: the transaction is rolled     *)
(* back and the local state is gone.                                        *)
Crash(w) ==
    /\ work[w].pc \notin {"idle", "ended"}
    /\ crashes < MaxCrashes
    /\ crashes' = crashes + 1
    /\ work' = [work EXCEPT ![w] = IdleWorker]
    /\ UNCHANGED <<database, clock, desk>>

-----------------------------------------------------------------------------
(* The web API.                                                             *)

\* create_paper_run: the check for an active run ...
CreateCheck(o) ==
    /\ desk[o].mode = "idle"
    /\ \A r \in Runs : ~HoldsSlot(run[r])
    /\ \E r \in Runs : run[r].status = "absent"
    /\ desk' = [desk EXCEPT ![o].mode = "create"]
    /\ UNCHANGED <<database, clock, work, crashes>>

\* Bug: no unique active_slot behind the check.
NoUniqueSlot == TRUE

\* The unique constraint on active_slot.
SlotFree == \A r \in Runs : ~HoldsSlot(run[r])

\* ... and the insert, which the unique slot refuses when a run came first.
CreateInsert(o, r, start) ==
    /\ desk[o].mode = "create"
    /\ run[r].status = "absent"
    /\ UNCHANGED <<events, ledger, clock, crashes>>
    /\ IF SlotFree
       THEN /\ OperatorSaves(o, r, CreatedRow(start))
            /\ first' = [first EXCEPT ![r] = start]
       ELSE /\ desk' = [desk EXCEPT ![o] = IdleDesk]
            /\ UNCHANGED <<run, first, work>>

\* The dashboard shows a run and its version.
View(o, r) ==
    /\ desk[o].mode = "idle"
    /\ run[r].status # "absent"
    /\ desk' = [desk EXCEPT ![o] = [mode |-> "control", run |-> r, row |-> run[r],
                                    current |-> TRUE]]
    /\ UNCHANGED <<database, clock, work, crashes>>

(* control_paper_run with the version the dashboard showed: a 409 when the  *)
(* row has changed, a 422 when the action does not apply.                   *)
ControlRun(o, action) ==
    LET r == desk[o].run
    IN  /\ desk[o].mode = "control"
        /\ UNCHANGED <<events, ledger, first, clock, crashes>>
        /\ IF VersionMatches(desk[o]) /\ ControlAllowed(run[r], action)
           THEN OperatorSaves(o, r, ControlledRow(run[r], action))
           ELSE /\ desk' = [desk EXCEPT ![o] = IdleDesk]
                /\ UNCHANGED <<run, work>>

-----------------------------------------------------------------------------
WorkerStep(w) ==
    \/ \E r \in Runs : PollRow(w, r)
    \/ PollMarket(w)
    \/ BarRead(w)
    \/ BarSave(w)
    \/ FaultSave(w)
    \/ Restart(w)

OperatorStep(o) ==
    \/ CreateCheck(o)
    \/ \E r \in Runs, start \in Starts : CreateInsert(o, r, start)
    \/ \E r \in Runs : View(o, r)
    \/ \E action \in Actions : ControlRun(o, action)

Next ==
    \/ CloseBar
    \/ NinetySecondsPass
    \/ \E w \in Workers : WorkerStep(w) \/ PollFails(w) \/ Crash(w)
    \/ \E o \in Operators : OperatorStep(o)

Spec == Init /\ [][Next]_vars

(* What the deployment schedules: a worker's next step happens, in the same *)
(* process or in the one the service manager starts after it; the exchange  *)
(* eventually serves a candle that has closed; and other writers do not win *)
(* the race against every single commit of a worker, for polls are 15       *)
(* seconds apart and a commit takes milliseconds.                           *)
Commit(w) == (BarSave(w) \/ FaultSave(w)) /\ run' # run
Deliver(w) == PollMarket(w) /\ work'[w].pc = "bars" /\ work'[w].upto >= work[w].cursor
Fairness ==
    \A w \in Workers :
        WF_vars(WorkerStep(w)) /\ SF_vars(Deliver(w)) /\ SF_vars(Commit(w))
FairSpec == Spec /\ Fairness

-----------------------------------------------------------------------------
(* Every variable holds what its columns or locals can hold, whatever the   *)
(* interleaving of workers, operators and crashes.                          *)
TypeOK ==
    /\ run \in [Runs -> Row]
    /\ events \in [Runs -> SUBSET Bars]
    /\ ledger \in [Runs -> [Bars -> {"none", "open", "closed"}]]
    /\ first \in [Runs -> 0..MaxBar]
    /\ clock \in Time
    /\ work \in [Workers -> Worker]
    /\ desk \in [Operators -> Desk]
    /\ crashes \in 0..MaxCrashes

(* "Only one simulated portfolio/symbol is active at a time", though the    *)
(* check for an active run and the insert are two database statements.      *)
OneActiveRun ==
    \A q, r \in Runs : HoldsSlot(run[q]) /\ HoldsSlot(run[r]) => q = r

(* Every bar from the first to the checkpoint has one event, and no bar     *)
(* beyond it has any: nothing is skipped or processed twice across polls,   *)
(* restarts, competing workers and faults.                                  *)
BarsExactlyOnce ==
    \A r \in Runs : events[r] = (first[r] + 1)..run[r].last

(* The open positions of the ledger are the positions of the runs, so a     *)
(* stopped run is flat and a faulted one has lost nothing: stop, fault,     *)
(* recovery and crash never orphan a position or forget one.                *)
LedgerMatchesRuns ==
    /\ \A r \in Runs, b \in Bars : ledger[r][b] = "open" <=> run[r].position = b
    /\ \A r \in Runs : run[r].status = "stopped" => run[r].position = 0

(* A setup waits only in a running run without a position, so neither a     *)
(* pause nor a fault can be followed by an entry prepared before it.        *)
PendingOnlyWhileLooking ==
    \A r \in Runs : run[r].pending => LooksForEntry(run[r])

(* A faulted run says why, and a run whose entries are on, or can be put on *)
(* by one resume, carries no unacknowledged fault.                          *)
FaultsAreAcknowledged ==
    \A r \in Runs :
        /\ run[r].status = "faulted" => run[r].fault
        /\ run[r].fault => run[r].status \notin {"running", "paused"}

(* A process ends only where it lost a race: the row it read has been saved *)
(* by another writer since.  A save that would have been accepted meets no  *)
(* record another worker, another run or an earlier bar left behind.        *)
OnlyLosersEnd == \A w \in Workers : work[w].pc = "ended" => ~work[w].current

(* A position is opened only in a run that is running, by the row and not   *)
(* by some snapshot of it, when the bar is committed.                       *)
EntriesOnlyWhileRunning ==
    [][\A r \in Runs :
         run[r].position = 0 /\ run'[r].position # 0 => run[r].status = "running"]_vars

(* A row an operator changes is the row the dashboard showed.               *)
OperatorsChangeWhatTheySaw ==
    [][\A o \in Operators :
         desk[o].mode = "control" /\ desk'[o].mode = "idle" /\ run' # run
           => run[desk[o].run] = desk[o].row]_vars

(* Any interleaving of workers and operators amounts to legal changes of    *)
(* current rows, one at a time.                                             *)
Lifecycle == LC!Spec

(* A closed bar of an active run is eventually processed, unless the run    *)
(* stops or faults: no poll, conflict or restart loses it.                  *)
CatchesUp ==
    \A r \in Runs, b \in Bars :
        (run[r].status \in Processing /\ b <= clock.closed)
            ~> (b <= run[r].last \/ run[r].status \notin Processing)

(* README.md:298: "rejects entry on bars over 90 seconds late".  The worker *)
(* measures lateness with the time it sampled before fetching the candles.  *)
EntriesAreTimely ==
    [][\A r \in Runs :
         run[r].position = 0 /\ run'[r].position # 0
           => ~Late(clock, run'[r].position)]_vars

(* README.md:292: "Stop drains an open position through its existing        *)
(* stop/target/time stop", given bars to drain it with.                     *)
StopDrains ==
    \A r \in Runs :
        (run[r].status = "stopping" /\ clock.closed = MaxBar)
            ~> (run[r].status = "stopped" \/ run[r].last = MaxBar)
=============================================================================
