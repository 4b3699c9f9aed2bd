-------------------------- MODULE PaperWorkerProofs --------------------------
(***************************************************************************)
(* The safety properties of PaperWorker and its refinement of               *)
(* PaperLifecycle, for every number of bars, runs, workers and operators.   *)
(***************************************************************************)
EXTENDS PaperWorker, TLAPS

(* Every writer of execution/paper.py turns a row into a row.               *)
LEMMA RowTypes ==
    /\ NoRow \in Row
    /\ \A start \in 0..MaxBar : CreatedRow(start) \in Row
    /\ \A row \in Row : FaultedRow(row) \in Row
    /\ \A row \in Row, action \in Actions : ControlledRow(row, action) \in Row
    /\ \A row \in Row, b \in Bars, o \in Outcomes : ProcessedRow(row, b, o) \in Row
<1>1. NoRow \in Row
  BY MaxBarAssumption DEF NoRow, Row
<1>2. ASSUME NEW start \in 0..MaxBar PROVE CreatedRow(start) \in Row
  BY <1>1 DEF CreatedRow, Row, Statuses, Processing
<1>3. ASSUME NEW row \in Row PROVE FaultedRow(row) \in Row
  BY DEF FaultedRow, Row, Statuses, Processing
<1>4. ASSUME NEW row \in Row, NEW action \in Actions PROVE ControlledRow(row, action) \in Row
  <2>1. ControlStatus(row, action) \in Statuses
    BY DEF ControlStatus, Statuses, Processing, Actions
  <2> QED BY <2>1 DEF ControlledRow, Row
<1>5. ASSUME NEW row \in Row, NEW b \in Bars, NEW o \in Outcomes
      PROVE ProcessedRow(row, b, o) \in Row
  <2>1. PositionAfter(row, b, o) \in 0..MaxBar
    BY MaxBarAssumption DEF PositionAfter, Held, Row, Bars, Outcomes
  <2>2. StatusAfter(row, b, o) \in Statuses \cup {"absent"}
    BY DEF StatusAfter, Row, Statuses, Processing
  <2>3. b \in 0..MaxBar
    BY MaxBarAssumption DEF Bars
  <2> QED BY <2>1, <2>2, <2>3 DEF ProcessedRow, Row, Outcomes
<1> QED BY <1>1, <1>2, <1>3, <1>4, <1>5

(* A row is its five fields.                                                *)
LEMMA RowFields ==
    ASSUME NEW row \in Row, NEW other \in Row,
           row.status = other.status, row.last = other.last, row.pending = other.pending,
           row.position = other.position, row.fault = other.fault
    PROVE  row = other
BY DEF Row

-----------------------------------------------------------------------------
(* A snapshot whose version still matches is the row.                       *)
SnapshotsAreRows ==
    /\ \A w \in Workers : work[w].current => work[w].row = run[work[w].run]
    /\ \A o \in Operators : desk[o].current => desk[o].row = run[desk[o].run]

(* What the program counter of a worker, or the mode of an operator, says   *)
(* of the other locals.                                                     *)
WorkerKnows(local) ==
    /\ local.pc \notin {"idle", "ended"} => local.run \in Runs
    /\ local.pc \in {"clock", "bars", "save"} => local.cursor >= 1
    /\ local.pc = "save" => /\ local.cursor <= local.upto
                            /\ local.row.last < local.cursor
    /\ local.pc \in {"save", "outage", "handler"} => local.row.status \in Processing
    /\ local.current => local.pc \in {"save", "outage", "handler"}

OperatorKnows(local) == local.mode = "control" => local.run \in Runs

LocalsMakeSense ==
    /\ \A w \in Workers : WorkerKnows(work[w])
    /\ \A o \in Operators : OperatorKnows(desk[o])

(* A run that was never created is empty, and no run moves back behind its  *)
(* start.                                                                   *)
RunsStartEmpty ==
    \A r \in Runs :
        /\ run[r].status = "absent" => run[r] = NoRow
        /\ run[r].status = "absent" => first[r] = 0
        /\ first[r] <= run[r].last

(* The ledger ends at the checkpoint, as the events do.                     *)
LedgerEndsAtCheckpoint ==
    \A r \in Runs, c \in Bars : c > run[r].last => ledger[r][c] = "none"

(* What holds of the database, whatever the snapshots.                      *)
DatabaseInv ==
    /\ RunsStartEmpty
    /\ OneActiveRun
    /\ BarsExactlyOnce
    /\ LedgerMatchesRuns
    /\ LedgerEndsAtCheckpoint
    /\ PendingOnlyWhileLooking
    /\ FaultsAreAcknowledged

IInv ==
    /\ TypeOK
    /\ SnapshotsAreRows
    /\ LocalsMakeSense
    /\ OnlyLosersEnd
    /\ DatabaseInv

-----------------------------------------------------------------------------
(* Rows stay rows.                                                          *)

(* NoRun and an idle local state are what the locals start from.            *)
LEMMA IdleTypes ==
    /\ StartOfTime \in Time
    /\ IdleWorker \in Worker
    /\ IdleDesk \in Desk
<1>1. StartOfTime \in Time
  BY MaxBarAssumption DEF StartOfTime, Time
<1> QED BY <1>1, RowTypes, MaxBarAssumption DEF IdleWorker, Worker, IdleDesk, Desk, Pcs

-----------------------------------------------------------------------------
(* What a step leaves alone stays as it was.                                *)

(* A step of one worker that writes nothing and leaves it in a sensible     *)
(* state: PollRow, PollMarket, BarRead, PollFails and conflicts.            *)
LEMMA OnlyOneWorker ==
    ASSUME IInv, NEW w \in Workers, NEW next \in Worker,
           work' = [work EXCEPT ![w] = next],
           UNCHANGED <<database, clock, desk>>, crashes' \in 0..MaxCrashes,
           WorkerKnows(next), next.current => next.row = run[next.run]
    PROVE  IInv'
<1>1. TypeOK'
  BY DEF IInv, TypeOK, database
<1>2. SnapshotsAreRows'
  BY DEF IInv, TypeOK, SnapshotsAreRows, database
<1>3. LocalsMakeSense'
  BY DEF IInv, TypeOK, LocalsMakeSense, OperatorKnows, WorkerKnows
<1>4. OnlyLosersEnd'
  BY <1>3 DEF LocalsMakeSense, WorkerKnows, OnlyLosersEnd
<1>5. DatabaseInv'
  BY DEF IInv, DatabaseInv, RunsStartEmpty, OneActiveRun, BarsExactlyOnce,
         LedgerMatchesRuns, LedgerEndsAtCheckpoint, PendingOnlyWhileLooking,
         FaultsAreAcknowledged, database
<1> QED BY <1>1, <1>2, <1>3, <1>4, <1>5 DEF IInv

(* The same for a step of one operator: CreateCheck, View and the refusals. *)
LEMMA OnlyOneOperator ==
    ASSUME IInv, NEW o \in Operators, NEW next \in Desk,
           desk' = [desk EXCEPT ![o] = next],
           UNCHANGED <<database, clock, work, crashes>>,
           OperatorKnows(next), next.current => next.row = run[next.run]
    PROVE  IInv'
<1>1. TypeOK'
  BY DEF IInv, TypeOK, database
<1>2. SnapshotsAreRows'
  BY DEF IInv, TypeOK, SnapshotsAreRows, database
<1>3. LocalsMakeSense'
  BY DEF IInv, TypeOK, LocalsMakeSense, OperatorKnows, WorkerKnows
<1>4. OnlyLosersEnd'
  BY <1>3 DEF LocalsMakeSense, WorkerKnows, OnlyLosersEnd
<1>5. DatabaseInv'
  BY DEF IInv, DatabaseInv, RunsStartEmpty, OneActiveRun, BarsExactlyOnce,
         LedgerMatchesRuns, LedgerEndsAtCheckpoint, PendingOnlyWhileLooking,
         FaultsAreAcknowledged, database
<1> QED BY <1>1, <1>2, <1>3, <1>4, <1>5 DEF IInv

-----------------------------------------------------------------------------
(* What a write of a row does to the other snapshots.                       *)

(* After WorkerSaves the locals and snapshots are in order again: those of  *)
(* the row written are no longer current, all others saw no change.         *)
LEMMA WorkerSavesLocals ==
    ASSUME IInv, NEW w \in Workers, NEW r \in Runs, NEW row \in Row, NEW next \in Worker,
           WorkerSaves(w, r, row, next), WorkerKnows(next), next.current = FALSE
    PROVE  /\ run' \in [Runs -> Row]
           /\ work' \in [Workers -> Worker]
           /\ desk' \in [Operators -> Desk]
           /\ SnapshotsAreRows'
           /\ LocalsMakeSense'
           /\ OnlyLosersEnd'
<1>1. /\ work \in [Workers -> Worker]
      /\ desk \in [Operators -> Desk]
      /\ run \in [Runs -> Row]
  BY DEF IInv, TypeOK
<1>2. /\ run' = [run EXCEPT ![r] = row]
      /\ work' = [StaleWork(r) EXCEPT ![w] = next]
      /\ desk' = StaleDesk(r)
  BY DEF WorkerSaves
<1>3. \A v \in Workers :
        /\ StaleWork(r)[v] \in Worker
        /\ StaleWork(r)[v].current => work[v].current /\ work[v].run # r
        /\ StaleWork(r)[v].run = work[v].run
        /\ StaleWork(r)[v].row = work[v].row
        /\ StaleWork(r)[v].pc = work[v].pc
        /\ StaleWork(r)[v].cursor = work[v].cursor
        /\ StaleWork(r)[v].upto = work[v].upto
  BY <1>1 DEF StaleWork, Worker
<1>4. \A o \in Operators :
        /\ StaleDesk(r)[o] \in Desk
        /\ StaleDesk(r)[o].current => desk[o].current /\ desk[o].run # r
        /\ StaleDesk(r)[o].run = desk[o].run
        /\ StaleDesk(r)[o].row = desk[o].row
        /\ StaleDesk(r)[o].mode = desk[o].mode
  BY <1>1 DEF StaleDesk, Desk
<1>5. \A v \in Workers : work'[v] = IF v = w THEN next ELSE StaleWork(r)[v]
  BY <1>2 DEF StaleWork
<1>6. run' \in [Runs -> Row]
  BY <1>1, <1>2
<1>7. work' \in [Workers -> Worker]
  BY <1>2, <1>3 DEF StaleWork
<1>8. desk' \in [Operators -> Desk]
  BY <1>2, <1>4 DEF StaleDesk
<1>9. SnapshotsAreRows'
  <2>1. ASSUME NEW v \in Workers, work'[v].current PROVE work'[v].row = run'[work'[v].run]
    <3>1. v # w
      BY <2>1, <1>5
    <3>2. /\ work'[v].row = work[v].row
          /\ work'[v].run = work[v].run
          /\ work[v].current
          /\ work[v].run # r
      BY <3>1, <2>1, <1>5, <1>3
    <3> QED BY <3>2, <1>2, <1>1 DEF IInv, SnapshotsAreRows
  <2>2. ASSUME NEW o \in Operators, desk'[o].current PROVE desk'[o].row = run'[desk'[o].run]
    BY <2>2, <1>1, <1>2, <1>4 DEF IInv, SnapshotsAreRows
  <2> QED BY <2>1, <2>2 DEF SnapshotsAreRows
<1>10. LocalsMakeSense'
  <2>1. ASSUME NEW v \in Workers PROVE WorkerKnows(work'[v])
    BY <1>5, <1>3 DEF IInv, LocalsMakeSense, WorkerKnows
  <2>2. ASSUME NEW o \in Operators PROVE OperatorKnows(desk'[o])
    BY <1>2, <1>4 DEF IInv, LocalsMakeSense, OperatorKnows
  <2> QED BY <2>1, <2>2 DEF LocalsMakeSense, WorkerKnows, OperatorKnows
<1>11. OnlyLosersEnd'
  BY <1>10 DEF LocalsMakeSense, WorkerKnows, OnlyLosersEnd
<1> QED BY <1>6, <1>7, <1>8, <1>9, <1>10, <1>11

(* The same after OperatorSaves.                                            *)
LEMMA OperatorSavesLocals ==
    ASSUME IInv, NEW o \in Operators, NEW r \in Runs, NEW row \in Row,
           OperatorSaves(o, r, row)
    PROVE  /\ run' \in [Runs -> Row]
           /\ work' \in [Workers -> Worker]
           /\ desk' \in [Operators -> Desk]
           /\ SnapshotsAreRows'
           /\ LocalsMakeSense'
           /\ OnlyLosersEnd'
<1>1. /\ work \in [Workers -> Worker]
      /\ desk \in [Operators -> Desk]
      /\ run \in [Runs -> Row]
  BY DEF IInv, TypeOK
<1>2. /\ run' = [run EXCEPT ![r] = row]
      /\ work' = StaleWork(r)
      /\ desk' = [StaleDesk(r) EXCEPT ![o] = IdleDesk]
  BY DEF OperatorSaves
<1>3. \A v \in Workers :
        /\ StaleWork(r)[v] \in Worker
        /\ StaleWork(r)[v].current => work[v].current /\ work[v].run # r
        /\ StaleWork(r)[v].run = work[v].run
        /\ StaleWork(r)[v].row = work[v].row
        /\ StaleWork(r)[v].pc = work[v].pc
        /\ StaleWork(r)[v].cursor = work[v].cursor
        /\ StaleWork(r)[v].upto = work[v].upto
  BY <1>1 DEF StaleWork, Worker
<1>4. \A p \in Operators :
        /\ StaleDesk(r)[p] \in Desk
        /\ StaleDesk(r)[p].current => desk[p].current /\ desk[p].run # r
        /\ StaleDesk(r)[p].run = desk[p].run
        /\ StaleDesk(r)[p].row = desk[p].row
        /\ StaleDesk(r)[p].mode = desk[p].mode
  BY <1>1 DEF StaleDesk, Desk
<1>5. \A p \in Operators : desk'[p] = IF p = o THEN IdleDesk ELSE StaleDesk(r)[p]
  BY <1>2 DEF StaleDesk
<1>6. run' \in [Runs -> Row]
  BY <1>1, <1>2
<1>7. work' \in [Workers -> Worker]
  BY <1>2, <1>3 DEF StaleWork
<1>8. desk' \in [Operators -> Desk]
  BY <1>2, <1>4, IdleTypes DEF StaleDesk
<1>9. SnapshotsAreRows'
  <2>1. ASSUME NEW v \in Workers, work'[v].current PROVE work'[v].row = run'[work'[v].run]
    BY <2>1, <1>1, <1>2, <1>3 DEF IInv, SnapshotsAreRows
  <2>2. ASSUME NEW p \in Operators, desk'[p].current PROVE desk'[p].row = run'[desk'[p].run]
    <3>1. p # o
      BY <2>2, <1>5 DEF IdleDesk
    <3>2. /\ desk'[p].row = desk[p].row
          /\ desk'[p].run = desk[p].run
          /\ desk[p].current
          /\ desk[p].run # r
      BY <3>1, <2>2, <1>5, <1>4
    <3> QED BY <3>2, <1>2, <1>1 DEF IInv, SnapshotsAreRows
  <2> QED BY <2>1, <2>2 DEF SnapshotsAreRows
<1>10. LocalsMakeSense'
  <2>1. ASSUME NEW v \in Workers PROVE WorkerKnows(work'[v])
    BY <1>2, <1>3 DEF IInv, LocalsMakeSense, WorkerKnows
  <2>2. ASSUME NEW p \in Operators PROVE OperatorKnows(desk'[p])
    BY <1>5, <1>4 DEF IInv, LocalsMakeSense, OperatorKnows, IdleDesk
  <2> QED BY <2>1, <2>2 DEF LocalsMakeSense, WorkerKnows, OperatorKnows
<1>11. OnlyLosersEnd'
  BY <1>10 DEF LocalsMakeSense, WorkerKnows, OnlyLosersEnd
<1> QED BY <1>6, <1>7, <1>8, <1>9, <1>10, <1>11

-----------------------------------------------------------------------------
(* What a write of a row does to the database.                              *)

(* The writers that process no bar: the row keeps its checkpoint and its    *)
(* position, and is neither freed while open nor left with a pending setup. *)
HarmlessRow(old, row) ==
    /\ row.last = old.last
    /\ row.position = old.position
    /\ row.status # "absent"
    /\ HoldsSlot(row) => HoldsSlot(old)
    /\ row.status = "stopped" => row.position = 0
    /\ row.pending => LooksForEntry(row)
    /\ row.status = "faulted" => row.fault
    /\ row.fault => row.status \notin {"running", "paused"}

(* fault_paper_run and control_paper_run write harmless rows.               *)
LEMMA FaultIsHarmless ==
    ASSUME NEW row \in Row, row.status \in Processing
    PROVE  HarmlessRow(row, FaultedRow(row))
BY DEF FaultedRow, HarmlessRow, Row, Processing, Statuses, HoldsSlot, LooksForEntry

(* control_paper_run keeps what the ledger says of the run.                *)
LEMMA ControlIsHarmless ==
    ASSUME NEW row \in Row, NEW action \in Actions, ControlAllowed(row, action),
           row.fault => row.status \notin {"running", "paused"}
    PROVE  HarmlessRow(row, ControlledRow(row, action))
<1> DEFINE new == ControlledRow(row, action)
<1>1. /\ new.status = ControlStatus(row, action)
      /\ new.last = row.last
      /\ new.position = row.position
      /\ new.pending = FALSE
      /\ new.fault = (action # "recover" /\ row.fault)
  BY DEF ControlledRow, Row
<1>2. row.status \in Statuses \ {"stopped"}
  BY DEF ControlAllowed, Statuses, Processing
<1>3. HoldsSlot(row)
  BY <1>2 DEF HoldsSlot, Statuses, Processing
<1>4. CASE action = "stop"
  BY <1>1, <1>3, <1>4 DEF ControlStatus, HarmlessRow, LooksForEntry
<1>5. CASE action = "resume"
  BY <1>1, <1>3, <1>5 DEF ControlStatus, ControlAllowed, HarmlessRow, LooksForEntry
<1>6. CASE action = "pause"
  BY <1>1, <1>3, <1>6 DEF ControlStatus, ControlAllowed, HarmlessRow, LooksForEntry
<1>7. CASE action = "recover"
  BY <1>1, <1>3, <1>7 DEF ControlStatus, ControlAllowed, HarmlessRow, LooksForEntry
<1> QED BY <1>4, <1>5, <1>6, <1>7 DEF Actions

(* Writing a harmless row over its predecessor keeps the database in order. *)
LEMMA HarmlessWrite ==
    ASSUME IInv, NEW r \in Runs, NEW row \in Row,
           run' = [run EXCEPT ![r] = row],
           UNCHANGED <<events, ledger, first>>,
           HarmlessRow(run[r], row), run[r].status # "absent"
    PROVE  DatabaseInv'
<1>1. run \in [Runs -> Row] /\ run'[r] = row /\ \A q \in Runs : q # r => run'[q] = run[q]
  BY DEF IInv, TypeOK
<1>2. /\ RunsStartEmpty
      /\ OneActiveRun
      /\ BarsExactlyOnce
      /\ LedgerMatchesRuns
      /\ LedgerEndsAtCheckpoint
      /\ PendingOnlyWhileLooking
      /\ FaultsAreAcknowledged
  BY DEF IInv, DatabaseInv
<1>3. RunsStartEmpty'
  BY <1>1, <1>2 DEF RunsStartEmpty, HarmlessRow
<1>4. OneActiveRun'
  <2>1. \A q \in Runs : HoldsSlot(run'[q]) => HoldsSlot(run[q])
    BY <1>1 DEF HarmlessRow
  <2> QED BY <2>1, <1>2 DEF OneActiveRun
<1>5. BarsExactlyOnce'
  BY <1>1, <1>2 DEF BarsExactlyOnce, HarmlessRow
<1>6. LedgerMatchesRuns'
  BY <1>1, <1>2 DEF LedgerMatchesRuns, HarmlessRow
<1>7. LedgerEndsAtCheckpoint'
  BY <1>1, <1>2 DEF LedgerEndsAtCheckpoint, HarmlessRow
<1>8. PendingOnlyWhileLooking'
  BY <1>1, <1>2 DEF PendingOnlyWhileLooking, HarmlessRow
<1>9. FaultsAreAcknowledged'
  BY <1>1, <1>2 DEF FaultsAreAcknowledged, HarmlessRow
<1> QED BY <1>3, <1>4, <1>5, <1>6, <1>7, <1>8, <1>9 DEF DatabaseInv

(* create_paper_run into a free slot.                                       *)
LEMMA CreateWrite ==
    ASSUME IInv, NEW r \in Runs, NEW start \in 0..MaxBar,
           run[r].status = "absent", SlotFree,
           run' = [run EXCEPT ![r] = CreatedRow(start)],
           first' = [first EXCEPT ![r] = start],
           UNCHANGED <<events, ledger>>
    PROVE  DatabaseInv'
<1>1. /\ run \in [Runs -> Row]
      /\ first \in [Runs -> 0..MaxBar]
      /\ run'[r] = CreatedRow(start)
      /\ first'[r] = start
      /\ \A q \in Runs : q # r => run'[q] = run[q] /\ first'[q] = first[q]
  BY DEF IInv, TypeOK
<1>2. /\ RunsStartEmpty
      /\ BarsExactlyOnce
      /\ LedgerMatchesRuns
      /\ LedgerEndsAtCheckpoint
      /\ PendingOnlyWhileLooking
      /\ FaultsAreAcknowledged
  BY DEF IInv, DatabaseInv
<1>3. /\ run[r].last = 0 /\ first[r] = 0 /\ run[r].position = 0
  BY <1>2 DEF RunsStartEmpty, NoRow
<1>4. LET new == CreatedRow(start)
      IN  /\ new.status = "paused" /\ new.last = start /\ new.position = 0
          /\ new.pending = FALSE /\ new.fault = FALSE
  BY DEF CreatedRow, NoRow
<1>5. RunsStartEmpty'
  BY <1>1, <1>2, <1>4, MaxBarAssumption DEF RunsStartEmpty
<1>6. OneActiveRun'
  <2>1. \A q \in Runs : HoldsSlot(run'[q]) => q = r
    BY <1>1 DEF SlotFree
  <2> QED BY <2>1 DEF OneActiveRun
<1>7. BarsExactlyOnce'
  <2>1. events[r] = {}
    BY <1>2, <1>3 DEF BarsExactlyOnce
  <2>2. (start + 1)..start = {}
    BY MaxBarAssumption
  <2> QED BY <2>1, <2>2, <1>1, <1>2, <1>4 DEF BarsExactlyOnce
<1>8. LedgerMatchesRuns'
  BY <1>1, <1>2, <1>3, <1>4 DEF LedgerMatchesRuns
<1>9. LedgerEndsAtCheckpoint'
  <2>1. \A c \in Bars : ledger[r][c] = "none"
    BY <1>2, <1>3, MaxBarAssumption DEF LedgerEndsAtCheckpoint, Bars
  <2> QED BY <2>1, <1>1, <1>2 DEF LedgerEndsAtCheckpoint
<1>10. PendingOnlyWhileLooking'
  BY <1>1, <1>2, <1>4 DEF PendingOnlyWhileLooking
<1>11. FaultsAreAcknowledged'
  BY <1>1, <1>2, <1>4 DEF FaultsAreAcknowledged
<1> QED BY <1>5, <1>6, <1>7, <1>8, <1>9, <1>10, <1>11 DEF DatabaseInv

(* process_paper_bar on the current row and its next bar.                   *)
LEMMA ProcessWrite ==
    ASSUME IInv, NEW r \in Runs, NEW b \in Bars, NEW o \in Outcomes, NEW late \in BOOLEAN,
           run[r].status \in Processing, IsNextBar(run[r], b), Possible(run[r], o, late),
           run' = [run EXCEPT ![r] = ProcessedRow(run[r], b, o)],
           events' = [events EXCEPT ![r] = @ \cup {b}],
           ledger' = [ledger EXCEPT ![r] = LC!LedgerAfter(@, run[r], b, o)],
           UNCHANGED first
    PROVE  /\ DatabaseInv'
           /\ events' \in [Runs -> SUBSET Bars]
           /\ ledger' \in [Runs -> [Bars -> {"none", "open", "closed"}]]
<1> DEFINE new == ProcessedRow(run[r], b, o)
           after == LC!LedgerAfter(ledger[r], run[r], b, o)
<1>1. /\ run \in [Runs -> Row]
      /\ first \in [Runs -> 0..MaxBar]
      /\ events \in [Runs -> SUBSET Bars]
      /\ ledger \in [Runs -> [Bars -> {"none", "open", "closed"}]]
      /\ run[r] \in Row
  BY DEF IInv, TypeOK
<1>2. /\ run'[r] = new
      /\ events'[r] = events[r] \cup {b}
      /\ ledger'[r] = after
      /\ \A q \in Runs : q # r => /\ run'[q] = run[q]
                                  /\ events'[q] = events[q]
                                  /\ ledger'[q] = ledger[q]
  BY <1>1
<1>3. /\ RunsStartEmpty
      /\ OneActiveRun
      /\ BarsExactlyOnce
      /\ LedgerMatchesRuns
      /\ LedgerEndsAtCheckpoint
      /\ PendingOnlyWhileLooking
      /\ FaultsAreAcknowledged
  BY DEF IInv, DatabaseInv
<1>4. /\ new.status = StatusAfter(run[r], b, o)
      /\ new.last = b
      /\ new.pending = IF LooksForEntry(run[r]) THEN o.pend ELSE run[r].pending
      /\ new.position = PositionAfter(run[r], b, o)
      /\ new.fault = (o.exit = "liquidation")
  BY DEF ProcessedRow
<1>5. /\ b = run[r].last + 1
      /\ run[r].last \in 0..MaxBar
      /\ first[r] \in 0..MaxBar
      /\ b \in Nat
  BY <1>1, MaxBarAssumption DEF IsNextBar, Row, Bars
<1>6. HoldsSlot(run[r])
  BY DEF HoldsSlot, Processing
<1>7. o.exit \in {"none", "exit", "liquidation"}
  BY DEF Outcomes
<1>8. RunsStartEmpty'
  <2>1. new.status # "absent"
    BY <1>4 DEF StatusAfter, Processing
  <2>2. first[r] <= b
    BY <1>3, <1>5 DEF RunsStartEmpty
  <2> QED BY <2>1, <2>2, <1>2, <1>3, <1>4 DEF RunsStartEmpty
<1>9. OneActiveRun'
  <2>1. \A q \in Runs : HoldsSlot(run'[q]) => HoldsSlot(run[q])
    BY <1>2, <1>6
  <2> QED BY <2>1, <1>3 DEF OneActiveRun
<1>10. BarsExactlyOnce'
  <2>1. first[r] <= run[r].last
    BY <1>3 DEF RunsStartEmpty
  <2>2. (first[r] + 1)..b = ((first[r] + 1)..run[r].last) \cup {b}
    BY <2>1, <1>5
  <2>3. events'[r] = (first[r] + 1)..b
    BY <2>2, <1>2, <1>3 DEF BarsExactlyOnce
  <2> QED BY <2>3, <1>2, <1>3, <1>4 DEF BarsExactlyOnce
<1>11. \A c \in Bars : after[c] = IF c # Held(run[r], b, o) THEN ledger[r][c]
                                  ELSE IF o.exit = "none" THEN "open" ELSE "closed"
  BY DEF LC!LedgerAfter, Held, LC!Held, Bars, LC!Bars
<1>12. \A c \in Bars : after[c] = "open" <=> new.position = c
  <2>1. \A c \in Bars : ledger[r][c] = "open" <=> run[r].position = c
    BY <1>3 DEF LedgerMatchesRuns
  <2>2. 0 \notin Bars
    BY DEF Bars
  <2>3. o.enter => run[r].position = 0
    BY DEF Possible, LooksForEntry
  <2>4. CASE o.enter
    BY <2>4, <2>1, <2>2, <2>3, <1>11, <1>4 DEF Held, PositionAfter
  <2>5. CASE ~o.enter
    BY <2>5, <2>1, <2>2, <1>11, <1>4 DEF Held, PositionAfter
  <2> QED BY <2>4, <2>5
<1>13. new.status = "stopped" => new.position = 0
  BY <1>4, <1>7 DEF StatusAfter, Processing
<1>14. LedgerMatchesRuns'
  BY <1>2, <1>3, <1>12, <1>13 DEF LedgerMatchesRuns
<1>15. PendingOnlyWhileLooking'
  <2>1. new.pending => LooksForEntry(new)
    <3>1. SUFFICES ASSUME new.pending PROVE LooksForEntry(new)
      OBVIOUS
    <3>2. CASE LooksForEntry(run[r])
      <4>1. /\ o.pend /\ ~o.enter /\ run[r].position = 0 /\ run[r].status = "running"
        BY <3>1, <3>2, <1>4 DEF Possible, LooksForEntry
      <4>2. o.exit = "none"
        BY <4>1, <1>7 DEF Possible
      <4> QED BY <4>1, <4>2, <1>4 DEF LooksForEntry, StatusAfter, PositionAfter, Held
    <3>3. CASE ~LooksForEntry(run[r])
      BY <3>1, <3>3, <1>3, <1>4 DEF PendingOnlyWhileLooking
    <3> QED BY <3>2, <3>3
  <2> QED BY <2>1, <1>2, <1>3 DEF PendingOnlyWhileLooking
<1>16. FaultsAreAcknowledged'
  <2>1. /\ new.status = "faulted" => new.fault
        /\ new.fault => new.status \notin {"running", "paused"}
    BY <1>4, <1>7 DEF StatusAfter, Processing
  <2> QED BY <2>1, <1>2, <1>3 DEF FaultsAreAcknowledged
<1>17. events' \in [Runs -> SUBSET Bars]
  BY <1>1
<1>18. after \in [Bars -> {"none", "open", "closed"}]
  <2>1. \A c \in Bars : after[c] \in {"none", "open", "closed"}
    BY <1>11, <1>1
  <2>2. after = [c \in Bars |-> after[c]]
    BY DEF LC!LedgerAfter, Bars, LC!Bars
  <2> QED BY <2>1, <2>2
<1>19. ledger' \in [Runs -> [Bars -> {"none", "open", "closed"}]]
  BY <1>18, <1>1
<1>20. LedgerEndsAtCheckpoint'
  <2>1. ASSUME NEW c \in Bars, c > b PROVE after[c] = "none"
    <3>1. c > run[r].last /\ c # b
      BY <2>1, <1>5, MaxBarAssumption DEF Bars
    <3>2. ledger[r][c] = "none"
      BY <3>1, <1>3 DEF LedgerEndsAtCheckpoint
    <3>3. run[r].position # c
      BY <3>2, <1>3 DEF LedgerMatchesRuns
    <3> QED BY <3>1, <3>2, <3>3, <1>11 DEF Held
  <2>2. \A c \in Bars : c > new.last => after[c] = "none"
    BY <2>1, <1>4
  <2> QED BY <2>2, <1>2, <1>3 DEF LedgerEndsAtCheckpoint
<1> QED BY <1>8, <1>9, <1>10, <1>14, <1>15, <1>16, <1>17, <1>19, <1>20 DEF DatabaseInv

-----------------------------------------------------------------------------
(* The unique constraints never bite a save whose version matches.          *)

(* A worker about to save knows a bar of the candles, beyond the checkpoint *)
(* of the row it read.                                                      *)
LEMMA SavesABar ==
    ASSUME IInv, NEW w \in Workers, work[w].pc = "save"
    PROVE  /\ work[w].run \in Runs
           /\ work[w].cursor \in Bars
           /\ work[w].row \in Row
           /\ work[w].row.last < work[w].cursor
           /\ work[w].row.status \in Processing
           /\ work[w].current => work[w].row = run[work[w].run]
<1>1. work[w] \in Worker /\ WorkerKnows(work[w])
  BY DEF IInv, TypeOK, LocalsMakeSense
<1>2. work[w].cursor \in 0..MaxBar + 1 /\ work[w].upto \in 0..MaxBar /\ work[w].row \in Row
  BY <1>1 DEF Worker
<1>3. work[w].cursor \in Bars
  BY <1>1, <1>2, MaxBarAssumption DEF WorkerKnows, Bars
<1> QED BY <1>1, <1>2, <1>3 DEF WorkerKnows, IInv, SnapshotsAreRows

(* The event is new, for no bar beyond the checkpoint has one; a second     *)
(* open position would belong to another run that holds the slot; a         *)
(* position that leaves is open; and no signal came after the row was read. *)
LEMMA SavesAreUnique ==
    ASSUME IInv, NEW w \in Workers, NEW o \in Outcomes, NEW late \in BOOLEAN,
           work[w].pc = "save", work[w].current, Possible(work[w].row, o, late)
    PROVE  ~RecordsRefused(w, o) /\ ~SignalRaced(w, o) /\ EventIsNew(w)
<1> DEFINE r == work[w].run
           b == work[w].cursor
<1>1. /\ r \in Runs
      /\ b \in Bars
      /\ work[w].row = run[r]
      /\ run[r].last < b
      /\ run[r].status \in Processing
      /\ Possible(run[r], o, late)
      /\ run[r] \in Row
  BY SavesABar
<1>2. EventIsNew(w)
  <2>1. events[r] = (first[r] + 1)..run[r].last
    BY <1>1 DEF IInv, DatabaseInv, BarsExactlyOnce
  <2>2. run[r].last \in Nat /\ b \in Nat /\ first[r] \in Nat
    BY <1>1, MaxBarAssumption DEF Row, Bars, IInv, TypeOK
  <2> QED BY <2>1, <2>2, <1>1 DEF EventIsNew
<1>3. ASSUME o.enter, NEW q \in Runs, NEW c \in Bars PROVE ledger[q][c] # "open"
  <2>1. SUFFICES ASSUME ledger[q][c] = "open" PROVE FALSE
    OBVIOUS
  <2>2. run[q].position = c /\ c # 0
    BY <2>1 DEF IInv, DatabaseInv, LedgerMatchesRuns, Bars
  <2>3. run[r].position = 0 /\ HoldsSlot(run[r])
    BY <1>1, <1>3 DEF Possible, LooksForEntry, HoldsSlot, Processing
  <2>4. HoldsSlot(run[q])
    BY <2>2 DEF IInv, DatabaseInv, LedgerMatchesRuns, RunsStartEmpty, NoRow, HoldsSlot
  <2>5. q = r
    BY <2>3, <2>4, <1>1 DEF IInv, DatabaseInv, OneActiveRun
  <2> QED BY <2>2, <2>3, <2>5
<1>4. ASSUME ~o.enter, o.exit # "none" PROVE ledger[r][run[r].position] # "closed"
  <2>1. run[r].position \in Bars
    BY <1>1, <1>4, MaxBarAssumption DEF Possible, Row, Bars
  <2> QED BY <2>1, <1>1 DEF IInv, DatabaseInv, LedgerMatchesRuns
<1>5. ~RecordsRefused(w, o)
  BY <1>1, <1>3, <1>4 DEF RecordsRefused
<1>6. ~SignalRaced(w, o)
  <2>1. run[r].status # "stopped"
    BY <1>1 DEF Processing
  <2>2. \A c \in Bars : c > run[r].last => ledger[r][c] = "none"
    BY <1>1 DEF IInv, DatabaseInv, LedgerEndsAtCheckpoint
  <2> QED BY <2>1, <2>2, <1>1 DEF SignalRaced
<1> QED BY <1>2, <1>5, <1>6

(* A process that ends on a conflict or, its version out of date, on a      *)
(* constraint leaves the database as it was.                                *)
LEMMA EndsIInv ==
    ASSUME IInv, NEW w \in Workers, Ends(w), ~work[w].current,
           UNCHANGED <<first, clock, crashes>>
    PROVE  IInv'
<1> DEFINE next == [IdleWorker EXCEPT !.pc = "ended", !.current = work[w].current]
<1>1. work[w].current = FALSE
  BY DEF IInv, TypeOK, Worker
<1>2. /\ next \in Worker
      /\ next.pc = "ended"
      /\ next.current = FALSE
  BY <1>1, IdleTypes DEF Worker, Pcs
<1>3. WorkerKnows(next)
  BY <1>2 DEF WorkerKnows
<1>4. /\ work' = [work EXCEPT ![w] = next]
      /\ UNCHANGED <<database, clock, desk>>
      /\ crashes' \in 0..MaxCrashes
  BY DEF Ends, database, IInv, TypeOK
<1> QED BY <1>2, <1>3, <1>4, OnlyOneWorker

(* Nor does a conflict that serve logs.                                     *)
LEMMA ConflictsIInv ==
    ASSUME IInv, NEW w \in Workers, Conflicts(w), UNCHANGED <<first, clock, crashes>>
    PROVE  IInv'
<1>1. /\ work' = [work EXCEPT ![w] = IdleWorker]
      /\ UNCHANGED <<database, clock, desk>>
      /\ crashes' \in 0..MaxCrashes
  BY DEF Conflicts, database, IInv, TypeOK
<1> QED BY <1>1, IdleTypes, OnlyOneWorker DEF IdleWorker, WorkerKnows

-----------------------------------------------------------------------------
(* IInv is inductive.                                                       *)

(* The empty database and the idle processes satisfy the invariant.        *)
LEMMA InitIInv == Init => IInv
<1> SUFFICES ASSUME Init PROVE IInv
  OBVIOUS
<1>1. TypeOK
  <2>1. LC!NoPositions \in [Bars -> {"none", "open", "closed"}]
    BY DEF LC!NoPositions, Bars, LC!Bars
  <2>2. 0 \in 0..MaxBar /\ 0 \in 0..MaxCrashes
    BY MaxBarAssumption, WorkerAssumption
  <2> QED BY <2>1, <2>2, RowTypes, IdleTypes DEF Init, TypeOK
<1>2. SnapshotsAreRows
  BY DEF Init, SnapshotsAreRows, IdleWorker, IdleDesk
<1>3. LocalsMakeSense
  BY DEF Init, LocalsMakeSense, WorkerKnows, OperatorKnows, IdleWorker, IdleDesk
<1>4. OnlyLosersEnd
  BY DEF Init, OnlyLosersEnd, IdleWorker
<1>5. DatabaseInv
  <2>1. RunsStartEmpty
    BY DEF Init, RunsStartEmpty, NoRow
  <2>2. OneActiveRun
    BY DEF Init, OneActiveRun, HoldsSlot, NoRow
  <2>3. BarsExactlyOnce
    BY DEF Init, BarsExactlyOnce, NoRow
  <2>4. LedgerMatchesRuns
    BY DEF Init, LedgerMatchesRuns, NoRow, LC!NoPositions, Bars, LC!Bars
  <2>5. LedgerEndsAtCheckpoint
    BY DEF Init, LedgerEndsAtCheckpoint, LC!NoPositions, Bars, LC!Bars
  <2>6. PendingOnlyWhileLooking
    BY DEF Init, PendingOnlyWhileLooking, NoRow
  <2>7. FaultsAreAcknowledged
    BY DEF Init, FaultsAreAcknowledged, NoRow
  <2> QED BY <2>1, <2>2, <2>3, <2>4, <2>5, <2>6, <2>7 DEF DatabaseInv
<1> QED BY <1>1, <1>2, <1>3, <1>4, <1>5 DEF IInv

(* The commit of a bar, in its four outcomes.                               *)
LEMMA BarSaveIInv ==
    ASSUME IInv, NEW w \in Workers, BarSave(w)
    PROVE  IInv'
<1> DEFINE r == work[w].run
           b == work[w].cursor
           row == work[w].row
           more == [work[w] EXCEPT !.pc = "bars", !.cursor = b + 1, !.row = NoRow,
                                   !.current = FALSE]
<1>1. work[w].pc = "save" /\ UNCHANGED <<first, clock, crashes>>
  BY DEF BarSave
<1>2. /\ r \in Runs
      /\ b \in Bars
      /\ row \in Row
      /\ row.status \in Processing
      /\ work[w].current => row = run[r]
      /\ Late(work[w].now, b) \in BOOLEAN
  <2>1. work[w] \in Worker
    BY DEF IInv, TypeOK
  <2>2. Late(work[w].now, b) \in BOOLEAN
    BY <2>1 DEF Late, Worker, Time
  <2> QED BY <2>2, <1>1, SavesABar
<1>3. /\ more \in Worker
      /\ WorkerKnows(more)
      /\ more.current = FALSE
  <2>1. work[w] \in Worker
    BY DEF IInv, TypeOK
  <2>2. b + 1 \in 0..MaxBar + 1 /\ b + 1 >= 1
    BY <1>2, MaxBarAssumption DEF Bars
  <2>3. /\ more.pc = "bars"
        /\ more.run = r
        /\ more.cursor = b + 1
        /\ more.current = FALSE
    BY <2>1 DEF Worker
  <2>4. more \in Worker
    BY <2>1, <2>2, RowTypes DEF Worker, Pcs
  <2> QED BY <2>2, <2>3, <2>4, <1>2 DEF WorkerKnows
<1>4. CASE Conflicts(w)
  BY <1>1, <1>4, ConflictsIInv
<1>5. CASE Ends(w) /\ ~VersionMatches(work[w])
  BY <1>1, <1>5, EndsIInv DEF VersionMatches
<1>6. CASE /\ VersionMatches(work[w])
           /\ WorkerSaves(w, r, FaultedRow(row), more)
           /\ UNCHANGED <<events, ledger>>
  <2>1. row = run[r]
    BY <1>6, <1>2 DEF VersionMatches
  <2>2. WorkerSaves(w, r, FaultedRow(row), more) /\ UNCHANGED <<events, ledger>>
    BY <1>6
  <2>3. HarmlessRow(run[r], FaultedRow(row)) /\ FaultedRow(row) \in Row
    BY <2>1, <1>2, FaultIsHarmless, RowTypes
  <2>4. run[r].status # "absent"
    BY <2>1, <1>2 DEF Processing
  <2>5. DatabaseInv'
    BY <2>2, <2>3, <2>4, <1>1, <1>2, HarmlessWrite DEF WorkerSaves
  <2>6. /\ run' \in [Runs -> Row]
        /\ work' \in [Workers -> Worker]
        /\ desk' \in [Operators -> Desk]
        /\ SnapshotsAreRows'
        /\ LocalsMakeSense'
        /\ OnlyLosersEnd'
    BY <2>2, <2>3, <1>2, <1>3, WorkerSavesLocals
  <2>7. TypeOK'
    BY <2>2, <2>6, <1>1 DEF IInv, TypeOK
  <2> QED BY <2>5, <2>6, <2>7 DEF IInv
<1>7. ASSUME NEW o \in Outcomes, Possible(row, o, Late(work[w].now, b)),
             VersionMatches(work[w]), IsNextBar(row, b),
             WorkerSaves(w, r, ProcessedRow(row, b, o), more),
             events' = [events EXCEPT ![r] = @ \cup {b}],
             ledger' = [ledger EXCEPT ![r] = LC!LedgerAfter(@, row, b, o)]
      PROVE  IInv'
  <2>1. row = run[r] /\ work[w].current
    BY <1>7, <1>2 DEF VersionMatches
  <2>3. /\ WorkerSaves(w, r, ProcessedRow(row, b, o), more)
        /\ events' = [events EXCEPT ![r] = @ \cup {b}]
        /\ ledger' = [ledger EXCEPT ![r] = LC!LedgerAfter(@, row, b, o)]
    BY <1>7
  <2>4. ProcessedRow(row, b, o) \in Row
    BY <1>2, RowTypes
  <2>5. /\ DatabaseInv'
        /\ events' \in [Runs -> SUBSET Bars]
        /\ ledger' \in [Runs -> [Bars -> {"none", "open", "closed"}]]
    <3>1. run' = [run EXCEPT ![r] = ProcessedRow(run[r], b, o)]
      BY <2>3, <2>1 DEF WorkerSaves
    <3>2. ledger' = [ledger EXCEPT ![r] = LC!LedgerAfter(@, run[r], b, o)]
      BY <2>3, <2>1
    <3>3. /\ run[r].status \in Processing
          /\ IsNextBar(run[r], b)
          /\ Possible(run[r], o, Late(work[w].now, b))
      BY <2>1, <1>2, <1>7
    <3> QED BY <3>1, <3>2, <3>3, <2>3, <1>1, <1>2, ProcessWrite
  <2>6. /\ run' \in [Runs -> Row]
        /\ work' \in [Workers -> Worker]
        /\ desk' \in [Operators -> Desk]
        /\ SnapshotsAreRows'
        /\ LocalsMakeSense'
        /\ OnlyLosersEnd'
    BY <2>3, <2>4, <1>2, <1>3, WorkerSavesLocals
  <2>7. TypeOK'
    BY <2>5, <2>6, <1>1 DEF IInv, TypeOK
  <2> QED BY <2>5, <2>6, <2>7 DEF IInv
<1>8. CASE VersionMatches(work[w]) /\ ~IsNextBar(row, b)
  BY <1>6, <1>8 DEF BarSave
<1>9. CASE VersionMatches(work[w]) /\ IsNextBar(row, b)
  <2>1. work[w].current
    BY <1>9 DEF VersionMatches
  <2>2. \A o \in Outcomes : Possible(row, o, Late(work[w].now, b)) =>
          ~RecordsRefused(w, o) /\ ~SignalRaced(w, o) /\ EventIsNew(w)
    BY <2>1, <1>1, <1>2, SavesAreUnique
  <2> QED BY <2>2, <1>7, <1>9 DEF BarSave
<1>10. CASE ~VersionMatches(work[w])
  BY <1>4, <1>5, <1>10 DEF BarSave
<1> QED BY <1>8, <1>9, <1>10

(* fault_paper_run committing, or losing to another writer.                 *)
LEMMA FaultSaveIInv ==
    ASSUME IInv, NEW w \in Workers, FaultSave(w)
    PROVE  IInv'
<1>1. /\ work[w].pc \in {"outage", "handler"}
      /\ UNCHANGED <<first, clock, crashes>>
      /\ work[w] \in Worker
      /\ WorkerKnows(work[w])
  BY DEF FaultSave, IInv, TypeOK, LocalsMakeSense
<1>2. CASE ~VersionMatches(work[w])
  <2>1. ~work[w].current /\ (Ends(w) \/ Conflicts(w))
    BY <1>2 DEF FaultSave, VersionMatches
  <2> QED BY <2>1, <1>1, EndsIInv, ConflictsIInv
<1>3. CASE VersionMatches(work[w])
  <2> DEFINE r == work[w].run
  <2>1. /\ r \in Runs
        /\ work[w].row = run[r]
        /\ run[r] \in Row
        /\ run[r].status \in Processing
    BY <1>1, <1>3 DEF WorkerKnows, VersionMatches, IInv, TypeOK, SnapshotsAreRows
  <2>2. WorkerSaves(w, r, FaultedRow(run[r]), IdleWorker) /\ UNCHANGED <<events, ledger>>
    BY <1>3, <2>1 DEF FaultSave
  <2>3. HarmlessRow(run[r], FaultedRow(run[r])) /\ FaultedRow(run[r]) \in Row
    BY <2>1, FaultIsHarmless, RowTypes
  <2>4. run[r].status # "absent"
    BY <2>1 DEF Processing
  <2>5. DatabaseInv'
    BY <2>1, <2>2, <2>3, <2>4, <1>1, HarmlessWrite DEF WorkerSaves
  <2>6. /\ run' \in [Runs -> Row]
        /\ work' \in [Workers -> Worker]
        /\ desk' \in [Operators -> Desk]
        /\ SnapshotsAreRows'
        /\ LocalsMakeSense'
        /\ OnlyLosersEnd'
    <3>1. WorkerKnows(IdleWorker) /\ IdleWorker.current = FALSE
      BY DEF IdleWorker, WorkerKnows
    <3> QED BY <3>1, <2>1, <2>2, <2>3, IdleTypes, WorkerSavesLocals
  <2>7. TypeOK'
    BY <2>2, <2>6, <1>1 DEF IInv, TypeOK
  <2> QED BY <2>5, <2>6, <2>7 DEF IInv
<1> QED BY <1>2, <1>3

(* The steps of a worker that write nothing.                                *)
LEMMA PollIInv ==
    ASSUME IInv, NEW w \in Workers,
           \/ \E r \in Runs : PollRow(w, r)
           \/ PollMarket(w)
           \/ BarRead(w)
           \/ PollFails(w)
           \/ Restart(w)
           \/ Crash(w)
    PROVE  IInv'
<1>1. /\ work[w] \in Worker
      /\ WorkerKnows(work[w])
      /\ run \in [Runs -> Row]
      /\ crashes \in 0..MaxCrashes
      /\ clock \in Time
  BY DEF IInv, TypeOK, LocalsMakeSense
<1>2. ASSUME NEW next \in Worker, Becomes(w, next), WorkerKnows(next),
             next.current => next.row = run[next.run]
      PROVE  IInv'
  <2>1. /\ work' = [work EXCEPT ![w] = next]
        /\ UNCHANGED <<database, clock, desk>>
        /\ crashes' \in 0..MaxCrashes
    BY <1>1, <1>2 DEF Becomes
  <2> QED BY <2>1, <1>2, OnlyOneWorker
<1>3. /\ IdleWorker \in Worker
      /\ WorkerKnows(IdleWorker)
      /\ IdleWorker.current = FALSE
  BY IdleTypes DEF IdleWorker, WorkerKnows
<1>4. ASSUME NEW r \in Runs, PollRow(w, r) PROVE IInv'
  <2> DEFINE next == [work[w] EXCEPT !.pc = "clock", !.run = r, !.cursor = run[r].last + 1]
  <2>1. Becomes(w, next)
    BY <1>4 DEF PollRow
  <2>2. run[r].last + 1 \in 0..MaxBar + 1 /\ run[r].last + 1 >= 1
    BY <1>1, MaxBarAssumption DEF Row
  <2>3. /\ next \in Worker
        /\ next.pc = "clock"
        /\ next.run = r
        /\ next.cursor = run[r].last + 1
    BY <1>1, <2>2 DEF Worker, Pcs
  <2>4. WorkerKnows(next) /\ next.current = FALSE
    BY <1>1, <1>4, <2>2, <2>3 DEF WorkerKnows, PollRow, Worker
  <2> QED BY <2>1, <2>3, <2>4, <1>2
<1>5. ASSUME PollMarket(w) PROVE IInv'
  <2> DEFINE r == work[w].run
             row == run[r]
             outage == [work[w] EXCEPT !.pc = "outage", !.row = row, !.current = TRUE]
             bars(upto) == [work[w] EXCEPT !.pc = "bars", !.upto = upto, !.now = clock]
  <2>1. /\ work[w].pc = "clock"
        /\ r \in Runs
        /\ work[w].cursor >= 1
        /\ work[w].current = FALSE
        /\ work[w].cursor \in 0..MaxBar + 1
    BY <1>1, <1>5 DEF PollMarket, WorkerKnows, Worker
  <2>2. CASE Becomes(w, IdleWorker)
    BY <2>2, <1>2, <1>3
  <2>3. CASE Becomes(w, outage) /\ row.status \in Processing
    <3>1. /\ outage \in Worker
          /\ outage.pc = "outage"
          /\ outage.run = r
          /\ outage.row = run[r]
      BY <1>1, <2>1 DEF Worker, Pcs
    <3>2. WorkerKnows(outage)
      BY <3>1, <2>1, <2>3 DEF WorkerKnows
    <3> QED BY <3>1, <3>2, <2>3, <1>2
  <2>4. ASSUME NEW upto \in (work[w].cursor - 1)..clock.closed, Becomes(w, bars(upto))
        PROVE  IInv'
    <3>1. upto \in 0..MaxBar
      BY <1>1, <2>1, MaxBarAssumption DEF Time
    <3>2. /\ bars(upto) \in Worker
          /\ bars(upto).pc = "bars"
          /\ bars(upto).run = r
          /\ bars(upto).cursor = work[w].cursor
          /\ bars(upto).current = FALSE
      BY <1>1, <2>1, <3>1 DEF Worker, Pcs
    <3>3. WorkerKnows(bars(upto))
      BY <3>2, <2>1 DEF WorkerKnows
    <3> QED BY <3>2, <3>3, <2>4, <1>2
  <2> QED BY <2>2, <2>3, <2>4, <1>5 DEF PollMarket
<1>6. ASSUME BarRead(w) PROVE IInv'
  <2> DEFINE r == work[w].run
             row == run[r]
             skip == [work[w] EXCEPT !.cursor = @ + 1]
             save == [work[w] EXCEPT !.pc = "save", !.row = row, !.current = TRUE]
  <2>1. /\ work[w].pc = "bars"
        /\ r \in Runs
        /\ work[w].cursor >= 1
        /\ work[w].current = FALSE
        /\ work[w].cursor \in 0..MaxBar + 1
        /\ work[w].upto \in 0..MaxBar
    BY <1>1, <1>6 DEF BarRead, WorkerKnows, Worker
  <2>2. CASE work[w].cursor > work[w].upto \/ row.status \notin Processing
    BY <2>2, <1>2, <1>3, <1>6 DEF BarRead
  <2>3. CASE /\ work[w].cursor <= work[w].upto
             /\ row.status \in Processing
             /\ AlreadyProcessed(row, work[w].cursor)
    <3>1. Becomes(w, skip)
      BY <1>6, <2>1, <2>3, MaxBarAssumption DEF BarRead
    <3>2. work[w].cursor + 1 \in 0..MaxBar + 1 /\ work[w].cursor + 1 >= 1
      BY <2>1, <2>3, MaxBarAssumption
    <3>3. /\ skip \in Worker
          /\ skip.pc = "bars"
          /\ skip.run = r
          /\ skip.cursor = work[w].cursor + 1
          /\ skip.current = FALSE
      BY <1>1, <2>1, <3>2 DEF Worker
    <3>4. WorkerKnows(skip)
      BY <3>2, <3>3, <2>1 DEF WorkerKnows
    <3> QED BY <3>1, <3>3, <3>4, <1>2
  <2>4. CASE /\ work[w].cursor <= work[w].upto
             /\ row.status \in Processing
             /\ ~AlreadyProcessed(row, work[w].cursor)
    <3>1. Becomes(w, save)
      BY <1>6, <2>1, <2>4, MaxBarAssumption DEF BarRead
    <3>2. /\ save \in Worker
          /\ save.pc = "save"
          /\ save.run = r
          /\ save.cursor = work[w].cursor
          /\ save.upto = work[w].upto
          /\ save.row = row
      BY <1>1, <2>1 DEF Worker, Pcs
    <3>3. row.last < work[w].cursor
      BY <1>1, <2>1, <2>4, MaxBarAssumption DEF AlreadyProcessed, Row
    <3>4. WorkerKnows(save)
      BY <3>2, <3>3, <2>1, <2>4 DEF WorkerKnows
    <3> QED BY <3>1, <3>2, <3>4, <1>2
  <2>5. work[w].cursor <= work[w].upto \/ work[w].cursor > work[w].upto
    BY <2>1, MaxBarAssumption
  <2> QED BY <2>2, <2>3, <2>4, <2>5
<1>7. ASSUME PollFails(w) PROVE IInv'
  <2>1. CASE Becomes(w, IdleWorker)
    BY <2>1, <1>2, <1>3
  <2>2. ASSUME NEW r \in Runs, run[r].status \in Processing,
               Becomes(w, [IdleWorker EXCEPT !.pc = "handler", !.run = r, !.row = run[r],
                                             !.current = TRUE])
        PROVE  IInv'
    <3> DEFINE next == [IdleWorker EXCEPT !.pc = "handler", !.run = r, !.row = run[r],
                                          !.current = TRUE]
    <3>1. /\ next \in Worker
          /\ next.pc = "handler"
          /\ next.run = r
          /\ next.row = run[r]
      BY <1>1, <1>3 DEF Worker, Pcs
    <3>2. WorkerKnows(next)
      BY <3>1, <2>2 DEF WorkerKnows
    <3> QED BY <3>1, <3>2, <2>2, <1>2
  <2> QED BY <2>1, <2>2, <1>7 DEF PollFails
<1>8. ASSUME Crash(w) PROVE IInv'
  <2>1. /\ work' = [work EXCEPT ![w] = IdleWorker]
        /\ UNCHANGED <<database, clock, desk>>
        /\ crashes' \in 0..MaxCrashes
    BY <1>1, <1>8, WorkerAssumption DEF Crash
  <2> QED BY <2>1, <1>3, OnlyOneWorker
<1>9. ASSUME Restart(w) PROVE IInv'
  BY <1>2, <1>3, <1>9 DEF Restart
<1> QED BY <1>4, <1>5, <1>6, <1>7, <1>8, <1>9

(* The steps of an operator.                                                *)
LEMMA OperatorIInv ==
    ASSUME IInv, NEW o \in Operators, OperatorStep(o)
    PROVE  IInv'
<1>1. /\ desk[o] \in Desk
      /\ OperatorKnows(desk[o])
      /\ run \in [Runs -> Row]
      /\ desk \in [Operators -> Desk]
  BY DEF IInv, TypeOK, LocalsMakeSense
<1>2. ASSUME desk' = [desk EXCEPT ![o] = IdleDesk],
             UNCHANGED <<database, clock, work, crashes>>
      PROVE  IInv'
  <2>1. OperatorKnows(IdleDesk) /\ IdleDesk.current = FALSE
    BY DEF IdleDesk, OperatorKnows
  <2> QED BY <2>1, <1>2, IdleTypes, OnlyOneOperator
<1>3. ASSUME CreateCheck(o) PROVE IInv'
  <2> DEFINE next == [desk[o] EXCEPT !.mode = "create"]
  <2>1. desk' = [desk EXCEPT ![o] = next] /\ UNCHANGED <<database, clock, work, crashes>>
    BY <1>1, <1>3 DEF CreateCheck
  <2>2. /\ next \in Desk
        /\ next.mode = "create"
        /\ next.current = desk[o].current
        /\ next.run = desk[o].run
        /\ next.row = desk[o].row
    BY <1>1 DEF Desk
  <2>3. OperatorKnows(next)
    BY <2>2 DEF OperatorKnows
  <2>4. next.current => next.row = run[next.run]
    BY <2>2 DEF IInv, SnapshotsAreRows
  <2> QED BY <2>1, <2>2, <2>3, <2>4, OnlyOneOperator
<1>4. ASSUME NEW r \in Runs, NEW start \in Starts, CreateInsert(o, r, start) PROVE IInv'
  <2>1. UNCHANGED <<events, ledger, clock, crashes>> /\ run[r].status = "absent"
    BY <1>4 DEF CreateInsert
  <2>2. CASE ~SlotFree
    BY <2>1, <2>2, <1>2, <1>4 DEF CreateInsert, database
  <2>3. CASE SlotFree
    <3>1. OperatorSaves(o, r, CreatedRow(start)) /\ first' = [first EXCEPT ![r] = start]
      BY <2>3, <1>4 DEF CreateInsert
    <3>2. start \in 0..MaxBar /\ CreatedRow(start) \in Row
      BY WorkerAssumption, RowTypes
    <3>3. DatabaseInv'
      BY <3>1, <3>2, <2>1, <2>3, CreateWrite DEF OperatorSaves
    <3>4. /\ run' \in [Runs -> Row]
          /\ work' \in [Workers -> Worker]
          /\ desk' \in [Operators -> Desk]
          /\ SnapshotsAreRows'
          /\ LocalsMakeSense'
          /\ OnlyLosersEnd'
      BY <3>1, <3>2, OperatorSavesLocals
    <3>5. TypeOK'
      BY <3>1, <3>2, <3>4, <2>1 DEF IInv, TypeOK
    <3> QED BY <3>3, <3>4, <3>5 DEF IInv
  <2> QED BY <2>2, <2>3
<1>5. ASSUME NEW r \in Runs, View(o, r) PROVE IInv'
  <2> DEFINE next == [mode |-> "control", run |-> r, row |-> run[r], current |-> TRUE]
  <2>1. desk' = [desk EXCEPT ![o] = next] /\ UNCHANGED <<database, clock, work, crashes>>
    BY <1>5 DEF View
  <2>2. next \in Desk
    BY <1>1 DEF Desk
  <2>3. OperatorKnows(next)
    BY DEF OperatorKnows
  <2> QED BY <2>1, <2>2, <2>3, OnlyOneOperator
<1>6. ASSUME NEW action \in Actions, ControlRun(o, action) PROVE IInv'
  <2> DEFINE r == desk[o].run
  <2>1. /\ r \in Runs
        /\ run[r] \in Row
        /\ UNCHANGED <<events, ledger, first, clock, crashes>>
    BY <1>1, <1>6 DEF ControlRun, OperatorKnows
  <2>2. CASE ~(VersionMatches(desk[o]) /\ ControlAllowed(run[r], action))
    BY <2>1, <2>2, <1>2, <1>6 DEF ControlRun, database
  <2>3. CASE VersionMatches(desk[o]) /\ ControlAllowed(run[r], action)
    <3>1. OperatorSaves(o, r, ControlledRow(run[r], action))
      BY <2>3, <1>6 DEF ControlRun
    <3>2. /\ HarmlessRow(run[r], ControlledRow(run[r], action))
          /\ ControlledRow(run[r], action) \in Row
      BY <2>1, <2>3, ControlIsHarmless, RowTypes DEF IInv, DatabaseInv, FaultsAreAcknowledged
    <3>3. run[r].status # "absent"
      BY <2>3 DEF ControlAllowed, Statuses, Processing
    <3>4. DatabaseInv'
      BY <3>1, <3>2, <3>3, <2>1, HarmlessWrite DEF OperatorSaves
    <3>5. /\ run' \in [Runs -> Row]
          /\ work' \in [Workers -> Worker]
          /\ desk' \in [Operators -> Desk]
          /\ SnapshotsAreRows'
          /\ LocalsMakeSense'
          /\ OnlyLosersEnd'
      BY <3>1, <3>2, <2>1, OperatorSavesLocals
    <3>6. TypeOK'
      BY <3>5, <2>1 DEF IInv, TypeOK
    <3> QED BY <3>4, <3>5, <3>6 DEF IInv
  <2> QED BY <2>2, <2>3
<1> QED BY <1>3, <1>4, <1>5, <1>6 DEF OperatorStep

(* Every step keeps the invariant: one case per action of Next.            *)
LEMMA NextIInv == IInv /\ [Next]_vars => IInv'
<1> SUFFICES ASSUME IInv, [Next]_vars PROVE IInv'
  OBVIOUS
<1> USE DEF IInv
<1>1. ASSUME UNCHANGED <<database, work, desk, crashes>>, clock' \in Time PROVE IInv'
  <2>1. TypeOK'
    BY <1>1 DEF TypeOK, database
  <2>2. SnapshotsAreRows' /\ LocalsMakeSense' /\ OnlyLosersEnd'
    BY <1>1 DEF SnapshotsAreRows, LocalsMakeSense, WorkerKnows, OperatorKnows,
                OnlyLosersEnd, database
  <2>3. DatabaseInv'
    BY <1>1 DEF DatabaseInv, RunsStartEmpty, OneActiveRun, BarsExactlyOnce,
                LedgerMatchesRuns, LedgerEndsAtCheckpoint, PendingOnlyWhileLooking,
                FaultsAreAcknowledged, database
  <2> QED BY <2>1, <2>2, <2>3
<1>2. CASE CloseBar
  BY <1>1, <1>2, MaxBarAssumption DEF CloseBar, Time, TypeOK
<1>3. CASE NinetySecondsPass
  BY <1>1, <1>3 DEF NinetySecondsPass, Time, TypeOK
<1>4. ASSUME NEW w \in Workers, WorkerStep(w) \/ PollFails(w) \/ Crash(w) PROVE IInv'
  BY <1>4, PollIInv, BarSaveIInv, FaultSaveIInv DEF WorkerStep
<1>5. ASSUME NEW o \in Operators, OperatorStep(o) PROVE IInv'
  BY <1>5, OperatorIInv
<1>6. CASE UNCHANGED vars
  BY <1>1, <1>6 DEF vars, TypeOK
<1> QED BY <1>2, <1>3, <1>4, <1>5, <1>6 DEF Next

-----------------------------------------------------------------------------
(* The safety properties.                                                   *)

(* The inductive invariant holds in every reachable state.                  *)
THEOREM Invariance == Spec => []IInv
BY InitIInv, NextIInv, PTL DEF Spec

(* TypeOK: every variable keeps its type.                                   *)
THEOREM TypeCorrect == Spec => []TypeOK
<1>1. IInv => TypeOK
  BY DEF IInv
<1> QED BY <1>1, Invariance, PTL

(* The check for an active run and the insert may be interleaved in any     *)
(* way: the unique slot leaves one active run.                              *)
THEOREM OneRun == Spec => []OneActiveRun
<1>1. IInv => OneActiveRun
  BY DEF IInv, DatabaseInv
<1> QED BY <1>1, Invariance, PTL

(* No bar is skipped or processed twice, however many workers poll, crash   *)
(* and conflict.                                                            *)
THEOREM ExactlyOnce == Spec => []BarsExactlyOnce
<1>1. IInv => BarsExactlyOnce
  BY DEF IInv, DatabaseInv
<1> QED BY <1>1, Invariance, PTL

(* The open positions of the ledger are those of the runs.                  *)
THEOREM LedgerAgrees == Spec => []LedgerMatchesRuns
<1>1. IInv => LedgerMatchesRuns
  BY DEF IInv, DatabaseInv
<1> QED BY <1>1, Invariance, PTL

(* No setup survives a pause, a stop or a fault.                            *)
THEOREM PendingIsFresh == Spec => []PendingOnlyWhileLooking
<1>1. IInv => PendingOnlyWhileLooking
  BY DEF IInv, DatabaseInv
<1> QED BY <1>1, Invariance, PTL

(* A run goes on only without a fault message.                              *)
THEOREM FaultsShown == Spec => []FaultsAreAcknowledged
<1>1. IInv => FaultsAreAcknowledged
  BY DEF IInv, DatabaseInv
<1> QED BY <1>1, Invariance, PTL

(* A process ends only where another writer has saved the row it read: the  *)
(* unique constraints and the handler of serve never end a worker whose     *)
(* save would have been accepted.                                           *)
THEOREM LosersAlone == Spec => []OnlyLosersEnd
<1>1. IInv => OnlyLosersEnd
  BY DEF IInv
<1> QED BY <1>1, Invariance, PTL

-----------------------------------------------------------------------------
(* The steps seen from outside: PaperLifecycle.                             *)

(* PaperLifecycle reads the operators of PaperRow as PaperWorker does.      *)
LEMMA SameRows ==
    /\ LC!NoRow = NoRow
    /\ LC!Bars = Bars
    /\ LC!Outcomes = Outcomes
    /\ LC!Processing = Processing
    /\ LC!Actions = Actions
    /\ \A row : LC!HoldsSlot(row) <=> HoldsSlot(row)
    /\ \A start : LC!CreatedRow(start) = CreatedRow(start)
    /\ \A row, action : LC!ControlAllowed(row, action) <=> ControlAllowed(row, action)
    /\ \A row, action : LC!ControlledRow(row, action) = ControlledRow(row, action)
    /\ \A row : LC!FaultedRow(row) = FaultedRow(row)
    /\ \A row, b : LC!IsNextBar(row, b) <=> IsNextBar(row, b)
    /\ \A row, o, late : LC!Possible(row, o, late) <=> Possible(row, o, late)
    /\ \A row, b, o : LC!ProcessedRow(row, b, o) = ProcessedRow(row, b, o)
<1>1. LC!Processing = Processing /\ LC!Statuses = Statuses
  BY DEF Processing, LC!Processing, Statuses, LC!Statuses
<1>2. \A row : LC!LooksForEntry(row) <=> LooksForEntry(row)
  BY DEF LC!LooksForEntry, LooksForEntry
<1>3. \A row, b, o : LC!PositionAfter(row, b, o) = PositionAfter(row, b, o)
  BY DEF LC!PositionAfter, PositionAfter, LC!Held, Held
<1>4. \A row, b, o : LC!StatusAfter(row, b, o) = StatusAfter(row, b, o)
  BY <1>3 DEF LC!StatusAfter, StatusAfter
<1>5. /\ LC!NoRow = NoRow
      /\ LC!Bars = Bars
      /\ LC!Outcomes = Outcomes
      /\ LC!Actions = Actions
  BY DEF LC!NoRow, NoRow, LC!Bars, Bars, LC!Outcomes, Outcomes, LC!Actions, Actions
<1>6. \A row : LC!HoldsSlot(row) <=> HoldsSlot(row)
  BY DEF LC!HoldsSlot, HoldsSlot
<1>7. \A start : LC!CreatedRow(start) = CreatedRow(start)
  BY <1>5 DEF LC!CreatedRow, CreatedRow
<1>8. \A row, action : LC!ControlAllowed(row, action) <=> ControlAllowed(row, action)
  BY <1>1 DEF LC!ControlAllowed, ControlAllowed
<1>9. \A row, action : LC!ControlStatus(row, action) = ControlStatus(row, action)
  BY DEF LC!ControlStatus, ControlStatus
<1>10. \A row, action : LC!ControlledRow(row, action) = ControlledRow(row, action)
  BY <1>9 DEF LC!ControlledRow, ControlledRow
<1>11. \A row : LC!FaultedRow(row) = FaultedRow(row)
  BY <1>1 DEF LC!FaultedRow, FaultedRow
<1>12. \A row, b : LC!IsNextBar(row, b) <=> IsNextBar(row, b)
  BY DEF LC!IsNextBar, IsNextBar
<1>13. \A row, o, late : LC!Possible(row, o, late) <=> Possible(row, o, late)
  BY <1>2 DEF LC!Possible, Possible
<1>14. \A row, b, o : LC!ProcessedRow(row, b, o) = ProcessedRow(row, b, o)
  BY <1>2, <1>3, <1>4 DEF LC!ProcessedRow, ProcessedRow
<1> QED BY <1>1, <1>5, <1>6, <1>7, <1>8, <1>10, <1>11, <1>12, <1>13, <1>14

(* A commit of a bar is a Process of the current row, a Fault of it on a    *)
(* gap, or nothing.                                                         *)
LEMMA BarSaveImplements ==
    ASSUME IInv, NEW w \in Workers, BarSave(w)
    PROVE  LC!Next \/ UNCHANGED LC!vars
<1> DEFINE r == work[w].run
           b == work[w].cursor
           row == work[w].row
<1>1. /\ r \in Runs
      /\ b \in Bars
      /\ row.status \in Processing
      /\ work[w].current => row = run[r]
  BY SavesABar DEF BarSave
<1>2. CASE UNCHANGED <<run, events, ledger>>
  BY <1>2 DEF LC!vars
<1>3. CASE /\ work[w].current
           /\ run' = [run EXCEPT ![r] = FaultedRow(row)]
           /\ UNCHANGED <<events, ledger>>
  <2>1. LC!Fault(r)
    BY <1>1, <1>3, SameRows DEF LC!Fault
  <2> QED BY <2>1, <1>1 DEF LC!Next
<1>4. ASSUME NEW o \in Outcomes, NEW late, Possible(row, o, late),
             work[w].current, IsNextBar(row, b),
             run' = [run EXCEPT ![r] = ProcessedRow(row, b, o)],
             events' = [events EXCEPT ![r] = @ \cup {b}],
             ledger' = [ledger EXCEPT ![r] = LC!LedgerAfter(@, row, b, o)]
      PROVE  LC!Next
  <2>1. Possible(run[r], o, FALSE)
    BY <1>1, <1>4 DEF Possible
  <2>2. ledger' = [ledger EXCEPT ![r] = LC!LedgerAfter(ledger[r], run[r], b, o)]
    BY <1>1, <1>4
  <2>3. LC!Process(r, b, o)
    BY <1>1, <1>4, <2>1, <2>2, SameRows DEF LC!Process
  <2> QED BY <2>3, <1>1, SameRows DEF LC!Next
<1> QED BY <1>2, <1>3, <1>4 DEF BarSave, WorkerSaves, VersionMatches, Conflicts, Ends

(* Every step of a worker, an operator or the clock is one of               *)
(* PaperLifecycle, or changes nothing it sees.                              *)
LEMMA NextImplements == IInv /\ [Next]_vars => LC!Next \/ UNCHANGED LC!vars
<1> SUFFICES ASSUME IInv, [Next]_vars PROVE LC!Next \/ UNCHANGED LC!vars
  OBVIOUS
<1>1. ASSUME UNCHANGED <<run, events, ledger>> PROVE UNCHANGED LC!vars
  BY <1>1 DEF LC!vars
<1>2. CASE CloseBar \/ NinetySecondsPass \/ UNCHANGED vars
  BY <1>1, <1>2 DEF CloseBar, NinetySecondsPass, vars, database
<1>3. ASSUME NEW w \in Workers, WorkerStep(w) \/ PollFails(w) \/ Crash(w)
      PROVE  LC!Next \/ UNCHANGED LC!vars
  <2>1. CASE BarSave(w)
    BY <2>1, BarSaveImplements
  <2>2. CASE FaultSave(w)
    <3>1. CASE ~VersionMatches(work[w])
      BY <3>1, <2>2, <1>1 DEF FaultSave, Conflicts, Ends
    <3>2. CASE VersionMatches(work[w])
      <4> DEFINE r == work[w].run
      <4>1. /\ r \in Runs
            /\ work[w].row = run[r]
            /\ run[r].status \in Processing
        BY <2>2, <3>2 DEF FaultSave, IInv, SnapshotsAreRows, LocalsMakeSense, WorkerKnows,
                          VersionMatches
      <4>2. LC!Fault(r)
        BY <2>2, <3>2, <4>1, SameRows DEF FaultSave, WorkerSaves, LC!Fault
      <4> QED BY <4>1, <4>2 DEF LC!Next
    <3> QED BY <3>1, <3>2
  <2>3. CASE \/ (\E r \in Runs : PollRow(w, r)) \/ BarRead(w)
           \/ PollFails(w) \/ Restart(w) \/ Crash(w)
    BY <2>3, <1>1 DEF PollRow, BarRead, PollFails, Restart, Crash, Becomes, database
  <2>4. CASE PollMarket(w)
    BY <2>4, <1>1 DEF PollMarket, Becomes, database
  <2> QED BY <2>1, <2>2, <2>3, <2>4, <1>3 DEF WorkerStep
<1>4. ASSUME NEW o \in Operators, OperatorStep(o) PROVE LC!Next \/ UNCHANGED LC!vars
  <2>1. CASE CreateCheck(o) \/ \E r \in Runs : View(o, r)
    BY <2>1, <1>1 DEF CreateCheck, View, database
  <2>2. ASSUME NEW r \in Runs, NEW start \in Starts, CreateInsert(o, r, start)
        PROVE  LC!Next \/ UNCHANGED LC!vars
    <3>1. CASE ~SlotFree
      BY <3>1, <2>2, <1>1 DEF CreateInsert
    <3>2. CASE SlotFree
      <4>1. LC!Create(r, start)
        BY <3>2, <2>2, SameRows DEF CreateInsert, OperatorSaves, SlotFree, LC!Create
      <4>2. start \in 0..MaxBar
        BY WorkerAssumption
      <4> QED BY <4>1, <4>2 DEF LC!Next
    <3> QED BY <3>1, <3>2
  <2>3. ASSUME NEW action \in Actions, ControlRun(o, action)
        PROVE  LC!Next \/ UNCHANGED LC!vars
    <3> DEFINE r == desk[o].run
    <3>1. r \in Runs
      BY <2>3 DEF ControlRun, IInv, LocalsMakeSense, OperatorKnows
    <3>2. CASE VersionMatches(desk[o]) /\ ControlAllowed(run[r], action)
      <4>1. LC!Control(r, action)
        BY <3>2, <2>3, SameRows DEF ControlRun, OperatorSaves, LC!Control
      <4> QED BY <4>1, <3>1, SameRows DEF LC!Next
    <3>3. CASE ~(VersionMatches(desk[o]) /\ ControlAllowed(run[r], action))
      BY <3>3, <2>3, <1>1 DEF ControlRun
    <3> QED BY <3>2, <3>3
  <2> QED BY <2>1, <2>2, <2>3, <1>4 DEF OperatorStep
<1> QED BY <1>2, <1>3, <1>4 DEF Next

(* Workers, operators, crashes and transactions implement the lifecycle:    *)
(* every behaviour of the detailed specification is one of the abstract.    *)
THEOREM Implements == Spec => Lifecycle
<1>1. Init => LC!Init
  BY SameRows DEF Init, LC!Init
<1>2. IInv /\ [Next]_vars => [LC!Next]_LC!vars
  BY NextImplements
<1> QED BY <1>1, <1>2, Invariance, PTL DEF Spec, LC!Spec, Lifecycle

(* A position is opened only in a run that is running when it commits.      *)
THEOREM EntriesWhileRunning == Spec => EntriesOnlyWhileRunning
<1>1. ASSUME IInv, [Next]_vars, NEW r \in Runs, run[r].position = 0, run'[r].position # 0
      PROVE  run[r].status = "running"
  <2>1. run \in [Runs -> Row]
    BY <1>1 DEF IInv, TypeOK
  <2>2. PICK q \in Runs :
          \/ \E start \in 0..MaxBar : LC!Create(q, start)
          \/ \E action \in Actions : LC!Control(q, action)
          \/ LC!Fault(q)
          \/ \E b \in Bars, o \in Outcomes : LC!Process(q, b, o)
    BY <1>1, NextImplements, SameRows DEF LC!Next, LC!vars
  <2>3. ASSUME NEW start \in 0..MaxBar, LC!Create(q, start) PROVE FALSE
    <3>1. run' = [run EXCEPT ![q] = CreatedRow(start)]
      BY <2>3, SameRows DEF LC!Create
    <3>2. CreatedRow(start).position = 0
      BY DEF CreatedRow, NoRow
    <3> QED BY <1>1, <2>1, <3>1, <3>2
  <2>4. ASSUME NEW action \in Actions, LC!Control(q, action) PROVE FALSE
    <3>1. run' = [run EXCEPT ![q] = ControlledRow(run[q], action)]
      BY <2>4, SameRows DEF LC!Control
    <3>2. ControlledRow(run[q], action).position = run[q].position
      BY <2>1 DEF ControlledRow, Row
    <3> QED BY <1>1, <2>1, <3>1, <3>2
  <2>5. CASE LC!Fault(q)
    BY <1>1, <2>1, <2>5, SameRows DEF LC!Fault, FaultedRow, Row
  <2>6. ASSUME NEW b \in Bars, NEW o \in Outcomes, LC!Process(q, b, o)
        PROVE  run[r].status = "running"
    <3>1. run' = [run EXCEPT ![q] = ProcessedRow(run[q], b, o)] /\ Possible(run[q], o, FALSE)
      BY <2>6, SameRows DEF LC!Process
    <3>2. q = r /\ PositionAfter(run[r], b, o) # 0
      BY <1>1, <2>1, <3>1 DEF ProcessedRow
    <3>3. o.enter
      BY <1>1, <3>2 DEF PositionAfter, Held
    <3> QED BY <3>1, <3>2, <3>3 DEF Possible, LooksForEntry
  <2> QED BY <2>2, <2>3, <2>4, <2>5, <2>6
<1>2. IInv /\ [Next]_vars =>
        [\A r \in Runs :
           run[r].position = 0 /\ run'[r].position # 0 => run[r].status = "running"]_vars
  BY <1>1
<1> QED BY <1>2, Invariance, PTL DEF Spec, EntriesOnlyWhileRunning

(* An operator's change applies to the very row the dashboard showed.       *)
THEOREM OperatorsSeeRows == Spec => OperatorsChangeWhatTheySaw
<1>1. ASSUME IInv, [Next]_vars, NEW o \in Operators,
             desk[o].mode = "control", desk'[o].mode = "idle", run' # run
      PROVE  run[desk[o].run] = desk[o].row
  <2>1. desk \in [Operators -> Desk]
    BY <1>1 DEF IInv, TypeOK
  <2>2. \A r \in Runs : StaleDesk(r)[o].mode = "control"
    BY <1>1, <2>1 DEF StaleDesk, Desk
  <2>3. ASSUME NEW w \in Workers, BarSave(w) \/ FaultSave(w) PROVE FALSE
    <3>1. work[w].run \in Runs
      BY <1>1, <2>3 DEF BarSave, FaultSave, IInv, LocalsMakeSense, WorkerKnows
    <3>2. desk' = StaleDesk(work[w].run)
      BY <1>1, <2>3 DEF BarSave, FaultSave, WorkerSaves, Conflicts, Ends
    <3> QED BY <1>1, <2>2, <3>1, <3>2
  <2>4. ASSUME NEW w \in Workers, WorkerStep(w) \/ PollFails(w) \/ Crash(w) PROVE FALSE
    <3>1. CASE \/ (\E r \in Runs : PollRow(w, r)) \/ BarRead(w)
               \/ PollFails(w) \/ Restart(w) \/ Crash(w)
      BY <3>1, <1>1 DEF PollRow, BarRead, PollFails, Restart, Crash, Becomes, database
    <3>2. CASE PollMarket(w)
      BY <3>2, <1>1 DEF PollMarket, Becomes, database
    <3> QED BY <3>1, <3>2, <2>3, <2>4 DEF WorkerStep
  <2>5. PICK p \in Operators : OperatorStep(p)
    BY <1>1, <2>4 DEF Next, CloseBar, NinetySecondsPass, vars, database
  <2>6. ASSUME NEW r \in Runs, NEW row, OperatorSaves(p, r, row) PROVE p = o
    <3>1. desk' = [StaleDesk(r) EXCEPT ![p] = IdleDesk]
      BY <2>6 DEF OperatorSaves
    <3> QED BY <1>1, <2>2, <3>1 DEF StaleDesk
  <2>7. ASSUME NEW r \in Runs, NEW start \in Starts, CreateInsert(p, r, start) PROVE FALSE
    <3>1. OperatorSaves(p, r, CreatedRow(start)) /\ desk[p].mode = "create"
      BY <1>1, <2>7 DEF CreateInsert
    <3> QED BY <3>1, <2>6, <1>1
  <2>8. PICK action \in Actions : ControlRun(p, action)
    BY <1>1, <2>5, <2>7 DEF OperatorStep, CreateCheck, View, database
  <2>9. /\ VersionMatches(desk[p])
        /\ OperatorSaves(p, desk[p].run, ControlledRow(run[desk[p].run], action))
        /\ desk[p].run \in Runs
    BY <1>1, <2>8 DEF ControlRun, IInv, LocalsMakeSense, OperatorKnows
  <2>10. p = o
    BY <2>9, <2>6
  <2> QED BY <2>9, <2>10, <1>1 DEF VersionMatches, IInv, SnapshotsAreRows
<1>2. IInv /\ [Next]_vars =>
        [\A o \in Operators :
           desk[o].mode = "control" /\ desk'[o].mode = "idle" /\ run' # run
             => run[desk[o].run] = desk[o].row]_vars
  BY <1>1
<1> QED BY <1>2, Invariance, PTL DEF Spec, OperatorsChangeWhatTheySaw

=============================================================================
