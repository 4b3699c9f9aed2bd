-------------------------- MODULE PortfolioAccount --------------------------
(***************************************************************************)
(* A portfolio run: process_portfolio_bar of execution/portfolio.py on a    *)
(* batch of hourly bars, one for every configured symbol.  The symbols      *)
(* enter in their order, each sized by the risk engine on what the earlier  *)
(* ones left; then all held positions are charged funding, the account is   *)
(* stress tested as a whole, and positions leave.  The loop keeps its       *)
(* locals to itself: the row changes once, at the end of the batch.  What   *)
(* others do to the row meanwhile makes the save fail (PaperWorker), so     *)
(* nothing of it is left to see here.                                       *)
(*                                                                         *)
(* As in PaperAccount, the strategy and the clock are inputs of a bar; the  *)
(* risk engine is RiskSizing.                                               *)
(***************************************************************************)
EXTENDS RiskSizing, PaperRow, Functions, Sequences

CONSTANTS
    Order,          \* the configured symbols, in alphabetical order
    RulesOf,        \* RulesOf[s]: exchange rules of a symbol
    RiskPolicy,     \* the risk policy the run was created with
    LeverageOf,     \* LeverageOf[s]
    MaxLeverage,    \* the exchange limit assumed for simulations
    StartCash,      \* starting_balance
    Expiry,         \* entry_expiry_bars
    DayStarts,      \* the bars that are the first of a local day
    SetupOf,        \* SetupOf[s][side]: the setup the strategy can find
    Batches,        \* [Symbols -> candles and funding] the market can show
    Offers          \* what the strategy, the risk engine and the clock can say

Symbols == Range(Order)

Setup == [long : BOOLEAN, entry : Nat, stop : Nat, target : Nat, from : Nat, until : Nat,
          hold : Nat]
NoSetup == [long |-> FALSE, entry |-> 0, stop |-> 0, target |-> 0, from |-> 0, until |-> 0,
            hold |-> 0]
Candle == [open : Nat, high : Nat, low : Nat, close : Nat]

(* Of a symbol's bar: its candle, and the rate of its funding, settled at   *)
(* the open or inside.                                                      *)
SymbolBar == [candle : Candle, at : {"open", "inside"}, pays : Int]

(* An offer: the market direction, the symbols the strategy finds a setup   *)
(* for, the symbols whose setup rejects the fill it gets (its own reward    *)
(* checks), and whether the batch is late.                                  *)
Offer == [direction : {"long", "short", "neutral"}, found : SUBSET Symbols,
          rejected : SUBSET Symbols, late : BOOLEAN]

ASSUME PortfolioAssumption ==
    /\ Order \in Seq(Symbols)
    /\ \A i, j \in DOMAIN Order : Order[i] = Order[j] => i = j
    /\ RulesOf \in [Symbols -> Rules]
    /\ RiskPolicy \in Policy
    /\ LeverageOf \in [Symbols -> {n \in 1..Unit : Unit % n = 0}]    \* margins are whole
    /\ MaxLeverage \in Nat \ {0}
    /\ StartCash \in Nat \ {0}
    /\ Expiry \in Nat
    /\ DayStarts \subseteq Bars
    /\ SetupOf \in [Symbols -> [{"long", "short"} -> Setup \ {NoSetup}]]
    /\ Batches \subseteq [Symbols -> SymbolBar]
    /\ \A bars \in Batches, s \in Symbols : Validated(bars[s].candle)
    /\ Offers \subseteq Offer

VARIABLES
    batch,      \* the next bars, once every symbol has its own
    account,    \* the paper_runs row
    loop        \* the locals of process_portfolio_bar

vars == <<batch, account, loop>>

NoBatch == [s \in Symbols |-> [candle |-> [open |-> 0, high |-> 0, low |-> 0, close |-> 0],
                               at |-> "open", pays |-> 0]]

\* No position is a position of quantity 0; risk is its estimated_stop_loss.
NoPosition == [setup |-> NoSetup, quantity |-> 0, price |-> 0, fee |-> 0, entered |-> 0,
               held |-> 0, funding |-> 0, leverage |-> 1, risk |-> 0]
Position == [setup : Setup, quantity : Nat, price : Int, fee : Int, entered : 0..MaxBar,
             held : Nat, funding : Int, leverage : Nat \ {0}, risk : Int]
Account == [status : Statuses \cup {"absent"}, last : 0..MaxBar, cash : Int, realized : Int,
            equity : Int, peak : Int, dayOpen : Int, fault : BOOLEAN,
            pendings : [Symbols -> Setup], positions : [Symbols -> Position]]

NoOffer == [direction |-> "neutral", found |-> {}, rejected |-> {}, late |-> FALSE]

\* next: the position in Order of the symbol to enter next; 0: no batch is processed.
Loop == [next : 0..Len(Order) + 1, cash : Int, peak : Int, dayOpen : Int, offer : Offer,
         pendings : [Symbols -> Setup], positions : [Symbols -> Position]]
Idle == [next |-> 0, cash |-> 0, peak |-> 0, dayOpen |-> 0, offer |-> NoOffer,
         pendings |-> [s \in Symbols |-> NoSetup], positions |-> [s \in Symbols |-> NoPosition]]

Init ==
    /\ batch = NoBatch
    /\ loop = Idle
    /\ account = [status |-> "absent", last |-> 0, cash |-> StartCash, realized |-> 0,
                  equity |-> StartCash, peak |-> StartCash, dayOpen |-> StartCash,
                  fault |-> FALSE,
                  pendings |-> [s \in Symbols |-> NoSetup],
                  positions |-> [s \in Symbols |-> NoPosition]]

Occupied(positions) == {s \in Symbols : positions[s].quantity # 0}

\* Positions are marked at a price each; one of quantity 0 counts for nothing.
MarkedAt(positions, price) ==
    SumFunction([s \in Symbols |-> Pnl(positions[s], price[s])])

Opens(bars) == [s \in Symbols |-> bars[s].candle.open]
Closes(bars) == [s \in Symbols |-> bars[s].candle.close]
Extremes(positions, bars) ==
    [s \in Symbols |-> Worst(positions[s].setup, bars[s].candle)]

\* Bug: the checkpoint skips a bar.
SkipsABar == account.last + 2

\* The batch after the last one processed.
ThisBar == account.last + 1

-----------------------------------------------------------------------------
(* What an entry is sized on: st is the account as the earlier entries of   *)
(* the bar left it.                                                         *)

Margin(p) == p.quantity * p.price * (Unit \div p.leverage)

\* Bug: the margin of the bar's earlier entries is not counted.
MarginBefore(st, b) ==
    SumFunction([s \in Symbols |->
        IF st.positions[s].entered = b THEN 0 ELSE Margin(st.positions[s])])

MarginUsed(st, b) == SumFunction([s \in Symbols |-> Margin(st.positions[s])])

\* The open risk of a position: what it was sized to lose, or what it loses
\* from the open of the bar to its stop, whichever is more.
StopFillOf(p) == AdverseFill(p.setup.stop, ~p.setup.long)
LossAtStop(p, price) ==
    p.quantity * (Unit * (IF p.setup.long THEN price - StopFillOf(p) ELSE StopFillOf(p) - price)
                    + FeeUnits * StopFillOf(p))

\* Bug: what a position may give back of its profit is no risk.
SizedRisk(p, bar) == p.risk

OpenRisk(p, bar) == Higher(p.risk, LossAtStop(p, bar.candle.open))

AggregateRisk(st, bars) ==
    SumFunction([s \in Symbols |->
        IF s \in Occupied(st.positions) THEN OpenRisk(st.positions[s], bars[s]) ELSE 0])

FundsOf(st, b, bars) ==
    [available |-> Higher(0, st.cash - MarginUsed(st, b)),
     equity |-> Higher(0, st.cash + MarkedAt(st.positions, Opens(bars))),
     exposure |-> SumFunction([s \in Symbols |->
                      Unit * st.positions[s].quantity * bars[s].candle.open])]

StandingOf(st, bars) ==
    LET equity == st.cash + MarkedAt(st.positions, Opens(bars))
        risk == AggregateRisk(st, bars)
    IN  [open |-> Cardinality(Occupied(st.positions)), risk |-> risk,
         loss |-> Higher(0, st.dayOpen - equity) + risk,
         peak |-> st.peak, equity |-> equity, healthy |-> TRUE]

RequestFor(s, setup, price) ==
    [long |-> setup.long, entry |-> price, stop |-> setup.stop, target |-> setup.target,
     leverage |-> LeverageOf[s], maxLeverage |-> MaxLeverage, bracket |-> 0]

-----------------------------------------------------------------------------
(* The entry of one symbol on bar b.                                        *)

SideOf(setup) == IF setup.long THEN "long" ELSE "short"

Sought(st, s, b, offer) ==
    IF st.pendings[s] # NoSetup THEN st.pendings[s]
    ELSE IF s \in offer.found
    THEN [SetupOf[s][offer.direction] EXCEPT !.from = b, !.until = b + Expiry]
    ELSE NoSetup

\* Only a running run looks, and only for a symbol it did not hold before the
\* bar, in the direction of the market.
Seeks(st, s, b, offer) ==
    /\ account.status = "running"
    /\ s \notin Occupied(account.positions)
    /\ Sought(st, s, b, offer) # NoSetup
    /\ SideOf(Sought(st, s, b, offer)) = offer.direction

TriggerOf(st, s, b, bars, offer) ==
    IF Seeks(st, s, b, offer)
    THEN EntryStatus(Sought(st, s, b, offer), bars[s].candle, b)
    ELSE "none"

\* Bug: the setup stays pending when it has triggered.
KeepsTriggered(st, s, b, bars, offer) ==
    IF TriggerOf(st, s, b, bars, offer) \in {"pending", "triggered"}
    THEN Sought(st, s, b, offer) ELSE NoSetup

PendingOf(st, s, b, bars, offer) ==
    IF TriggerOf(st, s, b, bars, offer) = "pending" THEN Sought(st, s, b, offer) ELSE NoSetup

\* The position a triggered setup would open; quantity 0 when it is denied.
Filled(st, s, b, bars, offer) ==
    LET setup == Sought(st, s, b, offer)
        price == AdverseFill(EntryPrice(setup, bars[s].candle), setup.long)
        request == RequestFor(s, setup, price)
        quantity == SizePosition(request, FundsOf(st, b, bars), StandingOf(st, bars),
                                 RiskPolicy, RulesOf[s])
    IN  [setup |-> setup, quantity |-> quantity, price |-> price,
         fee |-> Fee(quantity, price, FeeUnits), entered |-> b, held |-> 0, funding |-> 0,
         leverage |-> LeverageOf[s], risk |-> quantity * UnitLoss(request)]

\* Margin and fee fit into what the margin reserve leaves of the free cash.
Affordable(st, b, position) ==
    Unit * (Margin(position) + position.fee)
        <= (st.cash - MarginUsed(st, b)) * (Unit - RiskPolicy.reserve)

EntryAllowed(st, s, b, bars, offer, position) ==
    /\ TriggerOf(st, s, b, bars, offer) = "triggered"
    /\ position.quantity # 0
    /\ s \notin offer.rejected
    /\ ~offer.late
    /\ Affordable(st, b, position)

(* An iteration of the loop over the symbols.                               *)
EnterSymbol ==
    LET s == Order[loop.next]
        b == ThisBar
        position == Filled(loop, s, b, batch, loop.offer)
        enters == EntryAllowed(loop, s, b, batch, loop.offer, position)
    IN  /\ loop.next \in DOMAIN Order
        /\ loop' = [loop EXCEPT
              !.next = @ + 1,
              !.pendings[s] = PendingOf(loop, s, b, batch, loop.offer),
              !.positions[s] = IF enters THEN position ELSE @,
              !.cash = IF enters THEN @ - position.fee ELSE @]
        /\ UNCHANGED <<batch, account>>

(* The batch is taken up: the day, and the peak at the opens.               *)
StartBar(offer) ==
    /\ batch # NoBatch
    /\ loop = Idle
    /\ account.status \in Processing
    /\ loop' = [next |-> 1, cash |-> account.cash,
                 peak |-> Higher(account.peak,
                                 account.cash + MarkedAt(account.positions, Opens(batch))),
                 dayOpen |-> IF ThisBar \in DayStarts THEN account.equity
                             ELSE account.dayOpen,
                 offer |-> offer, pendings |-> account.pendings,
                 positions |-> account.positions]
    /\ UNCHANGED <<batch, account>>

-----------------------------------------------------------------------------
(* Funding and exits of the positions held through bar b.                   *)

ExitOf(p, bar, b) == Exit(p.setup, bar.candle, p.held, p.entered = b)

\* Debits count in doubt, credits do not; the open of the entry bar was before
\* the entry.
PaidOn(p, bar, b) ==
    LET amount == FundingPayment(p, bar.pays)
    IN  IF bar.at = "open" /\ p.entered = b THEN 0
        ELSE IF p.entered = b \/ ExitOf(p, bar, b).reason # "none" THEN Lower(0, amount)
        ELSE amount

Credit(paid) == Higher(0, paid)

\* Bug: credits of the bar count for the stress test.
CountsCredits(positions, bars, cash, credits) ==
    /\ Occupied(positions) # {}
    /\ cash + MarkedAt(positions, Extremes(positions, bars))
         <= SumFunction([s \in Symbols |->
                Fee(positions[s].quantity, Extremes(positions, bars)[s], MaintenanceUnits)])

(* The account at the worst price of every symbol at once, credits left out.*)
Stressed(positions, bars, cash, credits) ==
    /\ Occupied(positions) # {}
    /\ cash - credits + MarkedAt(positions, Extremes(positions, bars))
         <= SumFunction([s \in Symbols |->
                Fee(positions[s].quantity, Extremes(positions, bars)[s], MaintenanceUnits)])

\* Bug: a liquidation takes the credits from the cash only.
KeepsCredits(p, paid, liquidated) == [p EXCEPT !.funding = @ + paid]

\* A liquidation takes the credits of its bar back.
Funded(p, paid, liquidated) ==
    [p EXCEPT !.funding = @ + IF liquidated THEN Lower(0, paid) ELSE paid]

HeldThrough(p) == IF p.quantity = 0 THEN p ELSE [p EXCEPT !.held = @ + 1]

(* The rest of the batch and its save.                                      *)
EndBar ==
    LET a == account
        b == ThisBar
        held == [s \in Symbols |-> HeldThrough(loop.positions[s])]
        paid == [s \in Symbols |-> PaidOn(held[s], batch[s], b)]
        credits == SumFunction([s \in Symbols |-> Credit(paid[s])])
        cash == loop.cash + SumFunction(paid)
        liquidated == Stressed(held, batch, cash, credits)
        funded == [s \in Symbols |-> Funded(held[s], paid[s], liquidated)]
        exit == [s \in Symbols |-> ExitOf(funded[s], batch[s], b)]
        closed == {s \in Occupied(funded) : liquidated \/ exit[s].reason # "none"}
        price == [s \in Symbols |-> IF liquidated THEN Extremes(funded, batch)[s]
                                    ELSE exit[s].price]
        fee == [s \in Symbols |-> ExitFee(funded[s], price[s], liquidated)]
        gross == [s \in Symbols |-> Gross(funded[s], price[s])]
        net == [s \in Symbols |-> gross[s] - funded[s].fee - fee[s] + funded[s].funding]
        positions == [s \in Symbols |-> IF s \in closed THEN NoPosition ELSE funded[s]]
        cashAfter == cash - (IF liquidated THEN credits ELSE 0)
                       + SumFunctionOnSet([s \in Symbols |-> gross[s] - fee[s]], closed)
        equity == cashAfter + MarkedAt(positions, Closes(batch))
        status == IF liquidated \/ cashAfter <= 0 THEN "faulted"
                  ELSE IF a.status = "stopping" /\ Occupied(positions) = {} THEN "stopped"
                  ELSE a.status
    IN  /\ loop.next = Len(Order) + 1
        /\ account' =
             [status |-> status,
              last |-> b,
              cash |-> cashAfter,
              realized |-> a.realized + SumFunctionOnSet(net, closed),
              equity |-> equity,
              peak |-> Higher(loop.peak, equity),
              dayOpen |-> loop.dayOpen,
              fault |-> status = "faulted",
              pendings |-> IF status = "running" THEN loop.pendings
                           ELSE [s \in Symbols |-> NoSetup],
              positions |-> positions]
        /\ batch' = NoBatch
        /\ loop' = Idle

-----------------------------------------------------------------------------
(* What else happens to the run.                                            *)

\* The row of PaperRow: it holds a position when it holds any.
RowOf(a) == [status |-> a.status, last |-> a.last,
             pending |-> \E s \in Symbols : a.pendings[s] # NoSetup,
             position |-> IF Occupied(a.positions) = {} THEN 0
                          ELSE a.positions[CHOOSE s \in Occupied(a.positions) : TRUE].entered,
             fault |-> a.fault]

Create ==
    /\ loop = Idle
    /\ account.status = "absent"
    /\ account' = [account EXCEPT !.status = "paused"]
    /\ UNCHANGED <<batch, loop>>

Control(action) ==
    /\ loop = Idle
    /\ ControlAllowed(RowOf(account), action)
    /\ account' = [account EXCEPT !.status = ControlStatus(RowOf(account), action),
                                  !.fault = action # "recover" /\ @,
                                  !.pendings = [s \in Symbols |-> NoSetup]]
    /\ UNCHANGED <<batch, loop>>

Fault ==
    /\ loop = Idle
    /\ account.status \in Processing
    /\ account' = [account EXCEPT !.status = "faulted", !.fault = TRUE,
                                  !.pendings = [s \in Symbols |-> NoSetup]]
    /\ UNCHANGED <<batch, loop>>

\* An hour closes, for every symbol at once.
CloseBatch(bars) ==
    /\ batch = NoBatch
    /\ account.status \in Processing
    /\ account.last < MaxBar
    /\ batch' = bars
    /\ UNCHANGED <<account, loop>>

Next ==
    \/ Create
    \/ \E action \in Actions : Control(action)
    \/ Fault
    \/ \E bars \in Batches : CloseBatch(bars)
    \/ \E offer \in IF account.status = "running" THEN Offers ELSE {NoOffer} : StartBar(offer)
    \/ EnterSymbol
    \/ EndBar

Spec == Init /\ [][Next]_vars

-----------------------------------------------------------------------------
TypeOK ==
    /\ batch \in Batches \cup {NoBatch}
    /\ account \in Account
    /\ loop \in Loop

(* Whatever the positions do to the cash they share, it is the starting     *)
(* balance, the results realized, and the fees and funding of what is open, *)
(* also when a liquidation takes back the credits of its bar.               *)
CashIsExplained ==
    account.cash = StartCash + account.realized
        + SumFunction([s \in Symbols |->
              account.positions[s].funding - account.positions[s].fee])

(* The risk the open positions were sized for stays within the aggregate    *)
(* limit, and their number within theirs, though several symbols enter on   *)
(* one bar and each is sized on its own.                                    *)
RiskIsLimited ==
    /\ SumFunction([s \in Symbols |-> account.positions[s].risk]) <= RiskPolicy.aggregate
    /\ Cardinality(Occupied(account.positions)) <= RiskPolicy.positions

(* A setup waits only in a running run and for a symbol that is not held.   *)
PendingsAreLive ==
    \A s \in Symbols : account.pendings[s] # NoSetup =>
        account.status = "running" /\ account.positions[s] = NoPosition

Processed == account'.last # account.last

\* The symbols entered on the bar and still held after it.
Newly == {s \in Symbols : account'.positions[s].entered = account'.last}

(* "Exits later in this bar cannot fund new entries": all entries of a bar  *)
(* and what was held before it fit into the cash before the bar.            *)
EntriesNeverSpendExits ==
    [][Processed /\ Newly # {} =>
         SumFunction([s \in Symbols |-> Margin(account.positions[s])])
           + SumFunctionOnSet([s \in Symbols |-> Margin(account'.positions[s])
                                                   + account'.positions[s].fee], Newly)
         <= account.cash]_vars

(* No credit of a bar counts against its stress test: when an account that  *)
(* is paused or stopping, charged the debits alone, does not stand the      *)
(* worst prices of all symbols at once, every position goes.  (A running    *)
(* account may enter on the bar, and then the test covers positions that it *)
(* did not hold before.)                                                    *)
CreditsNeverSave ==
    [][Processed /\ account.status # "running"
         /\ Stressed(account.positions, batch,
              account.cash + SumFunction([s \in Symbols |->
                  Lower(0, FundingPayment(account.positions[s], batch[s].pays))]), 0)
       => account'.status = "faulted" /\ Occupied(account'.positions) = {}]_vars

EquityAtStops(a) ==
    a.cash + SumFunction([s \in Symbols |->
        LET p == a.positions[s] IN Pnl(p, StopFillOf(p)) - Fee(p.quantity, StopFillOf(p), FeeUnits)])

\* The bar opens beyond the stop of a position held before it.
Gapped ==
    \E s \in Occupied(account.positions) :
        LET p == account.positions[s]
        IN  IF p.setup.long THEN batch[s].candle.open < p.setup.stop
                            ELSE batch[s].candle.open > p.setup.stop

(* An entry is only made when the loss of the day stays within its limit    *)
(* even if every position, old and new, then goes to its stop: profits not  *)
(* yet taken are no budget.  Funding, gaps and liquidation aside, this is   *)
(* so however the positions leave on that bar.                              *)
LossesAreBudgeted ==
    [][Processed /\ Newly # {} /\ account'.status # "faulted" /\ ~Gapped
         /\ (\A s \in Symbols : batch[s].pays = 0)
       => account'.dayOpen - EquityAtStops(account') <= RiskPolicy.daily]_vars
=============================================================================
