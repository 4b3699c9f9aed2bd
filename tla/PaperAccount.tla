---------------------------- MODULE PaperAccount ----------------------------
(***************************************************************************)
(* The money of one single-symbol paper run: what process_paper_bar of      *)
(* execution/paper.py makes of a closed bar, funding included, and the      *)
(* trades and fills it books.  The worker, the database and their races are *)
(* PaperWorker; here every operation is one step, and this module is shown  *)
(* to implement PaperLifecycle for its run, so that the outcomes of a bar   *)
(* PaperWorker chooses from are those the arithmetic below can produce.     *)
(*                                                                         *)
(* The strategy, the risk engine and the clock are inputs of a bar: which   *)
(* setup was found, whether the market direction is against it, the         *)
(* quantity the risk engine accepts (0: rejected), whether the bar is late. *)
(***************************************************************************)
EXTENDS BarRules, PaperRow

CONSTANTS
    Candles,        \* records [open, high, low, close]
    Rates,          \* what a funding rate can pay a unit of quantity
    Setups,         \* setups the strategy can find
    Expiry,         \* entry_expiry_bars
    Quantities,     \* quantities the risk engine can accept
    Leverage,
    StartCash,      \* starting_balance
    ReserveUnits    \* margin_reserve_fraction

Candle == [open : Nat, high : Nat, low : Nat, close : Nat]
Setup == [long : BOOLEAN, entry : Nat, stop : Nat, target : Nat, from : Nat, until : Nat,
          hold : Nat]
NoSetup == [long |-> FALSE, entry |-> 0, stop |-> 0, target |-> 0, from |-> 0, until |-> 0,
            hold |-> 0]

ASSUME AccountAssumption ==
    /\ Candles \subseteq Candle
    /\ \A c \in Candles : Validated(c)
    /\ Rates \subseteq Int
    /\ Setups \subseteq Setup \ {NoSetup}
    /\ Expiry \in Nat
    /\ Quantities \subseteq Nat \ {0}
    /\ Leverage \in Nat \ {0}
    /\ StartCash \in Nat \ {0}
    /\ ReserveUnits \in 0..Unit

VARIABLES
    market,     \* the next closed bar, once the exchange has it
    account,    \* the paper_runs row
    events,     \* the bars with a paper_events row
    ledger,     \* ledger[b]: the positions row entered on bar b
    booked      \* totals over the trades and the fills

vars == <<market, account, events, ledger, booked>>

(* A bar: its candle, and its funding rate if any.  Funding is settled at   *)
(* most once an hour, at the open of a bar or strictly inside it.           *)
Funding == [at : {"open", "inside"}, pays : Rates] \cup {[at |-> "never", pays |-> 0]}
NoBar == [candle |-> [open |-> 0, high |-> 0, low |-> 0, close |-> 0],
          funding |-> [at |-> "never", pays |-> 0]]

\* No position is a position of quantity 0.
NoPosition == [setup |-> NoSetup, quantity |-> 0, price |-> 0, fee |-> 0, entered |-> 0,
               held |-> 0, funding |-> 0]
Position == [setup : Setup, quantity : Nat, price : Int, fee : Int, entered : 0..MaxBar,
             held : Nat, funding : Int]
Account == [status : Statuses \cup {"absent"}, last : 0..MaxBar, cash : Int, realized : Int,
            equity : Int, peak : Int, pending : Setup, position : Position, fault : BOOLEAN]

NoAccount == [status |-> "absent", last |-> 0, cash |-> StartCash, realized |-> 0,
              equity |-> StartCash, peak |-> StartCash, pending |-> NoSetup,
              position |-> NoPosition, fault |-> FALSE]

Init ==
    /\ market = NoBar
    /\ account = NoAccount
    /\ events = {}
    /\ ledger = [b \in Bars |-> "none"]
    /\ booked = [gross |-> 0, fees |-> 0, funding |-> 0, commissions |-> 0]

\* The row of PaperRow.
RowOf(a) == [status |-> a.status, last |-> a.last, pending |-> a.pending # NoSetup,
             position |-> a.position.entered, fault |-> a.fault]

-----------------------------------------------------------------------------
(* The entry part of process_paper_bar, on bar b of account a.              *)

Looks(a) == a.status = "running" /\ a.position.quantity = 0

\* The setup looked at: the pending one, else a new one, unless the hourly
\* market direction is against it.
Considered(a, b, offer) ==
    IF offer.against THEN NoSetup
    ELSE IF a.pending # NoSetup THEN a.pending
    ELSE IF offer.found = NoSetup THEN NoSetup
    ELSE [offer.found EXCEPT !.from = b, !.until = b + Expiry]

StatusOf(a, c, b, offer) ==
    IF Looks(a) /\ Considered(a, b, offer) # NoSetup
    THEN EntryStatus(Considered(a, b, offer), c, b)
    ELSE "none"

Filled(a, c, b, offer) ==
    LET setup == Considered(a, b, offer)
        price == AdverseFill(EntryPrice(setup, c), setup.long)
    IN  [setup |-> setup, quantity |-> offer.quantity, price |-> price,
         fee |-> Fee(offer.quantity, price, FeeUnits), entered |-> b, held |-> 0, funding |-> 0]

\* Margin and fee fit into the cash that is not reserved.
Affordable(a, position) ==
    Unit * (Unit * position.quantity * position.price + Leverage * position.fee)
        <= Leverage * a.cash * (Unit - ReserveUnits)

Enters(a, c, b, offer) ==
    /\ StatusOf(a, c, b, offer) = "triggered"
    /\ offer.quantity # 0
    /\ Affordable(a, Filled(a, c, b, offer))
    /\ ~offer.late

\* Bug: the setup stays pending when it has triggered.
KeepsTriggered(a, c, b, offer) ==
    IF ~Looks(a) THEN a.pending
    ELSE IF StatusOf(a, c, b, offer) \in {"pending", "triggered"}
    THEN Considered(a, b, offer)
    ELSE NoSetup

PendingAfterBar(a, c, b, offer) ==
    IF ~Looks(a) THEN a.pending
    ELSE IF StatusOf(a, c, b, offer) = "pending" THEN Considered(a, b, offer)
    ELSE NoSetup

-----------------------------------------------------------------------------
(* The exit part, on the position held through the bar.                     *)

Holding(a, c, b, offer) ==
    LET position == IF Enters(a, c, b, offer) THEN Filled(a, c, b, offer) ELSE a.position
    IN  [position EXCEPT !.held = @ + 1]

ExitOf(position, c, b) == Exit(position.setup, c, position.held, position.entered = b)

\* Bug: liquidation does not make funding ambiguous.
TrustsCredits(position, c, b, cash) ==
    position.entered = b \/ ExitOf(position, c, b).reason \in {"stop", "target"}

(* Where within the bar the position was entered or left is unknown, so     *)
(* whether it was there for the funding is unknown too.                     *)
Ambiguous(position, c, b, cash) ==
    \/ position.entered = b
    \/ ExitOf(position, c, b).reason \in {"stop", "target"}
    \/ Liquidated(position, c, cash)

\* Debits count in doubt, credits do not, and the open of the entry bar was
\* before the entry.
Paid(position, c, b, funding, cash) ==
    LET amount == FundingPayment(position, funding.pays)
    IN  IF funding.at = "never" \/ (funding.at = "open" /\ position.entered = b) THEN 0
        ELSE IF Ambiguous(position, c, b, cash) THEN Lower(0, amount)
        ELSE amount

(* The bar of a position from the cash before it: funding, then the stress  *)
(* test, then the exit.                                                     *)
Settled(position, c, b, funding, cash) ==
    LET paid == Paid(position, c, b, funding, cash)
        liquidated == Liquidated(position, c, cash + paid)
        exit == ExitOf(position, c, b)
        price == IF liquidated THEN Worst(position.setup, c) ELSE exit.price
    IN  [paid |-> paid,
         liquidated |-> liquidated,
         closed |-> liquidated \/ exit.reason # "none",
         fee |-> ExitFee(position, price, liquidated),
         gross |-> Gross(position, price)]

\* Bug: the entry fee is charged again when the position closes.
ChargesTwice(cash, position, s) ==
    cash + s.paid + (IF s.closed THEN s.gross - s.fee - position.fee ELSE 0)

CashAfter(cash, position, s) ==
    cash + s.paid + (IF s.closed THEN s.gross - s.fee ELSE 0)

\* Bug: the funding of the last bar is left out of the result.
ForgetsFunding(position, s) == s.gross - position.fee - s.fee + position.funding

NetOf(position, s) == s.gross - position.fee - s.fee + position.funding + s.paid

PositionAfterBar(position, s) ==
    IF s.closed THEN NoPosition ELSE [position EXCEPT !.funding = @ + s.paid]

(* process_paper_bar on the next bar.                                       *)
Bar(offer) ==
    LET a == account
        c == market.candle
        b == a.last + 1
        enters == Enters(a, c, b, offer)
        holding == Holding(a, c, b, offer)
        open == holding.quantity # 0
        cash == IF enters THEN a.cash - holding.fee ELSE a.cash
        s == IF open THEN Settled(holding, c, b, market.funding, cash)
             ELSE [paid |-> 0, liquidated |-> FALSE, closed |-> FALSE, fee |-> 0, gross |-> 0]
        position == IF open THEN PositionAfterBar(holding, s) ELSE NoPosition
        cashAfter == CashAfter(cash, holding, s)
        equity == cashAfter + Pnl(position, c.close)
    IN  /\ market # NoBar
        /\ a.status \in Processing
        /\ market' = NoBar
        /\ account' =
             [status |-> IF s.liquidated THEN "faulted"
                         ELSE IF a.status = "stopping" /\ position.quantity = 0 THEN "stopped"
                         ELSE a.status,
              last |-> b,
              cash |-> cashAfter,
              realized |-> a.realized + (IF s.closed THEN NetOf(holding, s) ELSE 0),
              equity |-> equity,
              peak |-> Higher(a.peak, equity),
              pending |-> PendingAfterBar(a, c, b, offer),
              position |-> position,
              fault |-> s.liquidated]
        /\ events' = events \cup {b}
        /\ ledger' = [d \in Bars |-> IF open /\ d = holding.entered
                                     THEN IF s.closed THEN "closed" ELSE "open"
                                     ELSE ledger[d]]
        /\ booked' =
             [gross |-> booked.gross + (IF s.closed THEN s.gross ELSE 0),
              fees |-> booked.fees + (IF s.closed THEN holding.fee + s.fee ELSE 0),
              funding |-> booked.funding + (IF s.closed THEN holding.funding + s.paid ELSE 0),
              commissions |-> booked.commissions + (IF enters THEN holding.fee ELSE 0)
                                                 + (IF s.closed THEN s.fee ELSE 0)]

-----------------------------------------------------------------------------
(* What else happens to the run, as in PaperWorker.                         *)

Create ==
    /\ account.status = "absent"
    /\ account' = [account EXCEPT !.status = "paused"]
    /\ UNCHANGED <<market, events, ledger, booked>>

Control(action) ==
    /\ ControlAllowed(RowOf(account), action)
    /\ account' = [account EXCEPT !.status = ControlStatus(RowOf(account), action),
                                  !.fault = action # "recover" /\ @,
                                  !.pending = NoSetup]
    /\ UNCHANGED <<market, events, ledger, booked>>

Fault ==
    /\ account.status \in Processing
    /\ account' = [account EXCEPT !.status = "faulted", !.fault = TRUE, !.pending = NoSetup]
    /\ UNCHANGED <<market, events, ledger, booked>>

\* A bar closes.
CloseBar(c, funding) ==
    /\ market = NoBar
    /\ account.status \in Processing
    /\ account.last < MaxBar
    /\ market' = [candle |-> c, funding |-> funding]
    /\ UNCHANGED <<account, events, ledger, booked>>

(* What the strategy, the risk engine and the clock can offer.  An input    *)
(* the code does not come to ask for, as the setup is gone or the entry     *)
(* rejected by then, keeps its first value.                                 *)
NoOffer == [found |-> NoSetup, against |-> FALSE, quantity |-> 0, late |-> FALSE]
Offer == [found : Setups \cup {NoSetup}, against : {FALSE}, quantity : Quantities,
          late : BOOLEAN]
           \cup [found : Setups \cup {NoSetup}, against : {FALSE}, quantity : {0}, late : {FALSE}]
           \cup [found : {NoSetup}, against : {TRUE}, quantity : {0}, late : {FALSE}]

Next ==
    \/ Create
    \/ \E action \in Actions : Control(action)
    \/ Fault
    \/ \E c \in Candles, funding \in Funding : CloseBar(c, funding)
    \/ \E offer \in IF Looks(account) THEN Offer ELSE {NoOffer} : Bar(offer)

Spec == Init /\ [][Next]_vars

-----------------------------------------------------------------------------
TypeOK ==
    /\ market \in [candle : Candles \cup {NoBar.candle}, funding : Funding]
    /\ account \in Account
    /\ events \subseteq Bars
    /\ ledger \in [Bars -> {"none", "open", "closed"}]
    /\ booked \in [gross : Int, fees : Int, funding : Int, commissions : Int]

(* The cash is the starting balance, the results realized, and what the     *)
(* open position has paid so far: nothing is charged or credited twice or   *)
(* forgotten over any sequence of entries, funding, exits and liquidations. *)
CashIsExplained ==
    account.cash = StartCash + account.realized
                     + account.position.funding - account.position.fee

(* The trades and fills alone reproduce the cash of the run: the ledger     *)
(* written by _record_entry and _record_exit tells the same story.          *)
LedgerExplainsCash ==
    account.cash = StartCash + booked.gross - booked.commissions + booked.funding
                     + account.position.funding

(* A funding credit never saves a position from liquidation: when the       *)
(* account fails the stress test of the bar without it, the position goes.  *)
CreditsNeverSave ==
    [][account'.last # account.last /\ account.position.quantity # 0
         /\ Liquidated(account.position, market.candle, account.cash)
       => account'.status = "faulted" /\ account'.position = NoPosition]_vars

FundingSoFar == booked.funding + account.position.funding

(* Cash gains no funding on a bar on which the position is entered, leaves  *)
(* at its stop or target, or is liquidated: a bar does not tell what came   *)
(* first, the payment or the end of the position.                           *)
NoCreditInDoubt ==
    [][FundingSoFar' > FundingSoFar
         => /\ account.position.quantity # 0
            /\ ~StopHit(account.position.setup, market.candle)
            /\ ~TargetHit(account.position.setup, market.candle)
            /\ account'.status # "faulted"]_vars

(* When a bar reaches the stop, the trade is no better than its stop, even  *)
(* if the bar reaches the target too.                                       *)
StopsComeFirst ==
    [][account'.last # account.last /\ account.position.quantity # 0
         /\ StopHit(account.position.setup, market.candle)
       => /\ account'.position = NoPosition
          /\ booked'.gross - booked.gross
               <= Pnl(account.position, account.position.setup.stop)]_vars

(* backtesting/engine.py:487: "Intrabar entry/exit funding ambiguity        *)
(* charges debits but omits uncertain credits".  A payment due at the open  *)
(* of a bar to a position from an earlier bar is not uncertain.             *)
CertainFundingCounts ==
    [][account'.last # account.last /\ account.position.quantity # 0
         /\ market.funding.at = "open"
       => FundingSoFar' = FundingSoFar
                            + FundingPayment(account.position, market.funding.pays)]_vars

LC == INSTANCE PaperLifecycle
        WITH Runs <- {"run"},
             run <- [r \in {"run"} |-> RowOf(account)],
             events <- [r \in {"run"} |-> events],
             ledger <- [r \in {"run"} |-> ledger]

(* Whatever the prices, a bar has one of the outcomes the lifecycle allows. *)
Lifecycle == LC!Spec
=============================================================================
