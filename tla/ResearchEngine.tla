--------------------------- MODULE ResearchEngine ---------------------------
(***************************************************************************)
(* The bar loop of _run_backtest (backtesting/engine.py): the simulation    *)
(* research results come from.  It walks the same bars as a paper run, one  *)
(* iteration a step; the strategy and the risk engine are inputs, as in     *)
(* PaperAccount.  The loop and PaperAccount are written from two separate   *)
(* pieces of code; PaperResearch lets them walk the same bars.              *)
(***************************************************************************)
EXTENDS BarRules

CONSTANTS Expiry, Leverage, StartCash, ReserveUnits, NoSetup

VARIABLES
    market,     \* the next bar: its candle and funding rate
    sim         \* the locals of the loop

vars == <<market, sim>>

NoBar == [candle |-> [open |-> 0, high |-> 0, low |-> 0, close |-> 0],
          funding |-> [at |-> "never", pays |-> 0]]

NoOpen == [setup |-> NoSetup, quantity |-> 0, price |-> 0, fee |-> 0, entered |-> 0,
           held |-> 0, funding |-> 0]

Start == [bar |-> 0, cash |-> StartCash, peak |-> StartCash, equity |-> StartCash,
          realized |-> 0, pending |-> NoSetup, open |-> NoOpen, halted |-> FALSE]

Init == market = NoBar /\ sim = Start

Occupied == sim.open.quantity # 0

(* Funding up to the open of the bar was due while the position was         *)
(* certainly held, and is paid in full.                                     *)
OpeningPayment(funding) ==
    IF Occupied /\ funding.at = "open" THEN FundingPayment(sim.open, funding.pays) ELSE 0

Considered(b, offer) ==
    IF offer.against THEN NoSetup
    ELSE IF sim.pending # NoSetup THEN sim.pending
    ELSE IF offer.found = NoSetup THEN NoSetup
    ELSE [offer.found EXCEPT !.from = b, !.until = b + Expiry]

EntryOf(c, b, offer) ==
    IF ~Occupied /\ Considered(b, offer) # NoSetup
    THEN EntryStatus(Considered(b, offer), c, b)
    ELSE "none"

Opened(c, b, offer) ==
    LET setup == Considered(b, offer)
        price == AdverseFill(EntryPrice(setup, c), setup.long)
    IN  [setup |-> setup, quantity |-> offer.quantity, price |-> price,
         fee |-> Fee(offer.quantity, price, FeeUnits), entered |-> b, held |-> 0, funding |-> 0]

FitsMargin(position) ==
    Unit * (Unit * position.quantity * position.price + Leverage * position.fee)
        <= Leverage * sim.cash * (Unit - ReserveUnits)

Opens(c, b, offer) ==
    /\ EntryOf(c, b, offer) = "triggered"
    /\ offer.quantity # 0
    /\ FitsMargin(Opened(c, b, offer))

PendingAfter(c, b, offer) ==
    IF Occupied THEN sim.pending
    ELSE IF EntryOf(c, b, offer) = "pending" THEN Considered(b, offer)
    ELSE NoSetup

(* The position through the bar, from the cash before its own funding; the  *)
(* rates at the open have been consumed.                                    *)
Through(position, c, b, funding, cash) ==
    LET exit == Exit(position.setup, c, position.held, position.entered = b)
        amount == IF funding.at = "inside" THEN FundingPayment(position, funding.pays) ELSE 0
        ambiguous == \/ position.entered = b
                     \/ exit.reason \in {"stop", "target"}
                     \/ Liquidated(position, c, cash)
        paid == IF ambiguous THEN Lower(0, amount) ELSE amount
        liquidated == Liquidated(position, c, cash + paid)
        price == IF liquidated THEN Worst(position.setup, c) ELSE exit.price
    IN  [paid |-> paid,
         liquidated |-> liquidated,
         closed |-> liquidated \/ exit.reason # "none",
         fee |-> ExitFee(position, price, liquidated),
         gross |-> Gross(position, price)]

(* One iteration, of a bar that is not the last of the range: there a       *)
(* position still open would be closed for accounting.                      *)
Iterate(offer) ==
    LET c == market.candle
        b == sim.bar + 1
        opening == OpeningPayment(market.funding)
        carried == [sim.open EXCEPT !.funding = @ + opening]
        marked == sim.cash + opening + Pnl(carried, c.open)
        opens == Opens(c, b, offer)
        position == [(IF opens THEN Opened(c, b, offer) ELSE carried) EXCEPT !.held = @ + 1]
        open == position.quantity # 0
        cash == sim.cash + opening - (IF opens THEN position.fee ELSE 0)
        t == IF open THEN Through(position, c, b, market.funding, cash)
             ELSE [paid |-> 0, liquidated |-> FALSE, closed |-> FALSE, fee |-> 0, gross |-> 0]
        after == IF open /\ ~t.closed THEN [position EXCEPT !.funding = @ + t.paid] ELSE NoOpen
        cashAfter == cash + t.paid + (IF t.closed THEN t.gross - t.fee ELSE 0)
        equity == cashAfter + Pnl(after, c.close)
    IN  /\ market # NoBar
        /\ ~sim.halted
        /\ market' = NoBar
        /\ IF ~Occupied /\ sim.cash <= 0
           THEN sim' = [sim EXCEPT !.halted = TRUE]
           ELSE sim' = [bar |-> b,
                        cash |-> cashAfter,
                        peak |-> Higher(Higher(sim.peak, marked), equity),
                        equity |-> equity,
                        realized |-> sim.realized
                           + (IF t.closed THEN t.gross - position.fee - t.fee
                                                 + position.funding + t.paid ELSE 0),
                        pending |-> PendingAfter(c, b, offer),
                        open |-> after,
                        halted |-> t.liquidated \/ cashAfter <= 0]
=============================================================================
