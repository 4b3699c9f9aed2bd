------------------------------ MODULE BarRules ------------------------------
(***************************************************************************)
(* How one closed bar is read: entry triggers and protective exits          *)
(* (strategy/lifecycle.py), adverse fills (strategy/pullback.py) and the    *)
(* arithmetic paper trading and the research engine share.                  *)
(*                                                                         *)
(* Prices are counted in ticks.  Money is counted in ticks / Unit, so that  *)
(* a fraction of a value is a whole number of it: fee_fraction is           *)
(* FeeUnits / Unit, and so on.                                              *)
(***************************************************************************)
EXTENDS Integers

CONSTANTS
    Unit,
    FeeUnits,           \* fee_fraction
    SlipUnits,          \* slippage_fraction
    MaintenanceUnits,   \* maintenance_margin_fraction
    LiquidationUnits    \* liquidation_fee_fraction

ASSUME RulesAssumption ==
    /\ Unit \in Nat \ {0}
    /\ {FeeUnits, SlipUnits, LiquidationUnits} \subseteq 0..Unit
    /\ MaintenanceUnits \in 1..Unit

(* A setup: the side, the three prices, the bars from and until which it    *)
(* can enter, and the bars a position is held at most (0: no time stop).    *)
(* A candle: open, high, low, close.                                        *)

Lower(a, b) == IF a <= b THEN a ELSE b
Higher(a, b) == IF a <= b THEN b ELSE a

\* _validate_candles: other candles are refused before they are processed.
Validated(c) ==
    /\ 0 < c.low /\ c.low <= Lower(c.open, c.close)
    /\ Higher(c.open, c.close) <= c.high

(* adverse_fill_price: slippage, then rounding to the worse tick.           *)
AdverseFill(price, buy) ==
    IF buy THEN (price * (Unit + SlipUnits) + Unit - 1) \div Unit
           ELSE (price * (Unit - SlipUnits)) \div Unit

\* The adverse extreme of a bar, and whether it reaches a price on either side.
Worst(setup, c) == IF setup.long THEN c.low ELSE c.high
StopHit(setup, c) == IF setup.long THEN c.low <= setup.stop ELSE c.high >= setup.stop
TargetHit(setup, c) == IF setup.long THEN c.high >= setup.target ELSE c.low <= setup.target

-----------------------------------------------------------------------------
(* evaluate_entry on bar b.                                                 *)
Triggered(setup, c) == IF setup.long THEN c.high >= setup.entry ELSE c.low <= setup.entry

EntryStatus(setup, c, b) ==
    IF b < setup.from THEN "pending"
    ELSE IF b >= setup.until THEN "expired"
    ELSE IF Triggered(setup, c) THEN "triggered"
    ELSE IF StopHit(setup, c) THEN "invalidated"
    ELSE "pending"

EntryPrice(setup, c) ==
    IF setup.long THEN Higher(c.open, setup.entry) ELSE Lower(c.open, setup.entry)

(* evaluate_exit: the stop before the target, and the open of the bar as    *)
(* its price when it gapped through, except on the bar of the entry.        *)
StopPrice(setup, c, entered) ==
    IF entered THEN setup.stop
    ELSE IF setup.long THEN Lower(c.open, setup.stop) ELSE Higher(c.open, setup.stop)

\* Bug: the target before the stop.
TargetFirst(setup, c, held, entered) ==
    IF TargetHit(setup, c) THEN [reason |-> "target", price |-> setup.target]
    ELSE IF StopHit(setup, c)
    THEN [reason |-> "stop", price |-> StopPrice(setup, c, entered)]
    ELSE IF setup.hold # 0 /\ held >= setup.hold THEN [reason |-> "time", price |-> c.close]
    ELSE [reason |-> "none", price |-> 0]

Exit(setup, c, held, entered) ==
    IF StopHit(setup, c)
    THEN [reason |-> "stop", price |-> StopPrice(setup, c, entered)]
    ELSE IF TargetHit(setup, c) THEN [reason |-> "target", price |-> setup.target]
    ELSE IF setup.hold # 0 /\ held >= setup.hold THEN [reason |-> "time", price |-> c.close]
    ELSE [reason |-> "none", price |-> 0]

-----------------------------------------------------------------------------
(* Money.                                                                   *)

\* _pnl of a position at a price.
Pnl(position, price) ==
    Unit * position.quantity *
        (IF position.setup.long THEN price - position.price ELSE position.price - price)

Fee(quantity, price, units) == quantity * price * units

(* A funding rate pays `rate` a unit of quantity, from longs to shorts.     *)
FundingPayment(position, rate) ==
    position.quantity * (IF position.setup.long THEN -rate ELSE rate)

(* Adverse extreme, maintenance margin and the stress test of a bar: is the *)
(* account, with that much cash, liquidated at the worst price of the bar?  *)
Liquidated(position, c, cash) ==
    LET worst == Worst(position.setup, c)
    IN  cash + Pnl(position, worst) <= Fee(position.quantity, worst, MaintenanceUnits)

(* _exit bookings: the price filled, the fee and the gross result.          *)
ExitFill(position, price) == AdverseFill(price, ~position.setup.long)
ExitFee(position, price, liquidated) ==
    Fee(position.quantity, ExitFill(position, price),
        FeeUnits + (IF liquidated THEN LiquidationUnits ELSE 0))
Gross(position, price) == Pnl(position, ExitFill(position, price))
=============================================================================
