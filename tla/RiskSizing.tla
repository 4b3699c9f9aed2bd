----------------------------- MODULE RiskSizing -----------------------------
(***************************************************************************)
(* size_position of risk/engine.py: whether an entry may be made and how    *)
(* large, within the limits of the risk policy.  "Size it without allowing  *)
(* leverage to raise risk": the quantity is cut by the loss at the stop     *)
(* first, and leverage only bounds it further.                              *)
(*                                                                         *)
(* Quantities count quantity steps, prices ticks, money ticks / Unit, and   *)
(* policy fractions are multiples of 1 / Unit, as in BarRules.  A quotient  *)
(* the code rounds down to the step at the end is rounded here at once: the *)
(* floor of the least is the least of the floors.                           *)
(***************************************************************************)
EXTENDS BarRules, FiniteSets

(* The policy: risk, reserve, drawdown, distance and reward are fractions;  *)
(* notional, exposure, aggregate and daily are money; positions a number.   *)
Policy == [basis : {"available", "equity"},
           risk : 1..Unit, reserve : 1..Unit, drawdown : 1..Unit, distance : 1..Unit,
           reward : Nat \ {0}, notional : Nat \ {0}, exposure : Nat \ {0},
           aggregate : Nat \ {0}, daily : Nat \ {0}, positions : Nat \ {0}]

\* Exchange rules of a symbol.
Rules == [minPrice : Nat, maxPrice : Nat, minQuantity : Nat, maxQuantity : Nat,
          minNotional : Nat]

(* A request: side, prices, leverage and its exchange limit, the notional   *)
(* of its leverage bracket (0: none given).  The account: available balance,*)
(* equity and exposure.  The state of the portfolio: open positions, the    *)
(* risk they carry, the loss of the day, peak and equity (for drawdown),    *)
(* and whether snapshots are fresh, connectivity and protection healthy.    *)
Request == [long : BOOLEAN, entry : Nat, stop : Nat, target : Nat,
            leverage : Nat \ {0}, maxLeverage : Nat \ {0}, bracket : Nat]
Funds == [available : Nat, equity : Nat, exposure : Nat]
Standing == [open : Nat, risk : Nat, loss : Nat, peak : Nat, equity : Int, healthy : BOOLEAN]

-----------------------------------------------------------------------------
Distance(q) == IF q.entry >= q.stop THEN q.entry - q.stop ELSE q.stop - q.entry
Reward(q) == IF q.long THEN q.target - q.entry ELSE q.entry - q.target

WithinPrices(price, rules) == 0 < price /\ rules.minPrice <= price /\ price <= rules.maxPrice

\* The list of reasons is empty.
Eligible(q, p, policy, rules) ==
    /\ p.healthy
    /\ p.open < policy.positions
    /\ p.risk < policy.aggregate
    /\ p.loss < policy.daily
    /\ Unit * (p.peak - p.equity) < policy.drawdown * p.peak
    /\ q.leverage <= q.maxLeverage
    /\ \A price \in {q.entry, q.stop, q.target} : WithinPrices(price, rules)
    /\ IF q.long THEN q.stop < q.entry ELSE q.entry < q.stop
    /\ Unit * Distance(q) <= policy.distance * q.entry
    /\ Reward(q) > 0
    /\ Unit * Reward(q) >= policy.reward * Distance(q)

-----------------------------------------------------------------------------
Basis(f, policy) == IF policy.basis = "equity" THEN f.equity ELSE f.available

\* In money / Unit: the balance free for margin once the reserve is set aside.
FreeMargin(f, policy) == Unit * f.available - policy.reserve * Basis(f, policy)

\* What one unit of quantity loses at its stop: distance, slippage, both fees.
StopFill(q) == AdverseFill(q.stop, ~q.long)
Slippage(q) == IF q.long THEN q.stop - StopFill(q) ELSE StopFill(q) - q.stop
UnitLoss(q) ==
    Unit * (Distance(q) + Slippage(q)) + FeeUnits * (q.entry + StopFill(q))

(* The limits, each as the largest quantity it admits.                      *)
RiskCap(q, f, policy) == (policy.risk * Basis(f, policy)) \div (Unit * UnitLoss(q))

\* Bug: every entry has the aggregate limit to itself.
OwnAggregate(q, p, policy) == policy.aggregate \div UnitLoss(q)

AggregateCap(q, p, policy) == (policy.aggregate - p.risk) \div UnitLoss(q)
DailyCap(q, p, policy) == (policy.daily - p.loss) \div UnitLoss(q)
NotionalCap(q, policy) == policy.notional \div (Unit * q.entry)
ExposureCap(q, f, policy) == (policy.exposure - f.exposure) \div (Unit * q.entry)
MarginCap(q, f, policy) ==
    (FreeMargin(f, policy) * q.leverage)
        \div (Unit * q.entry * (Unit + FeeUnits * q.leverage))
BracketCap(q, f) == (q.bracket - f.exposure) \div (Unit * q.entry)

Caps(q, f, p, policy, rules) ==
    {RiskCap(q, f, policy), AggregateCap(q, p, policy), DailyCap(q, p, policy),
     NotionalCap(q, policy), ExposureCap(q, f, policy), MarginCap(q, f, policy),
     rules.maxQuantity}
        \cup (IF q.bracket = 0 THEN {} ELSE {BracketCap(q, f)})

Least(S) == CHOOSE n \in S : \A m \in S : n <= m

\* There is room for any position at all.
Room(q, f, policy) ==
    /\ policy.risk * Basis(f, policy) > 0
    /\ policy.exposure > f.exposure
    /\ FreeMargin(f, policy) > 0
    /\ StopFill(q) > 0
    /\ q.bracket = 0 \/ q.bracket > f.exposure

(* The quantity accepted; 0: the entry is denied.                           *)
SizePosition(q, f, p, policy, rules) ==
    IF ~Eligible(q, p, policy, rules) \/ ~Room(q, f, policy) THEN 0
    ELSE LET quantity == Least(Caps(q, f, p, policy, rules))
         IN  IF /\ quantity >= rules.minQuantity
                /\ Unit * quantity * q.entry >= rules.minNotional
             THEN quantity
             ELSE 0
=============================================================================
