-------------------------- MODULE PortfolioProofs --------------------------
(***************************************************************************)
(* Proofs about a portfolio run, for any symbols, batches, offers, policy   *)
(* and fractions.  First the risk engine (RiskSizing): what it accepts is   *)
(* within every limit.  Then the loop over the symbols and the end of the   *)
(* batch (PortfolioAccount): the cash is explained, the risk is limited,    *)
(* entries are paid from the cash before the bar and leave the day its      *)
(* loss limit, and credits save no position.                                *)
(***************************************************************************)
EXTENDS PortfolioAccount, SumTheorems

(* The quotient of a limit by what a unit costs is affordable, and the most *)
(* that is.                                                                 *)
LEMMA Quotient ==
    ASSUME NEW a \in Int, NEW d \in Nat \ {0}, NEW n \in Int
    PROVE  /\ a \div d \in Int
           /\ n <= a \div d <=> n * d <= a
<1>1. a \div d \in Int
  OBVIOUS
<1>2. /\ (a \div d) * d <= a
      /\ a < ((a \div d) + 1) * d
  OBVIOUS
<1>3. ASSUME n <= a \div d PROVE n * d <= (a \div d) * d
  BY <1>1, <1>3
<1>4. ASSUME n > a \div d PROVE n * d >= ((a \div d) + 1) * d
  BY <1>1, <1>4
<1> QED BY <1>1, <1>2, <1>3, <1>4

-----------------------------------------------------------------------------
(* The least of the limits is one of them and none is less.                 *)

HasLeast(S) == \E n \in S : \A m \in S : n <= m

(* A limit more leaves a least one.                                         *)
LEMMA LeastOfMore ==
    ASSUME NEW S, S \subseteq Int, HasLeast(S), NEW x \in Int
    PROVE  HasLeast(S \cup {x})
<1>1. PICK n \in S : \A m \in S : n <= m
  BY DEF HasLeast
<1>2. CASE n <= x
  BY <1>1, <1>2 DEF HasLeast
<1>3. CASE x < n
  <2>1. \A m \in S \cup {x} : x <= m
    BY <1>1, <1>3
  <2> QED BY <2>1 DEF HasLeast
<1> QED BY <1>1, <1>2, <1>3

(* The seven limits, with or without that of the bracket, have a least one. *)
LEMMA SevenHaveLeast ==
    ASSUME NEW a \in Int, NEW b \in Int, NEW c \in Int, NEW d \in Int, NEW e \in Int,
           NEW g \in Int, NEW h \in Int
    PROVE  HasLeast({a, b, c, d, e, g, h})
<1>1. HasLeast({a})
  BY DEF HasLeast
<1>2. HasLeast({a, b})
  <2>1. {a} \cup {b} = {a, b}
    OBVIOUS
  <2> QED BY <1>1, <2>1, LeastOfMore
<1>3. HasLeast({a, b, c})
  <2>1. {a, b} \cup {c} = {a, b, c}
    OBVIOUS
  <2> QED BY <1>2, <2>1, LeastOfMore
<1>4. HasLeast({a, b, c, d})
  <2>1. {a, b, c} \cup {d} = {a, b, c, d}
    OBVIOUS
  <2> QED BY <1>3, <2>1, LeastOfMore
<1>5. HasLeast({a, b, c, d, e})
  <2>1. {a, b, c, d} \cup {e} = {a, b, c, d, e}
    OBVIOUS
  <2> QED BY <1>4, <2>1, LeastOfMore
<1>6. HasLeast({a, b, c, d, e, g})
  <2>1. {a, b, c, d, e} \cup {g} = {a, b, c, d, e, g}
    OBVIOUS
  <2> QED BY <1>5, <2>1, LeastOfMore
<1> QED
  <2>1. {a, b, c, d, e, g} \cup {h} = {a, b, c, d, e, g, h}
    OBVIOUS
  <2> QED BY <1>6, <2>1, LeastOfMore

(* Least picks it.                                                          *)
LEMMA LeastPicks ==
    ASSUME NEW S, HasLeast(S)
    PROVE  Least(S) \in S /\ \A m \in S : Least(S) <= m
BY DEF Least, HasLeast

-----------------------------------------------------------------------------
(* Rounding a fill to the worse tick never helps.                           *)
LEMMA WorseFill ==
    ASSUME NEW price \in Nat, NEW buy \in BOOLEAN
    PROVE  /\ AdverseFill(price, buy) \in Int
           /\ buy => AdverseFill(price, buy) >= price
           /\ ~buy => AdverseFill(price, buy) <= price
<1>1. /\ Unit \in Nat \ {0} /\ SlipUnits \in Int /\ SlipUnits >= 0
  BY RulesAssumption
<1> DEFINE up == price * (Unit + SlipUnits) + Unit - 1
           down == price * (Unit - SlipUnits)
<1>2. up \in Int /\ down \in Int
  BY <1>1
<1>3. price * Unit <= up
  <2>1. price * SlipUnits >= 0
    BY <1>1
  <2>2. up = price * Unit + price * SlipUnits + Unit - 1
    BY <1>1
  <2> QED BY <1>1, <2>1, <2>2
<1>4. down <= price * Unit
  <2>1. price * SlipUnits >= 0
    BY <1>1
  <2>2. down = price * Unit - price * SlipUnits
    BY <1>1
  <2> QED BY <1>1, <2>1, <2>2
<1> HIDE DEF up, down
<1>5. up \div Unit \in Int /\ price <= up \div Unit
  BY <1>1, <1>2, <1>3, Quotient
<1>6. down \div Unit \in Int
  BY <1>1, <1>2, Quotient
<1>7. down \div Unit <= price
  <2> SUFFICES ASSUME price + 1 <= down \div Unit PROVE FALSE
    BY <1>6
  <2>1. (price + 1) * Unit <= down
    BY <1>1, <1>2, Quotient
  <2>2. (price + 1) * Unit = price * Unit + Unit
    BY <1>1
  <2> QED BY <1>1, <1>2, <1>4, <2>1, <2>2
<1>8. AdverseFill(price, buy) = IF buy THEN up \div Unit ELSE down \div Unit
  BY DEF AdverseFill, up, down
<1> QED BY <1>5, <1>6, <1>7, <1>8

(* What a unit loses at its stop is a positive amount, once the stop is on  *)
(* the right side of the entry and has a fill.                              *)
LEMMA LossIsPositive ==
    ASSUME NEW q \in Request, StopFill(q) > 0,
           IF q.long THEN q.stop < q.entry ELSE q.entry < q.stop
    PROVE  UnitLoss(q) \in Nat \ {0} /\ StopFill(q) \in Int
<1>1. /\ q.long \in BOOLEAN /\ q.entry \in Nat /\ q.stop \in Nat
      /\ Unit \in Nat \ {0} /\ FeeUnits \in Int /\ FeeUnits >= 0
  BY RulesAssumption DEF Request
<1>2. Distance(q) \in Nat /\ Distance(q) > 0
  BY <1>1 DEF Distance
<1>3. StopFill(q) \in Int /\ Slippage(q) \in Nat
  <2> DEFINE buy == ~q.long
  <2>1. buy \in BOOLEAN
    OBVIOUS
  <2>2. StopFill(q) = AdverseFill(q.stop, buy)
    BY DEF StopFill
  <2>3. /\ q.long => ~buy
        /\ ~q.long => buy
    OBVIOUS
  <2> HIDE DEF buy
  <2>4. /\ StopFill(q) \in Int
        /\ q.long => StopFill(q) <= q.stop
        /\ ~q.long => StopFill(q) >= q.stop
    BY <1>1, <2>1, <2>2, <2>3, WorseFill
  <2> QED BY <1>1, <2>4 DEF Slippage
<1> DEFINE distance == Distance(q) + Slippage(q)
           prices == q.entry + StopFill(q)
<1>4. distance \in Nat /\ distance > 0 /\ prices \in Nat
  BY <1>1, <1>2, <1>3
<1>5. UnitLoss(q) = Unit * distance + FeeUnits * prices
  BY DEF UnitLoss
<1> HIDE DEF distance, prices
<1>6. Unit * distance \in Nat /\ Unit * distance > 0
  BY <1>1, <1>4
<1>7. FeeUnits * prices \in Nat
  BY <1>1, <1>4
<1> QED BY <1>3, <1>5, <1>6, <1>7

-----------------------------------------------------------------------------
(* The limits of the policy, on a quantity.                                 *)
WithinLimits(n, q, f, p, policy, rules) ==
    /\ n * (Unit * UnitLoss(q)) <= policy.risk * Basis(f, policy)
    /\ p.risk + n * UnitLoss(q) <= policy.aggregate
    /\ p.loss + n * UnitLoss(q) <= policy.daily
    /\ n * (Unit * q.entry) <= policy.notional
    /\ f.exposure + n * (Unit * q.entry) <= policy.exposure
    /\ n * (Unit * q.entry * (Unit + FeeUnits * q.leverage))
         <= FreeMargin(f, policy) * q.leverage
    /\ n <= rules.maxQuantity
    /\ q.bracket # 0 => f.exposure + n * (Unit * q.entry) <= q.bracket

(* A quantity is within the limits exactly when it is at most the least of  *)
(* the caps, each of which is a quotient.                                   *)
LEMMA CapsAreLimits ==
    ASSUME NEW q \in Request, NEW f \in Funds, NEW p \in Standing,
           NEW policy \in Policy, NEW rules \in Rules,
           Eligible(q, p, policy, rules), Room(q, f, policy), NEW n \in Int
    PROVE  /\ Least(Caps(q, f, p, policy, rules)) \in Int
           /\ n <= Least(Caps(q, f, p, policy, rules))
                <=> WithinLimits(n, q, f, p, policy, rules)
<1>1. /\ q.entry \in Nat /\ q.entry > 0 /\ q.leverage \in Nat /\ q.leverage > 0
      /\ q.bracket \in Nat
  BY DEF Request, Eligible, WithinPrices
<1>2. /\ f.available \in Nat /\ f.equity \in Nat /\ f.exposure \in Nat
      /\ p.risk \in Nat /\ p.loss \in Nat
  BY DEF Funds, Standing
<1>3. /\ policy.risk \in Int /\ policy.reserve \in Int /\ policy.aggregate \in Nat
      /\ policy.daily \in Nat /\ policy.notional \in Nat /\ policy.exposure \in Nat
      /\ rules.maxQuantity \in Nat
  BY RulesAssumption DEF Policy, Rules
<1>4. UnitLoss(q) \in Nat /\ UnitLoss(q) > 0
  BY LossIsPositive DEF Eligible, Room
<1>5. Unit \in Nat /\ Unit > 0 /\ FeeUnits \in Nat
  BY RulesAssumption
<1>6. Basis(f, policy) \in Nat
  BY <1>2 DEF Basis
<1>7. FreeMargin(f, policy) \in Int
  BY <1>2, <1>3, <1>5, <1>6 DEF FreeMargin
<1> DEFINE loss == UnitLoss(q)
           stake == policy.risk * Basis(f, policy)
           worth == Unit * q.entry
           rate == Unit + FeeUnits * q.leverage
           free == FreeMargin(f, policy) * q.leverage
<1>8. /\ loss \in Nat \ {0} /\ Unit * loss \in Nat \ {0}
      /\ stake \in Int /\ free \in Int
  BY <1>1, <1>3, <1>4, <1>5, <1>6, <1>7
<1>9. worth \in Nat \ {0} /\ rate \in Nat \ {0}
  BY <1>1, <1>5
<1> DEFINE cost == worth * rate
<1>10. cost \in Nat \ {0}
  <2> HIDE DEF worth, rate
  <2> QED BY <1>9
<1>11. /\ RiskCap(q, f, policy) = stake \div (Unit * loss)
       /\ AggregateCap(q, p, policy) = (policy.aggregate - p.risk) \div loss
       /\ DailyCap(q, p, policy) = (policy.daily - p.loss) \div loss
       /\ NotionalCap(q, policy) = policy.notional \div worth
       /\ ExposureCap(q, f, policy) = (policy.exposure - f.exposure) \div worth
       /\ MarginCap(q, f, policy) = free \div cost
       /\ BracketCap(q, f) = (q.bracket - f.exposure) \div worth
  BY DEF RiskCap, AggregateCap, DailyCap, NotionalCap, ExposureCap, MarginCap, BracketCap
<1>12. WithinLimits(n, q, f, p, policy, rules) <=>
          /\ n * (Unit * loss) <= stake
          /\ p.risk + n * loss <= policy.aggregate
          /\ p.loss + n * loss <= policy.daily
          /\ n * worth <= policy.notional
          /\ f.exposure + n * worth <= policy.exposure
          /\ n * cost <= free
          /\ n <= rules.maxQuantity
          /\ q.bracket # 0 => f.exposure + n * worth <= q.bracket
  BY DEF WithinLimits
<1> HIDE DEF loss, stake, worth, rate, free, cost
<1>13. /\ RiskCap(q, f, policy) \in Int
       /\ n <= RiskCap(q, f, policy) <=> n * (Unit * loss) <= stake
  <2> DEFINE d == Unit * loss
  <2>1. d \in Nat \ {0}
    BY <1>8
  <2> HIDE DEF d
  <2>2. stake \div d \in Int /\ (n <= stake \div d <=> n * d <= stake)
    BY <1>8, <2>1, Quotient
  <2> QED BY <1>11, <2>2 DEF d
<1>14. /\ AggregateCap(q, p, policy) \in Int
       /\ n <= AggregateCap(q, p, policy) <=> p.risk + n * loss <= policy.aggregate
  <2>1. n * loss \in Int /\ policy.aggregate - p.risk \in Int
    BY <1>2, <1>3, <1>8
  <2>2. n * loss <= policy.aggregate - p.risk <=> p.risk + n * loss <= policy.aggregate
    BY <1>2, <1>3, <2>1
  <2> QED BY <1>8, <1>11, <2>1, <2>2, Quotient
<1>15. /\ DailyCap(q, p, policy) \in Int
       /\ n <= DailyCap(q, p, policy) <=> p.loss + n * loss <= policy.daily
  <2>1. n * loss \in Int /\ policy.daily - p.loss \in Int
    BY <1>2, <1>3, <1>8
  <2>2. n * loss <= policy.daily - p.loss <=> p.loss + n * loss <= policy.daily
    BY <1>2, <1>3, <2>1
  <2> QED BY <1>8, <1>11, <2>1, <2>2, Quotient
<1>16. /\ NotionalCap(q, policy) \in Int
       /\ n <= NotionalCap(q, policy) <=> n * worth <= policy.notional
  BY <1>3, <1>9, <1>11, Quotient
<1>17. /\ ExposureCap(q, f, policy) \in Int
       /\ n <= ExposureCap(q, f, policy) <=> f.exposure + n * worth <= policy.exposure
  <2>1. n * worth \in Int /\ policy.exposure - f.exposure \in Int
    BY <1>2, <1>3, <1>9
  <2>2. n * worth <= policy.exposure - f.exposure <=> f.exposure + n * worth <= policy.exposure
    BY <1>2, <1>3, <2>1
  <2> QED BY <1>9, <1>11, <2>1, <2>2, Quotient
<1>18. /\ MarginCap(q, f, policy) \in Int
       /\ n <= MarginCap(q, f, policy) <=> n * cost <= free
  BY <1>8, <1>10, <1>11, Quotient
<1>19. /\ BracketCap(q, f) \in Int
       /\ n <= BracketCap(q, f) <=> f.exposure + n * worth <= q.bracket
  <2>1. n * worth \in Int /\ q.bracket - f.exposure \in Int
    BY <1>1, <1>2, <1>9
  <2>2. n * worth <= q.bracket - f.exposure <=> f.exposure + n * worth <= q.bracket
    BY <1>1, <1>2, <2>1
  <2> QED BY <1>9, <1>11, <2>1, <2>2, Quotient
<1> DEFINE caps == Caps(q, f, p, policy, rules)
           seven == {RiskCap(q, f, policy), AggregateCap(q, p, policy), DailyCap(q, p, policy),
                     NotionalCap(q, policy), ExposureCap(q, f, policy), MarginCap(q, f, policy),
                     rules.maxQuantity}
<1>20. seven \subseteq Int /\ HasLeast(seven)
  <2>1. /\ RiskCap(q, f, policy) \in Int /\ AggregateCap(q, p, policy) \in Int
        /\ DailyCap(q, p, policy) \in Int /\ NotionalCap(q, policy) \in Int
        /\ ExposureCap(q, f, policy) \in Int /\ MarginCap(q, f, policy) \in Int
        /\ rules.maxQuantity \in Int
    BY <1>3, <1>13, <1>14, <1>15, <1>16, <1>17, <1>18
  <2>2. HasLeast(seven)
    BY <2>1, SevenHaveLeast
  <2>3. seven \subseteq Int
    BY <2>1
  <2> QED BY <2>2, <2>3
<1>21. caps \subseteq Int /\ HasLeast(caps)
  <2>1. CASE q.bracket = 0
    <3>1. caps = seven
      BY <2>1 DEF Caps
    <3> QED BY <1>20, <3>1
  <2>2. CASE q.bracket # 0
    <3>1. caps = seven \cup {BracketCap(q, f)}
      BY <2>2 DEF Caps
    <3> HIDE DEF caps, seven
    <3> QED BY <1>19, <1>20, <3>1, LeastOfMore
  <2> QED BY <2>1, <2>2
<1>22. Least(caps) \in caps /\ \A m \in caps : Least(caps) <= m
  <2> HIDE DEF caps
  <2> QED BY <1>21, LeastPicks
<1>23. (\A m \in caps : n <= m) <=> WithinLimits(n, q, f, p, policy, rules)
  BY <1>12, <1>13, <1>14, <1>15, <1>16, <1>17, <1>18, <1>19 DEF Caps
<1>24. n <= Least(caps) <=> \A m \in caps : n <= m
  <2> DEFINE least == Least(caps)
  <2> HIDE DEF caps
  <2>1. least \in caps /\ least \in Int /\ \A m \in caps : least <= m
    BY <1>21, <1>22
  <2> HIDE DEF least
  <2>2. ASSUME n <= least, NEW m \in caps PROVE n <= m
    <3>1. m \in Int /\ least <= m
      BY <1>21, <2>1
    <3> QED BY <2>1, <2>2, <3>1
  <2>3. n <= least <=> \A m \in caps : n <= m
    BY <2>1, <2>2
  <2> QED BY <2>3 DEF least
<1> QED
  <2> HIDE DEF caps
  <2>1. Least(caps) \in Int
    BY <1>21, <1>22
  <2>2. n <= Least(caps) <=> WithinLimits(n, q, f, p, policy, rules)
    BY <1>23, <1>24
  <2> QED BY <2>1, <2>2 DEF caps

(* risk/engine.py:200, "without allowing leverage to raise risk": whatever  *)
(* the leverage, a quantity accepted loses at its stop, fees included, no   *)
(* more than the budget, the aggregate and the daily limit leave; it fits   *)
(* the caps on notional, exposure and margin; and no larger one does.       *)
THEOREM SizedWithinLimits ==
    ASSUME NEW q \in Request, NEW f \in Funds, NEW p \in Standing,
           NEW policy \in Policy, NEW rules \in Rules,
           SizePosition(q, f, p, policy, rules) # 0
    PROVE  LET n == SizePosition(q, f, p, policy, rules)
           IN  /\ n \in Int
               /\ n >= rules.minQuantity
               /\ WithinLimits(n, q, f, p, policy, rules)
               /\ ~WithinLimits(n + 1, q, f, p, policy, rules)
<1> DEFINE n == SizePosition(q, f, p, policy, rules)
<1>1. /\ Eligible(q, p, policy, rules) /\ Room(q, f, policy)
      /\ n = Least(Caps(q, f, p, policy, rules))
      /\ n >= rules.minQuantity
  BY DEF SizePosition
<1> HIDE DEF n
<1>2. n \in Int
  <2>1. 0 \in Int
    OBVIOUS
  <2> QED BY <1>1, <2>1, CapsAreLimits
<1>3. WithinLimits(n, q, f, p, policy, rules)
  BY <1>1, <1>2, CapsAreLimits
<1>4. ~WithinLimits(n + 1, q, f, p, policy, rules)
  <2>1. n + 1 \in Int /\ ~(n + 1 <= n)
    BY <1>2
  <2> QED BY <1>1, <2>1, CapsAreLimits
<1> QED BY <1>1, <1>2, <1>3, <1>4 DEF n

-----------------------------------------------------------------------------
(* The configured symbols are finitely many.                                *)
LEMMA SymbolsFinite == IsFiniteSet(Symbols)
<1>1. Order \in Seq(Symbols)
  BY PortfolioAssumption
<1>2. DOMAIN Order = 1..Len(Order) /\ Len(Order) \in Nat
  BY <1>1
<1>3. IsFiniteSet(DOMAIN Order)
  BY <1>2, FS_Interval
<1>4. Order \in Surjection(DOMAIN Order, Symbols)
  BY <1>1 DEF Symbols, Range, Surjection
<1> QED BY <1>3, <1>4, FS_Surjection

(* The loop comes to every symbol, and to each once.                        *)
LEMMA OrderFacts ==
    /\ Len(Order) \in Nat /\ DOMAIN Order = 1..Len(Order)
    /\ \A i \in DOMAIN Order : Order[i] \in Symbols
    /\ \A s \in Symbols : \E i \in DOMAIN Order : Order[i] = s
    /\ \A i, j \in DOMAIN Order : Order[i] = Order[j] => i = j
<1>1. Order \in Seq(Symbols)
  BY PortfolioAssumption
<1>2. \A s \in Symbols : \E i \in DOMAIN Order : Order[i] = s
  BY DEF Symbols, Range
<1>3. \A i, j \in DOMAIN Order : Order[i] = Order[j] => i = j
  BY PortfolioAssumption
<1>4. \A i \in DOMAIN Order : Order[i] \in Symbols
  BY DEF Symbols, Range
<1> QED BY <1>1, <1>2, <1>3, <1>4

(* The fractions are within the whole.                                      *)
LEMMA UnitFacts ==
    /\ Unit \in Nat /\ Unit > 0
    /\ FeeUnits \in Nat /\ FeeUnits <= Unit
    /\ SlipUnits \in Nat /\ SlipUnits <= Unit
    /\ MaintenanceUnits \in Nat /\ LiquidationUnits \in Nat
BY RulesAssumption

-----------------------------------------------------------------------------
(* A fill is a price, no better than the one asked for, and a better price  *)
(* has no worse fill.                                                       *)
LEMMA FillFacts ==
    ASSUME NEW price \in Nat, NEW buy \in BOOLEAN
    PROVE  /\ AdverseFill(price, buy) \in Nat
           /\ \A other \in Nat : price <= other =>
                AdverseFill(price, buy) <= AdverseFill(other, buy)
<1> DEFINE up(p) == p * (Unit + SlipUnits) + Unit - 1
           down(p) == p * (Unit - SlipUnits)
<1>1. Unit \in Nat \ {0} /\ SlipUnits \in Nat /\ Unit - SlipUnits \in Nat
      /\ Unit + SlipUnits \in Nat
  BY UnitFacts
<1>2. \A p \in Nat : up(p) \in Nat /\ down(p) \in Nat
  BY <1>1
<1>3. \A p \in Nat : AdverseFill(p, buy) = IF buy THEN up(p) \div Unit ELSE down(p) \div Unit
  BY DEF AdverseFill
<1>4. \A x \in Nat : x \div Unit \in Nat
  BY <1>1
<1>5. ASSUME NEW x \in Nat, NEW y \in Nat, x <= y PROVE x \div Unit <= y \div Unit
  <2>1. x \div Unit \in Int /\ (x \div Unit <= x \div Unit <=> (x \div Unit) * Unit <= x)
    BY <1>1, <1>4, Quotient
  <2>2. x \div Unit <= y \div Unit <=> (x \div Unit) * Unit <= y
    BY <1>1, <2>1, Quotient
  <2>3. (x \div Unit) * Unit \in Int
    BY <1>1, <2>1
  <2> QED BY <1>5, <2>1, <2>2, <2>3
<1>6. ASSUME NEW other \in Nat, price <= other
      PROVE  up(price) <= up(other) /\ down(price) <= down(other)
  <2>1. \A k \in Nat : price * k <= other * k
    BY <1>6
  <2> QED BY <1>1, <2>1
<1> HIDE DEF up, down
<1> QED BY <1>2, <1>3, <1>4, <1>5, <1>6

(* What a setup is filled at on a candle, and what its stop is filled at.   *)
LEMMA PriceFacts ==
    ASSUME NEW setup \in Setup, NEW c \in Candle
    PROVE  /\ AdverseFill(EntryPrice(setup, c), setup.long) \in Nat
           /\ AdverseFill(setup.stop, ~setup.long) \in Nat
           /\ Worst(setup, c) \in Nat
<1>1. /\ setup.long \in BOOLEAN /\ setup.entry \in Nat /\ setup.stop \in Nat
      /\ c.open \in Nat /\ c.low \in Nat /\ c.high \in Nat
  BY DEF Setup, Candle
<1>2. EntryPrice(setup, c) \in Nat
  BY <1>1 DEF EntryPrice, Higher, Lower
<1>3. (~setup.long) \in BOOLEAN
  OBVIOUS
<1> QED BY <1>1, <1>2, <1>3, FillFacts DEF Worst

-----------------------------------------------------------------------------
(* The inductive invariant.  A position on the books is whole, and its      *)
(* stop, price and target are in their order.                               *)
Ordered(p) ==
    IF p.setup.long THEN p.setup.stop < p.price /\ p.price < p.setup.target
                    ELSE p.setup.target < p.price /\ p.price < p.setup.stop

Whole(p) ==
    /\ p \in Position
    /\ p.price >= 0 /\ p.fee >= 0 /\ p.risk >= 0
    /\ p.quantity = 0 => p = NoPosition
    /\ p.quantity # 0 => p.entered > 0 /\ Ordered(p)

ExplainedCash(positions) ==
    StartCash + account.realized
        + SumFunction([s \in Symbols |-> positions[s].funding - positions[s].fee])

WithinRisk(positions) ==
    /\ SumFunction([s \in Symbols |-> positions[s].risk]) <= RiskPolicy.aggregate
    /\ Cardinality(Occupied(positions)) <= RiskPolicy.positions

AccountInv ==
    /\ \A s \in Symbols : /\ Whole(account.positions[s])
                          /\ account.positions[s].entered <= account.last
    /\ account.peak >= 0
    /\ account.cash = ExplainedCash(account.positions)
    /\ WithinRisk(account.positions)
    /\ PendingsAreLive

(* A symbol the loop has not come to is as it was; one it has come to may   *)
(* hold a position entered on this bar, where it held none.                 *)
Entered(s) ==
    /\ account.status = "running"
    /\ account.positions[s] = NoPosition
    /\ loop.positions[s].entered = ThisBar
    /\ loop.positions[s].held = 0 /\ loop.positions[s].funding = 0

Walked ==
    /\ \A i \in DOMAIN Order : i >= loop.next =>
         /\ loop.positions[Order[i]] = account.positions[Order[i]]
         /\ loop.pendings[Order[i]] = account.pendings[Order[i]]
    /\ \A s \in Symbols : /\ Whole(loop.positions[s])
                          /\ loop.positions[s] = account.positions[s] \/ Entered(s)
    /\ \A s \in Symbols : loop.pendings[s] # NoSetup =>
         account.status = "running" /\ loop.positions[s] = NoPosition

(* The entries of the bar have paid their fees, and their margins fit into  *)
(* the cash with those of the positions held before.                        *)
Fresh(s) == loop.positions[s].entered = ThisBar

FeesPaid ==
    SumFunction([s \in Symbols |-> IF Fresh(s) THEN loop.positions[s].fee ELSE 0])

FitsCash ==
    /\ loop.cash = account.cash - FeesPaid
    /\ (\E s \in Symbols : Fresh(s)) => MarginUsed(loop, ThisBar) <= loop.cash

Budgeted ==
    (\E s \in Symbols : Fresh(s)) => loop.dayOpen - EquityAtStops(loop) <= RiskPolicy.daily

LoopInv ==
    /\ batch # NoBatch /\ account.status \in Processing
    /\ loop.peak >= 0
    /\ loop.cash = ExplainedCash(loop.positions)
    /\ Walked
    /\ WithinRisk(loop.positions)
    /\ FitsCash
    /\ Budgeted

IInv ==
    /\ TypeOK
    /\ AccountInv
    /\ batch # NoBatch => account.last < MaxBar
    /\ loop.next = 0 => loop = Idle
    /\ loop.next # 0 => LoopInv

-----------------------------------------------------------------------------
(* The parts of a whole position.                                           *)
LEMMA PositionTypes ==
    ASSUME NEW p, Whole(p)
    PROVE  /\ p \in Position
           /\ p.quantity \in Nat /\ p.price \in Nat /\ p.fee \in Nat /\ p.risk \in Nat
           /\ p.held \in Nat /\ p.funding \in Int /\ p.leverage \in Nat \ {0}
           /\ p.entered \in 0..MaxBar
           /\ p.setup \in Setup /\ p.setup.long \in BOOLEAN
           /\ p.setup.stop \in Nat /\ p.setup.target \in Nat /\ p.setup.hold \in Nat
<1>1. p \in Position
  BY DEF Whole
<1>2. p.price \in Nat /\ p.fee \in Nat /\ p.risk \in Nat
  BY DEF Whole, Position
<1>3. p.setup \in Setup
  BY <1>1 DEF Position
<1> QED BY <1>1, <1>2, <1>3 DEF Position, Setup

(* No position is a whole one.                                              *)
LEMMA NoPositionWhole == Whole(NoPosition)
BY MaxBarAssumption DEF Whole, NoPosition, Position, NoSetup, Setup, Ordered

(* What is counted of it.                                                   *)
LEMMA PnlType ==
    ASSUME NEW p, Whole(p), NEW price \in Int PROVE Pnl(p, price) \in Int
<1> DEFINE move == IF p.setup.long THEN price - p.price ELSE p.price - price
           size == Unit * p.quantity
<1>1. move \in Int /\ size \in Int
  BY PositionTypes, UnitFacts
<1>2. Pnl(p, price) = size * move
  BY DEF Pnl
<1> HIDE DEF move, size
<1> QED BY <1>1, <1>2

(* Fees, margins, fills and results are whole numbers of units.             *)
LEMMA FeeType ==
    ASSUME NEW q \in Int, NEW price \in Int, NEW units \in Int
    PROVE  Fee(q, price, units) \in Int
BY DEF Fee

(* So is a margin, which is also never negative.                            *)
LEMMA MarginType == ASSUME NEW p, Whole(p) PROVE Margin(p) \in Nat
<1>1. Unit \div p.leverage \in Nat
  BY PositionTypes, UnitFacts
<1>2. p.quantity \in Nat /\ p.price \in Nat
  BY PositionTypes
<1> DEFINE u == Unit \div p.leverage
<1>3. Margin(p) = p.quantity * p.price * u
  BY DEF Margin
<1> HIDE DEF u
<1> QED BY <1>1, <1>2, <1>3 DEF u

(* The fill of a stop is a price.                                           *)
LEMMA StopFillType == ASSUME NEW p, Whole(p) PROVE StopFillOf(p) \in Nat
<1>1. p.setup.stop \in Nat /\ (~p.setup.long) \in BOOLEAN
  BY PositionTypes
<1> QED BY <1>1, FillFacts DEF StopFillOf

(* What a position gives at its stop, in total.                             *)
AtStop(p) == Pnl(p, StopFillOf(p)) - Fee(p.quantity, StopFillOf(p), FeeUnits)

(* What a position gives at its stop is an amount.                          *)
LEMMA AtStopType == ASSUME NEW p, Whole(p) PROVE AtStop(p) \in Int
<1>1. StopFillOf(p) \in Int /\ p.quantity \in Int /\ FeeUnits \in Int
  BY StopFillType, PositionTypes, UnitFacts
<1>2. Pnl(p, StopFillOf(p)) \in Int /\ Fee(p.quantity, StopFillOf(p), FeeUnits) \in Int
  BY <1>1, PnlType, FeeType
<1> QED BY <1>2 DEF AtStop

(* The loss at the stop is counted from the price on the mark.              *)
LEMMA LossFromMark ==
    ASSUME NEW p, Whole(p), NEW price \in Int
    PROVE  /\ LossAtStop(p, price) \in Int
           /\ AtStop(p) = Pnl(p, price) - LossAtStop(p, price)
<1> DEFINE stop == StopFillOf(p)
           q == p.quantity
<1>1. stop \in Int /\ q \in Int /\ FeeUnits \in Int /\ Unit \in Int /\ p.price \in Int
  BY StopFillType, PositionTypes, UnitFacts
<1>2. LossAtStop(p, price) =
        q * (Unit * (IF p.setup.long THEN price - stop ELSE stop - price) + FeeUnits * stop)
  BY DEF LossAtStop
<1>3. AtStop(p) = Unit * q * (IF p.setup.long THEN stop - p.price ELSE p.price - stop)
                    - q * stop * FeeUnits
  BY DEF AtStop, Pnl, Fee
<1>4. Pnl(p, price) = Unit * q * (IF p.setup.long THEN price - p.price ELSE p.price - price)
  BY DEF Pnl
<1> HIDE DEF stop, q
<1>5. CASE p.setup.long
  <2>1. LossAtStop(p, price) = q * (Unit * (price - stop) + FeeUnits * stop)
    BY <1>2, <1>5
  <2>2. AtStop(p) = Unit * q * (stop - p.price) - q * stop * FeeUnits
    BY <1>3, <1>5
  <2>3. Pnl(p, price) = Unit * q * (price - p.price)
    BY <1>4, <1>5
  <2> QED BY <1>1, <2>1, <2>2, <2>3
<1>6. CASE ~p.setup.long
  <2>1. LossAtStop(p, price) = q * (Unit * (stop - price) + FeeUnits * stop)
    BY <1>2, <1>6
  <2>2. AtStop(p) = Unit * q * (p.price - stop) - q * stop * FeeUnits
    BY <1>3, <1>6
  <2>3. Pnl(p, price) = Unit * q * (p.price - price)
    BY <1>4, <1>6
  <2> QED BY <1>1, <2>1, <2>2, <2>3
<1> QED BY <1>5, <1>6

(* Nothing is counted of no position.                                       *)
LEMMA NothingCounts ==
    /\ Margin(NoPosition) = 0 /\ NoPosition.risk = 0 /\ NoPosition.fee = 0
    /\ NoPosition.funding = 0 /\ NoPosition.entered = 0 /\ NoPosition.quantity = 0
    /\ \A price \in Int : Pnl(NoPosition, price) = 0
    /\ AtStop(NoPosition) = 0
<1> DEFINE p == NoPosition
<1>1. p.quantity = 0 /\ p.price = 0 /\ p.risk = 0 /\ p.fee = 0 /\ p.funding = 0 /\ p.entered = 0
  BY DEF NoPosition
<1>2. Whole(p)
  BY NoPositionWhole
<1> HIDE DEF p
<1>3. Margin(p) = 0
  <2>1. Unit \div p.leverage \in Int
    BY <1>2, PositionTypes, UnitFacts
  <2> DEFINE u == Unit \div p.leverage
  <2>2. Margin(p) = 0 * 0 * u
    BY <1>1 DEF Margin
  <2> HIDE DEF u
  <2> QED BY <2>1, <2>2 DEF u
<1>4. \A price \in Int : Pnl(p, price) = 0
  <2> TAKE price \in Int
  <2> DEFINE move == IF p.setup.long THEN price - p.price ELSE p.price - price
  <2>1. move \in Int
    BY <1>1
  <2>2. Pnl(p, price) = Unit * 0 * move
    BY <1>1 DEF Pnl
  <2> HIDE DEF move
  <2> QED BY <2>1, <2>2, UnitFacts
<1>5. StopFillOf(p) \in Int
  BY <1>2, StopFillType
<1>6. Fee(p.quantity, StopFillOf(p), FeeUnits) = 0
  <2> DEFINE stop == StopFillOf(p)
  <2>1. Fee(p.quantity, stop, FeeUnits) = 0 * stop * FeeUnits
    BY <1>1 DEF Fee
  <2> HIDE DEF stop
  <2> QED BY <1>5, <2>1, UnitFacts DEF stop
<1>7. AtStop(p) = 0
  BY <1>4, <1>5, <1>6 DEF AtStop
<1> QED BY <1>1, <1>3, <1>4, <1>7 DEF p

-----------------------------------------------------------------------------
(* What is counted of all positions, on the batch of the state.             *)
LEMMA BatchTypes ==
    ASSUME TypeOK, NEW s \in Symbols
    PROVE  /\ batch[s].candle \in Candle /\ batch[s].pays \in Int
           /\ batch[s].candle.open \in Nat /\ batch[s].candle.high \in Nat
           /\ batch[s].candle.low \in Nat /\ batch[s].candle.close \in Nat
           /\ batch # NoBatch => Validated(batch[s].candle)
<1>1. batch \in [Symbols -> SymbolBar]
  <2>1. NoBatch \in [Symbols -> SymbolBar]
    BY DEF NoBatch, SymbolBar, Candle
  <2> QED BY <2>1, PortfolioAssumption DEF TypeOK
<1>2. batch[s] \in SymbolBar
  BY <1>1
<1>3. batch[s].candle \in Candle /\ batch[s].pays \in Int
  BY <1>2 DEF SymbolBar
<1>4. batch # NoBatch => Validated(batch[s].candle)
  BY PortfolioAssumption DEF TypeOK
<1> QED BY <1>3, <1>4 DEF Candle

AllWhole(positions) ==
    positions \in [Symbols -> Position] /\ \A s \in Symbols : Whole(positions[s])

(* The mark of all positions is an amount.                                  *)
LEMMA MarkType ==
    ASSUME NEW positions, AllWhole(positions), NEW price \in [Symbols -> Int]
    PROVE  /\ [s \in Symbols |-> Pnl(positions[s], price[s])] \in [Symbols -> Int]
           /\ MarkedAt(positions, price) \in Int
<1> DEFINE f == [s \in Symbols |-> Pnl(positions[s], price[s])]
<1>1. f \in [Symbols -> Int]
  BY PnlType DEF AllWhole
<1>2. MarkedAt(positions, price) = SumFunction(f)
  BY DEF MarkedAt
<1> HIDE DEF f
<1>3. SumFunction(f) \in Int
  BY <1>1, SymbolsFinite, TotalType
<1> QED BY <1>1, <1>2, <1>3 DEF f

(* A batch has an open and a close for every symbol.                        *)
LEMMA BatchPrices ==
    ASSUME TypeOK
    PROVE  Opens(batch) \in [Symbols -> Int] /\ Closes(batch) \in [Symbols -> Int]
BY BatchTypes DEF Opens, Closes

(* The margin in use is never negative.                                     *)
LEMMA MarginSum ==
    ASSUME NEW st, AllWhole(st.positions), NEW b PROVE MarginUsed(st, b) \in Nat
<1> DEFINE f == [s \in Symbols |-> Margin(st.positions[s])]
<1>1. f \in [Symbols -> Nat]
  BY MarginType DEF AllWhole
<1>2. MarginUsed(st, b) = SumFunction(f)
  BY DEF MarginUsed
<1> HIDE DEF f
<1> QED BY <1>1, <1>2, SymbolsFinite, TotalNat

(* The positions held can be counted.                                       *)
LEMMA OccupiedCount ==
    ASSUME NEW positions
    PROVE  /\ IsFiniteSet(Occupied(positions)) /\ Cardinality(Occupied(positions)) \in Nat
<1>1. Occupied(positions) \in SUBSET Symbols
  BY DEF Occupied
<1> QED BY <1>1, SymbolsFinite, FS_Subset, FS_CardinalityType

EquityAtOpen(st) == st.cash + MarkedAt(st.positions, Opens(batch))

(* The open risk is at least what the positions were sized to lose, and at  *)
(* least what the account loses when all of them go to their stops.         *)
LEMMA RiskBounds ==
    ASSUME TypeOK, NEW st, st.cash \in Int, AllWhole(st.positions)
    PROVE  /\ AggregateRisk(st, batch) \in Nat
           /\ SumFunction([s \in Symbols |-> st.positions[s].risk]) \in Nat
           /\ SumFunction([s \in Symbols |-> st.positions[s].risk]) <= AggregateRisk(st, batch)
           /\ EquityAtOpen(st) \in Int
           /\ EquityAtStops(st) \in Int
           /\ EquityAtStops(st) >= EquityAtOpen(st) - AggregateRisk(st, batch)
<1> DEFINE P == st.positions
           risk == [s \in Symbols |-> P[s].risk]
           open == [s \in Symbols |->
                      IF s \in Occupied(P) THEN OpenRisk(P[s], batch[s]) ELSE 0]
           mark == [s \in Symbols |-> Pnl(P[s], Opens(batch)[s])]
           stop == [s \in Symbols |-> AtStop(P[s])]
           both == [s \in Symbols |-> stop[s] + open[s]]
<1>1. /\ AggregateRisk(st, batch) = SumFunction(open)
      /\ SumFunction([s \in Symbols |-> st.positions[s].risk]) = SumFunction(risk)
      /\ EquityAtOpen(st) = st.cash + SumFunction(mark)
      /\ EquityAtStops(st) = st.cash + SumFunction(stop)
  BY DEF AggregateRisk, EquityAtOpen, MarkedAt, EquityAtStops, AtStop
<1>2. ASSUME NEW s \in Symbols
      PROVE  /\ risk[s] \in Nat /\ open[s] \in Nat /\ mark[s] \in Int /\ stop[s] \in Int
             /\ risk[s] <= open[s] /\ mark[s] <= stop[s] + open[s]
  <2> DEFINE p == P[s]
             price == batch[s].candle.open
  <2>1. Whole(p)
    BY DEF AllWhole
  <2>2. price \in Int /\ Opens(batch)[s] = price
    BY BatchTypes DEF Opens
  <2>3. p.risk \in Nat /\ (p.quantity = 0 => p = NoPosition)
    BY <2>1, PositionTypes DEF Whole
  <2>4. s \in Occupied(P) <=> p.quantity # 0
    BY DEF Occupied
  <2>5. /\ risk[s] = p.risk /\ mark[s] = Pnl(p, price) /\ stop[s] = AtStop(p)
        /\ open[s] = IF p.quantity # 0 THEN Higher(p.risk, LossAtStop(p, price)) ELSE 0
    BY <2>2, <2>4 DEF OpenRisk
  <2> HIDE DEF p, price, P, risk, open, mark, stop
  <2>6. /\ Pnl(p, price) \in Int /\ AtStop(p) \in Int /\ LossAtStop(p, price) \in Int
        /\ AtStop(p) = Pnl(p, price) - LossAtStop(p, price)
    BY <2>1, <2>2, PnlType, AtStopType, LossFromMark
  <2>7. CASE p.quantity = 0
    <3>1. p.risk = 0 /\ Pnl(p, price) = 0 /\ AtStop(p) = 0
      BY <2>2, <2>3, <2>7, NothingCounts
    <3> QED BY <2>5, <2>7, <3>1
  <2>8. CASE p.quantity # 0
    <3>1. open[s] = Higher(p.risk, LossAtStop(p, price))
      BY <2>5, <2>8
    <3>2. open[s] \in Nat /\ p.risk <= open[s] /\ LossAtStop(p, price) <= open[s]
      BY <2>3, <2>6, <3>1 DEF Higher
    <3> QED BY <2>3, <2>5, <2>6, <3>2
  <2> QED BY <2>7, <2>8
<1>3. /\ risk \in [Symbols -> Nat] /\ open \in [Symbols -> Nat]
      /\ mark \in [Symbols -> Int] /\ stop \in [Symbols -> Int] /\ both \in [Symbols -> Int]
      /\ \A s \in Symbols : both[s] = stop[s] + open[s]
  <2>1. /\ risk = [s \in Symbols |-> risk[s]] /\ open = [s \in Symbols |-> open[s]]
        /\ mark = [s \in Symbols |-> mark[s]] /\ stop = [s \in Symbols |-> stop[s]]
    OBVIOUS
  <2> HIDE DEF risk, open, mark, stop
  <2> QED BY <1>2, <2>1
<1> HIDE DEF risk, open, mark, stop, both
<1>4. /\ risk \in [Symbols -> Int] /\ open \in [Symbols -> Int]
      /\ \A s \in Symbols : risk[s] <= open[s] /\ mark[s] <= both[s]
  BY <1>2, <1>3
<1>5. SumFunction(open) \in Nat /\ SumFunction(risk) \in Nat
  BY <1>3, SymbolsFinite, TotalNat
<1>6. SumFunction(risk) <= SumFunction(open)
  BY <1>4, SymbolsFinite, TotalMonotone
<1>7. SumFunction(mark) <= SumFunction(both)
  BY <1>3, <1>4, SymbolsFinite, TotalMonotone
<1>8. SumFunction(both) = SumFunction(stop) + SumFunction(open)
  BY <1>3, <1>4, SymbolsFinite, TotalAdd
<1>9. SumFunction(mark) \in Int /\ SumFunction(stop) \in Int
  BY <1>3, SymbolsFinite, TotalType
<1> QED BY <1>1, <1>5, <1>6, <1>7, <1>8, <1>9

-----------------------------------------------------------------------------
(* An entry.                                                                *)
LEMMA SoughtType ==
    ASSUME TypeOK, NEW s \in Symbols, Seeks(loop, s, ThisBar, loop.offer)
    PROVE  /\ Sought(loop, s, ThisBar, loop.offer) \in Setup
           /\ account.status = "running" /\ s \notin Occupied(account.positions)
<1> DEFINE setup == Sought(loop, s, ThisBar, loop.offer)
<1>1. /\ account.status = "running" /\ s \notin Occupied(account.positions)
      /\ setup # NoSetup /\ SideOf(setup) = loop.offer.direction
  BY DEF Seeks
<1>2. ThisBar \in Nat /\ Expiry \in Nat
  BY PortfolioAssumption, MaxBarAssumption DEF ThisBar, TypeOK, Account
<1>3. CASE loop.pendings[s] # NoSetup
  <2>1. loop.pendings \in [Symbols -> Setup]
    BY DEF TypeOK, Loop
  <2>2. setup = loop.pendings[s]
    BY <1>3 DEF Sought
  <2> QED BY <1>1, <2>1, <2>2
<1>4. CASE loop.pendings[s] = NoSetup
  <2> DEFINE found == SetupOf[s][loop.offer.direction]
  <2>1. setup = [found EXCEPT !.from = ThisBar, !.until = ThisBar + Expiry]
    BY <1>1, <1>4 DEF Sought
  <2>2. loop.offer.direction \in {"long", "short"}
    BY <1>1 DEF SideOf
  <2>3. found \in Setup
    BY <2>2, PortfolioAssumption
  <2> HIDE DEF found, setup
  <2>4. setup \in Setup
    <3>1. \A f \in Setup, a \in Nat, b \in Nat : [f EXCEPT !.from = a, !.until = b] \in Setup
      BY DEF Setup
    <3>2. ThisBar + Expiry \in Nat
      BY <1>2
    <3> QED BY <1>2, <2>1, <2>3, <3>1, <3>2
  <2> QED BY <1>1, <2>4 DEF setup
<1> QED BY <1>3, <1>4

FilledNow(s) == Filled(loop, s, ThisBar, batch, loop.offer)
EntersNow(s) == EntryAllowed(loop, s, ThisBar, batch, loop.offer, FilledNow(s))

(* What Filled asks the risk engine for is a request on an account in a     *)
(* standing it knows, once the loop is at the symbol.                       *)
RequestNow(s) ==
    LET setup == Sought(loop, s, ThisBar, loop.offer)
    IN  RequestFor(s, setup, AdverseFill(EntryPrice(setup, batch[s].candle), setup.long))
FundsNow == FundsOf(loop, ThisBar, batch)
StandingNow == StandingOf(loop, batch)

(* The risk engine is asked about an account it can be asked about,         *)
LEMMA AccountNow ==
    ASSUME TypeOK, AllWhole(loop.positions), loop.peak >= 0
    PROVE  FundsNow \in Funds /\ StandingNow \in Standing
<1>1. loop.cash \in Int /\ loop.peak \in Nat /\ loop.dayOpen \in Int
  BY DEF TypeOK, Loop
<1>2. /\ AggregateRisk(loop, batch) \in Nat /\ EquityAtOpen(loop) \in Int
  BY <1>1, RiskBounds
<1>3. MarginUsed(loop, ThisBar) \in Nat
  BY MarginSum
<1> DEFINE f == [s \in Symbols |-> Unit * loop.positions[s].quantity * batch[s].candle.open]
           equity == EquityAtOpen(loop)
           risk == AggregateRisk(loop, batch)
<1>4. f \in [Symbols -> Nat]
  <2>1. ASSUME NEW s \in Symbols
        PROVE  Unit * loop.positions[s].quantity * batch[s].candle.open \in Nat
    <3>1. Whole(loop.positions[s])
      BY DEF AllWhole
    <3>2. loop.positions[s].quantity \in Nat
      BY <3>1, PositionTypes
    <3> QED BY <3>2, BatchTypes, UnitFacts
  <2> QED BY <2>1
<1>5. SumFunction(f) \in Nat
  <2> HIDE DEF f
  <2> QED BY <1>4, SymbolsFinite, TotalNat
<1>6. FundsNow = [available |-> Higher(0, loop.cash - MarginUsed(loop, ThisBar)),
                  equity |-> Higher(0, equity), exposure |-> SumFunction(f)]
  BY DEF FundsNow, FundsOf, EquityAtOpen
<1>7. StandingNow = [open |-> Cardinality(Occupied(loop.positions)), risk |-> risk,
                     loss |-> Higher(0, loop.dayOpen - equity) + risk,
                     peak |-> loop.peak, equity |-> equity, healthy |-> TRUE]
  BY DEF StandingNow, StandingOf, EquityAtOpen
<1> HIDE DEF f, equity, risk
<1>8. equity \in Int /\ risk \in Nat
  BY <1>2 DEF equity, risk
<1>9. FundsNow \in Funds
  BY <1>1, <1>3, <1>5, <1>6, <1>8 DEF Funds, Higher
<1>10. StandingNow \in Standing
  <2>1. Higher(0, loop.dayOpen - equity) \in Nat
    BY <1>1, <1>8 DEF Higher
  <2>2. Higher(0, loop.dayOpen - equity) + risk \in Nat
    BY <1>8, <2>1
  <2>3. Cardinality(Occupied(loop.positions)) \in Nat
    BY OccupiedCount
  <2> QED BY <1>1, <1>7, <1>8, <2>2, <2>3 DEF Standing
<1> QED BY <1>9, <1>10

(* and for a request it can be asked for.                                   *)
LEMMA RequestType ==
    ASSUME TypeOK, NEW s \in Symbols, Seeks(loop, s, ThisBar, loop.offer)
    PROVE  RequestNow(s) \in Request
<1> DEFINE setup == Sought(loop, s, ThisBar, loop.offer)
           price == AdverseFill(EntryPrice(setup, batch[s].candle), setup.long)
<1>1. setup \in Setup
  BY SoughtType
<1>2. batch[s].candle \in Candle
  BY BatchTypes
<1>3. price \in Nat
  <2> HIDE DEF setup
  <2> QED BY <1>1, <1>2, PriceFacts
<1>4. RequestNow(s) = RequestFor(s, setup, price)
  BY DEF RequestNow
<1>5. LeverageOf[s] \in Nat \ {0} /\ MaxLeverage \in Nat \ {0}
  BY PortfolioAssumption
<1> HIDE DEF setup, price
<1> QED BY <1>1, <1>3, <1>4, <1>5 DEF RequestFor, Request, Setup

(* What the risk engine and the margin check say of an entry that is made.  *)
LEMMA EntryFacts ==
    ASSUME TypeOK, AllWhole(loop.positions), loop.peak >= 0, ThisBar <= MaxBar,
           NEW s \in Symbols, EntersNow(s)
    PROVE  LET p == FilledNow(s)
           IN  /\ Whole(p) /\ p.quantity # 0
               /\ p.entered = ThisBar /\ p.held = 0 /\ p.funding = 0
               /\ AtStop(p) = p.fee - p.risk
               /\ account.status = "running" /\ s \notin Occupied(account.positions)
               /\ AggregateRisk(loop, batch) + p.risk <= RiskPolicy.aggregate
               /\ StandingNow.loss + p.risk <= RiskPolicy.daily
               /\ Cardinality(Occupied(loop.positions)) < RiskPolicy.positions
               /\ Margin(p) + p.fee <= loop.cash - MarginUsed(loop, ThisBar)
<1> DEFINE p == FilledNow(s)
           setup == Sought(loop, s, ThisBar, loop.offer)
           price == AdverseFill(EntryPrice(setup, batch[s].candle), setup.long)
           q == RequestNow(s)
           n == SizePosition(q, FundsNow, StandingNow, RiskPolicy, RulesOf[s])
<1>1. /\ TriggerOf(loop, s, ThisBar, batch, loop.offer) = "triggered"
      /\ p.quantity # 0
      /\ Affordable(loop, ThisBar, p)
  BY DEF EntersNow, EntryAllowed
<1>2. Seeks(loop, s, ThisBar, loop.offer)
  BY <1>1 DEF TriggerOf
<1>3. setup \in Setup /\ account.status = "running" /\ s \notin Occupied(account.positions)
  BY <1>2, SoughtType
<1>4. price \in Nat /\ batch[s].candle \in Candle
  <2> HIDE DEF setup
  <2> QED BY <1>3, BatchTypes, PriceFacts
<1>5. p = [setup |-> setup, quantity |-> n, price |-> price,
           fee |-> Fee(n, price, FeeUnits), entered |-> ThisBar, held |-> 0, funding |-> 0,
           leverage |-> LeverageOf[s], risk |-> n * UnitLoss(q)]
  BY DEF FilledNow, Filled, RequestNow, FundsNow, StandingNow
<1>6. q = [long |-> setup.long, entry |-> price, stop |-> setup.stop, target |-> setup.target,
           leverage |-> LeverageOf[s], maxLeverage |-> MaxLeverage, bracket |-> 0]
  BY DEF RequestNow, RequestFor
<1>7. q \in Request /\ FundsNow \in Funds /\ StandingNow \in Standing
      /\ RiskPolicy \in Policy /\ RulesOf[s] \in Rules
  BY <1>2, RequestType, AccountNow, PortfolioAssumption
<1> HIDE DEF setup, price, q, p
<1>8. n # 0
  BY <1>1, <1>5
<1>9. /\ n \in Int /\ n >= RulesOf[s].minQuantity
      /\ WithinLimits(n, q, FundsNow, StandingNow, RiskPolicy, RulesOf[s])
  BY <1>7, <1>8, SizedWithinLimits
<1>10. Eligible(q, StandingNow, RiskPolicy, RulesOf[s]) /\ Room(q, FundsNow, RiskPolicy)
  BY <1>8 DEF SizePosition
<1> HIDE DEF n
<1>11. n \in Nat /\ n > 0
  BY <1>7, <1>8, <1>9 DEF Rules
<1>12. UnitLoss(q) \in Nat \ {0}
  BY <1>7, <1>10, LossIsPositive DEF Eligible, Room
<1>13. n * UnitLoss(q) \in Nat
  <2> DEFINE u == UnitLoss(q)
  <2>1. u \in Nat
    BY <1>12
  <2> HIDE DEF u
  <2>2. n * u \in Nat
    BY <1>11, <2>1
  <2> QED BY <2>2 DEF u
<1>14. Fee(n, price, FeeUnits) \in Nat
  <2>1. n * price \in Nat
    BY <1>4, <1>11
  <2>2. (n * price) * FeeUnits \in Nat
    BY <2>1, UnitFacts
  <2> QED BY <2>2 DEF Fee
<1>15. ThisBar \in 0..MaxBar /\ ThisBar > 0
  BY MaxBarAssumption DEF ThisBar, TypeOK, Account
<1>16. LeverageOf[s] \in Nat \ {0}
  BY PortfolioAssumption
<1>17. p \in Position
  BY <1>3, <1>4, <1>5, <1>11, <1>13, <1>14, <1>15, <1>16 DEF Position
<1>18. Ordered(p)
  <2>1. /\ IF q.long THEN q.stop < q.entry ELSE q.entry < q.stop
        /\ Reward(q) > 0
    BY <1>10 DEF Eligible
  <2>2. setup.long \in BOOLEAN /\ setup.stop \in Nat /\ setup.target \in Nat
    BY <1>3 DEF Setup
  <2>3. Reward(q) = IF setup.long THEN setup.target - price ELSE price - setup.target
    BY <1>6 DEF Reward
  <2>4. IF setup.long THEN setup.stop < price ELSE price < setup.stop
    BY <1>6, <2>1
  <2> QED BY <1>4, <1>5, <2>1, <2>2, <2>3, <2>4 DEF Ordered
<1>19. Whole(p)
  BY <1>1, <1>4, <1>5, <1>13, <1>14, <1>15, <1>17, <1>18 DEF Whole
<1>20. AtStop(p) = p.fee - p.risk
  <2> DEFINE stop == AdverseFill(setup.stop, ~setup.long)
  <2>1. setup.long \in BOOLEAN /\ setup.stop \in Nat
    BY <1>3 DEF Setup
  <2>2. stop \in Nat
    BY <1>3, <1>4, PriceFacts
  <2>3. StopFillOf(p) = stop /\ StopFill(q) = stop
    BY <1>5, <1>6 DEF StopFillOf, StopFill
  <2>4. Distance(q) + Slippage(q) = IF setup.long THEN price - stop ELSE stop - price
    <3> HIDE DEF stop
    <3>1. IF setup.long THEN setup.stop < price ELSE price < setup.stop
      BY <1>6, <1>10 DEF Eligible
    <3> QED BY <1>4, <1>6, <2>1, <2>2, <2>3, <3>1 DEF Distance, Slippage
  <2> HIDE DEF stop
  <2>5. UnitLoss(q) = Unit * (Distance(q) + Slippage(q)) + FeeUnits * (price + stop)
    BY <1>6, <2>3 DEF UnitLoss
  <2>6. AtStop(p) = Unit * n * (IF setup.long THEN stop - price ELSE price - stop)
                      - n * stop * FeeUnits
    BY <1>5, <2>3 DEF AtStop, Pnl, Fee
  <2>7. p.fee = n * price * FeeUnits /\ p.risk = n * UnitLoss(q)
    BY <1>5 DEF Fee
  <2>8. CASE setup.long
    <3>1. /\ UnitLoss(q) = Unit * (price - stop) + FeeUnits * (price + stop)
          /\ AtStop(p) = Unit * n * (stop - price) - n * stop * FeeUnits
      BY <2>4, <2>5, <2>6, <2>8
    <3>2. p.risk = n * (Unit * (price - stop) + FeeUnits * (price + stop))
      BY <2>7, <3>1
    <3> QED BY <1>4, <1>11, <2>2, <2>7, <3>1, <3>2, UnitFacts
  <2>9. CASE ~setup.long
    <3>1. /\ UnitLoss(q) = Unit * (stop - price) + FeeUnits * (price + stop)
          /\ AtStop(p) = Unit * n * (price - stop) - n * stop * FeeUnits
      BY <2>4, <2>5, <2>6, <2>9
    <3>2. p.risk = n * (Unit * (stop - price) + FeeUnits * (price + stop))
      BY <2>7, <3>1
    <3> QED BY <1>4, <1>11, <2>2, <2>7, <3>1, <3>2, UnitFacts
  <2> QED BY <2>8, <2>9
<1>21. /\ AggregateRisk(loop, batch) + p.risk <= RiskPolicy.aggregate
       /\ StandingNow.loss + p.risk <= RiskPolicy.daily
       /\ Cardinality(Occupied(loop.positions)) < RiskPolicy.positions
  <2>1. StandingNow.risk = AggregateRisk(loop, batch)
        /\ StandingNow.open = Cardinality(Occupied(loop.positions))
    BY DEF StandingNow, StandingOf
  <2>2. StandingNow.open < RiskPolicy.positions
    BY <1>10 DEF Eligible
  <2>3. p.risk = n * UnitLoss(q)
    BY <1>5
  <2> QED BY <1>9, <2>1, <2>2, <2>3 DEF WithinLimits
<1>22. Margin(p) + p.fee <= loop.cash - MarginUsed(loop, ThisBar)
  <2> DEFINE cost == Margin(p) + p.fee
             free == loop.cash - MarginUsed(loop, ThisBar)
             keep == Unit - RiskPolicy.reserve
  <2>1. cost \in Nat
    BY <1>19, MarginType, PositionTypes
  <2>2. free \in Int
    BY MarginSum DEF TypeOK, Loop
  <2>3. keep \in Int /\ keep >= 0 /\ keep <= Unit
    BY <1>7, UnitFacts DEF Policy
  <2>4. Unit * cost <= free * keep
    BY <1>1 DEF Affordable
  <2>7. cost > 0
    <3> DEFINE share == Unit \div LeverageOf[s]
    <3>1. LeverageOf[s] \in 1..Unit
      BY PortfolioAssumption
    <3>2. share \in Nat /\ share >= 1
      BY <3>1, UnitFacts, Quotient
    <3>3. price > 0
      BY <1>6, <1>10 DEF Eligible, WithinPrices
    <3>4. Margin(p) = n * price * share
      BY <1>5 DEF Margin
    <3> HIDE DEF share
    <3>5. n * price >= 1
      BY <1>4, <1>11, <3>3
    <3>6. n * price * share >= 1
      BY <1>4, <1>11, <3>2, <3>5
    <3>7. Margin(p) >= 1 /\ p.fee \in Nat /\ Margin(p) \in Nat
      BY <1>5, <1>14, <1>19, <3>4, <3>6, MarginType
    <3> QED BY <3>7
  <2> HIDE DEF cost, free, keep
  <2>5. CASE free < 0
    <3>1. free * keep <= 0
      BY <2>2, <2>3, <2>5
    <3>2. Unit * cost >= 0
      BY <2>1, UnitFacts
    <3>3. Unit * cost = 0
      BY <2>1, <2>2, <2>3, <2>4, <3>1, <3>2, UnitFacts
    <3>4. cost = 0
      BY <2>1, <3>3, UnitFacts
    <3> QED BY <2>7, <3>4
  <2>6. CASE free >= 0
    <3>1. free * keep <= free * Unit
      BY <2>2, <2>3, <2>6, UnitFacts
    <3>2. cost * Unit <= free * Unit
      BY <2>1, <2>2, <2>3, <2>4, <3>1, UnitFacts
    <3>3. cost <= free
      BY <2>1, <2>2, <3>2, UnitFacts
    <3> QED BY <3>3 DEF cost, free
  <2> QED BY <2>2, <2>5, <2>6
<1> QED
  <2> HIDE DEF p
  <2>1. p.entered = ThisBar /\ p.held = 0 /\ p.funding = 0
    BY <1>5
  <2> QED BY <1>1, <1>3, <1>19, <1>20, <1>21, <1>22, <2>1 DEF p

-----------------------------------------------------------------------------
(* The invariant at the start, and the steps other than the loop's.         *)
LEMMA SmallTypes ==
    /\ NoSetup \in Setup /\ NoPosition \in Position
    /\ NoOffer \in Offer /\ Idle \in Loop
    /\ StartCash \in Nat /\ RiskPolicy.aggregate \in Nat /\ RiskPolicy.positions \in Nat
    /\ RiskPolicy.daily \in Nat
<1>1. NoSetup \in Setup
  BY DEF NoSetup, Setup
<1>2. NoPosition \in Position
  BY NoPositionWhole DEF Whole
<1>3. NoOffer \in Offer
  BY DEF NoOffer, Offer
<1>4. 0 \in 0..Len(Order) + 1
  BY OrderFacts
<1>5. Idle \in Loop
  BY <1>1, <1>2, <1>3, <1>4 DEF Idle, Loop
<1>6. RiskPolicy \in Policy /\ StartCash \in Nat
  BY PortfolioAssumption
<1>7. RiskPolicy.aggregate \in Nat /\ RiskPolicy.positions \in Nat /\ RiskPolicy.daily \in Nat
  BY <1>6 DEF Policy
<1> QED BY <1>1, <1>2, <1>3, <1>5, <1>6, <1>7

(* An account that holds nothing has no cost and no risk.                   *)
LEMMA NothingHeld ==
    ASSUME NEW positions, positions = [s \in Symbols |-> NoPosition]
    PROVE  /\ WithinRisk(positions) /\ Occupied(positions) = {}
           /\ SumFunction([s \in Symbols |-> positions[s].funding - positions[s].fee]) = 0
<1> DEFINE risk == [s \in Symbols |-> positions[s].risk]
           cost == [s \in Symbols |-> positions[s].funding - positions[s].fee]
<1>1. risk \in [Symbols -> {0}] /\ cost \in [Symbols -> {0}]
  BY NothingCounts
<1>2. Occupied(positions) = {}
  BY NothingCounts DEF Occupied
<1>3. Cardinality(Occupied(positions)) = 0
  BY <1>2, FS_EmptySet
<1> HIDE DEF risk, cost
<1>4. SumFunction(risk) = 0 /\ SumFunction(cost) = 0
  BY <1>1, SymbolsFinite, TotalZero
<1>5. WithinRisk(positions)
  BY <1>3, <1>4, SmallTypes DEF WithinRisk, risk
<1> QED BY <1>2, <1>4, <1>5 DEF cost

(* The invariant holds of a run that is not created yet.                    *)
LEMMA InitIInv == Init => IInv
<1> SUFFICES ASSUME Init PROVE IInv
  OBVIOUS
<1> DEFINE P == account.positions
<1>1. /\ P = [s \in Symbols |-> NoPosition]
      /\ account.pendings = [s \in Symbols |-> NoSetup]
      /\ account.last = 0 /\ account.peak = StartCash /\ account.cash = StartCash
      /\ account.realized = 0 /\ account.status = "absent"
      /\ batch = NoBatch /\ loop = Idle /\ loop.next = 0
  BY DEF Init, Idle
<1>2. account \in Account
  BY SmallTypes, MaxBarAssumption DEF Init, Account, Statuses, Processing
<1>3. TypeOK
  BY <1>1, <1>2, SmallTypes DEF TypeOK
<1>4. AccountInv
  <2>1. \A s \in Symbols : Whole(P[s]) /\ P[s].entered <= 0
    BY <1>1, NoPositionWhole, NothingCounts
  <2>2. account.cash = ExplainedCash(P) /\ WithinRisk(P)
    BY <1>1, NothingHeld, SmallTypes DEF ExplainedCash
  <2>3. PendingsAreLive
    BY <1>1 DEF PendingsAreLive
  <2> QED BY <1>1, <2>1, <2>2, <2>3, SmallTypes DEF AccountInv
<1> QED BY <1>1, <1>3, <1>4 DEF IInv

(* Steps that leave the positions and the money alone.                      *)
LEMMA BooksKept ==
    ASSUME IInv, account' \in Account, loop' = loop, batch' = batch,
           account'.positions = account.positions, account'.cash = account.cash,
           account'.realized = account.realized, account'.peak = account.peak,
           account'.last = account.last, PendingsAreLive', loop.next = 0
    PROVE  IInv'
<1>1. TypeOK'
  BY DEF IInv, TypeOK
<1>2. ExplainedCash(account.positions)' = ExplainedCash(account.positions)
  BY DEF ExplainedCash
<1>3. AccountInv'
  BY <1>2 DEF IInv, AccountInv, WithinRisk, Occupied, ExplainedCash
<1> QED BY <1>1, <1>3 DEF IInv

(* Creating a run keeps it.                                                 *)
LEMMA CreateIInv == ASSUME IInv, Create PROVE IInv'
<1>1. /\ loop = Idle /\ account' = [account EXCEPT !.status = "paused"]
      /\ account.status = "absent" /\ batch' = batch /\ loop' = loop
  BY DEF Create
<1>2. loop.next = 0 /\ account \in Account
  BY <1>1 DEF Idle, IInv, TypeOK
<1>3. account' \in Account
  BY <1>1, <1>2 DEF Account, Statuses, Processing
<1>4. PendingsAreLive'
  BY <1>1, <1>2 DEF IInv, AccountInv, PendingsAreLive, Account
<1> QED BY <1>1, <1>2, <1>3, <1>4, BooksKept DEF Account

(* An operator's action keeps it: it drops what is pending.                 *)
LEMMA ControlIInv == ASSUME IInv, NEW action \in Actions, Control(action) PROVE IInv'
<1>1. /\ loop = Idle /\ batch' = batch /\ loop' = loop
      /\ account' = [account EXCEPT !.status = ControlStatus(RowOf(account), action),
                                    !.fault = action # "recover" /\ @,
                                    !.pendings = [s \in Symbols |-> NoSetup]]
  BY DEF Control
<1>2. loop.next = 0 /\ account \in Account
  BY <1>1 DEF Idle, IInv, TypeOK
<1>3. ControlStatus(RowOf(account), action) \in Statuses
  BY DEF ControlStatus, Statuses, Processing, Actions
<1>4. account' \in Account
  <2> DEFINE status == ControlStatus(RowOf(account), action)
             fault == action # "recover" /\ account.fault
  <2>1. status \in Statuses /\ fault \in BOOLEAN
    BY <1>3
  <2>2. account' = [account EXCEPT !.status = status, !.fault = fault,
                                   !.pendings = [s \in Symbols |-> NoSetup]]
    BY <1>1, <1>2 DEF Account
  <2>3. [s \in Symbols |-> NoSetup] \in [Symbols -> Setup]
    BY SmallTypes
  <2> HIDE DEF status, fault
  <2> QED BY <1>2, <2>1, <2>2, <2>3 DEF Account
<1>5. account'.pendings = [s \in Symbols |-> NoSetup]
  BY <1>1, <1>2 DEF Account
<1>6. PendingsAreLive'
  BY <1>5 DEF PendingsAreLive
<1> QED BY <1>1, <1>2, <1>4, <1>6, BooksKept DEF Account

(* A fault keeps it.                                                        *)
LEMMA FaultIInv == ASSUME IInv, Fault PROVE IInv'
<1>1. /\ loop = Idle /\ batch' = batch /\ loop' = loop
      /\ account' = [account EXCEPT !.status = "faulted", !.fault = TRUE,
                                    !.pendings = [s \in Symbols |-> NoSetup]]
  BY DEF Fault
<1>2. loop.next = 0 /\ account \in Account
  BY <1>1 DEF Idle, IInv, TypeOK
<1>3. [s \in Symbols |-> NoSetup] \in [Symbols -> Setup]
  BY SmallTypes
<1>4. account' \in Account
  BY <1>1, <1>2, <1>3 DEF Account, Statuses, Processing
<1>5. account'.pendings = [s \in Symbols |-> NoSetup]
  BY <1>1, <1>2 DEF Account
<1>6. PendingsAreLive'
  BY <1>5 DEF PendingsAreLive
<1> QED BY <1>1, <1>2, <1>4, <1>6, BooksKept DEF Account

(* The next bars keep it.                                                   *)
LEMMA CloseBatchIInv == ASSUME IInv, NEW bars \in Batches, CloseBatch(bars) PROVE IInv'
<1>1. /\ batch = NoBatch /\ account.last < MaxBar
      /\ batch' = bars /\ account' = account /\ loop' = loop
  BY DEF CloseBatch
<1>2. loop.next = 0 /\ loop = Idle
  BY <1>1 DEF IInv, LoopInv
<1>3. TypeOK'
  BY <1>1 DEF IInv, TypeOK
<1>4. AccountInv'
  BY <1>1 DEF IInv, AccountInv, WithinRisk, Occupied, ExplainedCash, PendingsAreLive
<1> QED BY <1>1, <1>2, <1>3, <1>4 DEF IInv

-----------------------------------------------------------------------------
(* The batch is taken up.                                                   *)
LEMMA AccountWhole ==
    ASSUME IInv
    PROVE  /\ AllWhole(account.positions) /\ account.positions \in [Symbols -> Position]
           /\ account.pendings \in [Symbols -> Setup]
           /\ account.cash \in Int /\ account.realized \in Int /\ account.dayOpen \in Int
           /\ account.equity \in Int /\ account.peak \in Nat /\ account.last \in 0..MaxBar
           /\ \A s \in Symbols : account.positions[s].entered < ThisBar
<1>1. account \in Account /\ account.peak >= 0
  BY DEF IInv, TypeOK, AccountInv
<1>2. AllWhole(account.positions)
  BY <1>1 DEF AllWhole, Account, IInv, AccountInv
<1>3. account.peak \in Nat /\ account.last \in 0..MaxBar
  BY <1>1 DEF Account
<1>4. \A s \in Symbols : account.positions[s].entered < ThisBar
  <2> TAKE s \in Symbols
  <2>1. account.positions[s].entered \in 0..MaxBar
    BY <1>2, PositionTypes DEF AllWhole
  <2>2. account.positions[s].entered <= account.last
    BY DEF IInv, AccountInv
  <2> QED BY <1>3, <2>1, <2>2, MaxBarAssumption DEF ThisBar
<1> QED BY <1>1, <1>2, <1>3, <1>4 DEF Account

(* Taking up the batch: the locals are the account's.                       *)
LEMMA StartBarIInv ==
    ASSUME IInv, NEW offer \in Offers \cup {NoOffer}, StartBar(offer)
    PROVE  IInv'
<1> DEFINE P == account.positions
           mark == MarkedAt(P, Opens(batch))
<1>1. /\ batch # NoBatch /\ loop = Idle /\ account.status \in Processing
      /\ batch' = batch /\ account' = account
      /\ loop' = [next |-> 1, cash |-> account.cash,
                  peak |-> Higher(account.peak, account.cash + mark),
                  dayOpen |-> IF ThisBar \in DayStarts THEN account.equity
                              ELSE account.dayOpen,
                  offer |-> offer, pendings |-> account.pendings, positions |-> P]
  BY DEF StartBar
<1>2. /\ AllWhole(P) /\ P \in [Symbols -> Position]
      /\ account.pendings \in [Symbols -> Setup]
      /\ account.cash \in Int /\ account.dayOpen \in Int
      /\ account.equity \in Int /\ account.peak \in Nat
      /\ \A s \in Symbols : P[s].entered < ThisBar
  BY AccountWhole
<1>3. mark \in Int
  BY <1>2, BatchPrices, MarkType DEF IInv
<1> HIDE DEF mark
<1>4. /\ loop'.next = 1 /\ loop'.cash = account.cash /\ loop'.positions = P
      /\ loop'.pendings = account.pendings
      /\ loop'.peak = Higher(account.peak, account.cash + mark)
      /\ ThisBar' = ThisBar
  BY <1>1 DEF ThisBar
<1>5. loop'.peak \in Int /\ loop'.peak >= 0
  BY <1>2, <1>3, <1>4 DEF Higher
<1>6. loop' \in Loop
  <2>1. 1 \in 0..Len(Order) + 1
    BY OrderFacts
  <2>2. offer \in Offer
    BY PortfolioAssumption, SmallTypes
  <2>3. (IF ThisBar \in DayStarts THEN account.equity ELSE account.dayOpen) \in Int
    BY <1>2
  <2> QED BY <1>1, <1>2, <1>4, <1>5, <2>1, <2>2, <2>3 DEF Loop
<1>7. TypeOK'
  BY <1>1, <1>6 DEF IInv, TypeOK
<1>8. AccountInv'
  BY <1>1 DEF IInv, AccountInv, WithinRisk, Occupied, ExplainedCash, PendingsAreLive
<1>9. ExplainedCash(loop.positions)' = ExplainedCash(P)
  BY <1>1, <1>4 DEF ExplainedCash
<1>10. Walked'
  <2>1. \A s \in Symbols : account'.pendings[s] # NoSetup =>
          account'.status = "running" /\ account'.positions[s] = NoPosition
    BY <1>8 DEF AccountInv, PendingsAreLive
  <2> QED BY <1>1, <1>2, <1>4, <2>1 DEF Walked, AllWhole
<1>11. WithinRisk(loop.positions)'
  BY <1>4, <1>8, <1>1 DEF AccountInv, WithinRisk, Occupied
<1>12. \A s \in Symbols : ~Fresh(s)'
  <2> TAKE s \in Symbols
  <2>1. P[s].entered < ThisBar /\ P[s].entered \in 0..MaxBar
    BY <1>2, PositionTypes DEF AllWhole
  <2>2. P[s].entered # ThisBar
    BY <2>1, AccountWhole DEF ThisBar
  <2> QED BY <1>4, <2>2 DEF Fresh
<1>13. FitsCash' /\ Budgeted'
  <2> DEFINE fees == [s \in Symbols |-> IF Fresh(s)' THEN P[s].fee ELSE 0]
  <2>1. fees \in [Symbols -> {0}]
    BY <1>12
  <2>2. FeesPaid' = SumFunction(fees)
    BY <1>4 DEF FeesPaid
  <2> HIDE DEF fees
  <2>3. FeesPaid' = 0
    BY <2>1, <2>2, SymbolsFinite, TotalZero
  <2>4. loop'.cash = account'.cash - FeesPaid'
    BY <1>1, <1>2, <1>4, <2>3
  <2> QED BY <1>12, <2>4 DEF FitsCash, Budgeted
<1>14. LoopInv'
  <2>1. loop'.cash = ExplainedCash(loop.positions)'
    BY <1>4, <1>9 DEF IInv, AccountInv
  <2> QED BY <1>1, <1>5, <1>10, <1>11, <1>13, <2>1 DEF LoopInv
<1>15. batch' # NoBatch => account'.last < MaxBar
  BY <1>1 DEF IInv
<1> QED BY <1>4, <1>7, <1>8, <1>14, <1>15 DEF IInv

-----------------------------------------------------------------------------
(* A position more on the books: every total grows by what it counts.       *)
LEMMA GrowsBy ==
    ASSUME NEW f \in [Symbols -> Int], NEW g \in [Symbols -> Int], NEW s \in Symbols,
           f[s] = 0, \A r \in Symbols \ {s} : f[r] = g[r]
    PROVE  SumFunction(g) = SumFunction(f) + g[s]
<1>1. SumFunction(g) = SumFunction(f) - f[s] + g[s]
  BY SymbolsFinite, TotalUpdate
<1>2. SumFunction(f) \in Int /\ g[s] \in Int
  BY SymbolsFinite, TotalType
<1> QED BY <1>1, <1>2

CostSum(positions) == SumFunction([s \in Symbols |-> positions[s].funding - positions[s].fee])
RiskSum(positions) == SumFunction([s \in Symbols |-> positions[s].risk])
MarginTotal(positions) == SumFunction([s \in Symbols |-> Margin(positions[s])])
StopSum(positions) == SumFunction([s \in Symbols |-> AtStop(positions[s])])

(* The totals of whole positions are amounts.                               *)
LEMMA SumTypes ==
    ASSUME NEW positions, AllWhole(positions)
    PROVE  /\ [s \in Symbols |-> positions[s].funding - positions[s].fee] \in [Symbols -> Int]
           /\ [s \in Symbols |-> positions[s].risk] \in [Symbols -> Int]
           /\ [s \in Symbols |-> Margin(positions[s])] \in [Symbols -> Int]
           /\ [s \in Symbols |-> AtStop(positions[s])] \in [Symbols -> Int]
           /\ CostSum(positions) \in Int /\ RiskSum(positions) \in Int
           /\ MarginTotal(positions) \in Int /\ StopSum(positions) \in Int
<1> DEFINE cost == [s \in Symbols |-> positions[s].funding - positions[s].fee]
           risk == [s \in Symbols |-> positions[s].risk]
           margin == [s \in Symbols |-> Margin(positions[s])]
           stop == [s \in Symbols |-> AtStop(positions[s])]
<1>1. ASSUME NEW s \in Symbols
      PROVE  /\ positions[s].funding - positions[s].fee \in Int /\ positions[s].risk \in Int
             /\ Margin(positions[s]) \in Int /\ AtStop(positions[s]) \in Int
  <2>1. Whole(positions[s])
    BY DEF AllWhole
  <2>2. positions[s].funding \in Int /\ positions[s].fee \in Int /\ positions[s].risk \in Int
    BY <2>1, PositionTypes
  <2> QED BY <2>1, <2>2, MarginType, AtStopType
<1>2. /\ cost \in [Symbols -> Int] /\ risk \in [Symbols -> Int]
      /\ margin \in [Symbols -> Int] /\ stop \in [Symbols -> Int]
  BY <1>1
<1>3. /\ CostSum(positions) = SumFunction(cost) /\ RiskSum(positions) = SumFunction(risk)
      /\ MarginTotal(positions) = SumFunction(margin) /\ StopSum(positions) = SumFunction(stop)
  BY DEF CostSum, RiskSum, MarginTotal, StopSum
<1> HIDE DEF cost, risk, margin, stop
<1>4. /\ SumFunction(cost) \in Int /\ SumFunction(risk) \in Int
      /\ SumFunction(margin) \in Int /\ SumFunction(stop) \in Int
  BY <1>2, SymbolsFinite, TotalType
<1> QED BY <1>2, <1>3, <1>4 DEF cost, risk, margin, stop

(* One position more, where there was none.                                 *)
LEMMA PositionMore ==
    ASSUME NEW P, AllWhole(P), NEW s \in Symbols, P[s] = NoPosition,
           NEW p, Whole(p), p.quantity # 0, NEW Q, Q = [P EXCEPT ![s] = p]
    PROVE  /\ AllWhole(Q) /\ Q[s] = p /\ \A r \in Symbols \ {s} : Q[r] = P[r]
           /\ CostSum(Q) = CostSum(P) + (p.funding - p.fee)
           /\ RiskSum(Q) = RiskSum(P) + p.risk
           /\ MarginTotal(Q) = MarginTotal(P) + Margin(p)
           /\ StopSum(Q) = StopSum(P) + AtStop(p)
           /\ Cardinality(Occupied(Q)) = Cardinality(Occupied(P)) + 1
<1>1. P \in [Symbols -> Position] /\ p \in Position
  BY PositionTypes DEF AllWhole
<1>2. Q \in [Symbols -> Position] /\ Q[s] = p /\ \A r \in Symbols \ {s} : Q[r] = P[r]
  BY <1>1
<1>3. AllWhole(Q)
  <2>1. \A r \in Symbols : Whole(P[r])
    BY DEF AllWhole
  <2>2. \A r \in Symbols : Whole(Q[r])
    BY <1>2, <2>1
  <2> QED BY <1>2, <2>2 DEF AllWhole
<1>4. CostSum(Q) = CostSum(P) + (p.funding - p.fee)
  <2> DEFINE f == [r \in Symbols |-> P[r].funding - P[r].fee]
             g == [r \in Symbols |-> Q[r].funding - Q[r].fee]
  <2>1. f \in [Symbols -> Int] /\ g \in [Symbols -> Int]
    BY <1>3, SumTypes
  <2>2. f[s] = 0 /\ \A r \in Symbols \ {s} : f[r] = g[r]
    BY <1>2, NothingCounts
  <2>3. g[s] = p.funding - p.fee
    BY <1>2
  <2>4. CostSum(P) = SumFunction(f) /\ CostSum(Q) = SumFunction(g)
    BY DEF CostSum
  <2> HIDE DEF f, g
  <2> QED BY <2>1, <2>2, <2>3, <2>4, GrowsBy
<1>5. RiskSum(Q) = RiskSum(P) + p.risk
  <2> DEFINE f == [r \in Symbols |-> P[r].risk]
             g == [r \in Symbols |-> Q[r].risk]
  <2>1. f \in [Symbols -> Int] /\ g \in [Symbols -> Int]
    BY <1>3, SumTypes
  <2>2. f[s] = 0 /\ \A r \in Symbols \ {s} : f[r] = g[r]
    BY <1>2, NothingCounts
  <2>3. g[s] = p.risk
    BY <1>2
  <2>4. RiskSum(P) = SumFunction(f) /\ RiskSum(Q) = SumFunction(g)
    BY DEF RiskSum
  <2> HIDE DEF f, g
  <2> QED BY <2>1, <2>2, <2>3, <2>4, GrowsBy
<1>6. MarginTotal(Q) = MarginTotal(P) + Margin(p)
  <2> DEFINE f == [r \in Symbols |-> Margin(P[r])]
             g == [r \in Symbols |-> Margin(Q[r])]
  <2>1. f \in [Symbols -> Int] /\ g \in [Symbols -> Int]
    BY <1>3, SumTypes
  <2>2. f[s] = 0 /\ \A r \in Symbols \ {s} : f[r] = g[r]
    BY <1>2, NothingCounts
  <2>3. g[s] = Margin(p)
    BY <1>2
  <2>4. MarginTotal(P) = SumFunction(f) /\ MarginTotal(Q) = SumFunction(g)
    BY DEF MarginTotal
  <2> HIDE DEF f, g
  <2> QED BY <2>1, <2>2, <2>3, <2>4, GrowsBy
<1>7. StopSum(Q) = StopSum(P) + AtStop(p)
  <2> DEFINE f == [r \in Symbols |-> AtStop(P[r])]
             g == [r \in Symbols |-> AtStop(Q[r])]
  <2>1. f \in [Symbols -> Int] /\ g \in [Symbols -> Int]
    BY <1>3, SumTypes
  <2>2. f[s] = 0 /\ \A r \in Symbols \ {s} : f[r] = g[r]
    BY <1>2, NothingCounts
  <2>3. g[s] = AtStop(p)
    BY <1>2
  <2>4. StopSum(P) = SumFunction(f) /\ StopSum(Q) = SumFunction(g)
    BY DEF StopSum
  <2> HIDE DEF f, g
  <2> QED BY <2>1, <2>2, <2>3, <2>4, GrowsBy
<1>8. Cardinality(Occupied(Q)) = Cardinality(Occupied(P)) + 1
  <2>1. s \notin Occupied(P)
    BY NothingCounts DEF Occupied
  <2>2. Occupied(Q) = Occupied(P) \cup {s}
    BY <1>2 DEF Occupied
  <2> QED BY <2>1, <2>2, OccupiedCount, FS_AddElement
<1> QED BY <1>2, <1>3, <1>4, <1>5, <1>6, <1>7, <1>8

(* The parts of the invariant in these totals.                              *)
LEMMA InTotals ==
    /\ \A positions : ExplainedCash(positions)
         = StartCash + account.realized + CostSum(positions)
    /\ \A positions : WithinRisk(positions) <=>
         /\ RiskSum(positions) <= RiskPolicy.aggregate
         /\ Cardinality(Occupied(positions)) <= RiskPolicy.positions
    /\ \A st, b : MarginUsed(st, b) = MarginTotal(st.positions)
    /\ \A st : EquityAtStops(st) = st.cash + StopSum(st.positions)
BY DEF ExplainedCash, CostSum, WithinRisk, RiskSum, MarginUsed, MarginTotal, EquityAtStops,
       StopSum, AtStop

FeesOf(positions, b) ==
    SumFunction([s \in Symbols |-> IF positions[s].entered = b THEN positions[s].fee ELSE 0])

(* The fees of the bar's entries grow by its fee.                           *)
LEMMA FeesMore ==
    ASSUME NEW P, AllWhole(P), NEW s \in Symbols, P[s] = NoPosition,
           NEW p, Whole(p), p.quantity # 0, NEW Q, Q = [P EXCEPT ![s] = p], NEW b, p.entered = b
    PROVE  FeesOf(Q, b) = FeesOf(P, b) + p.fee /\ FeesOf(P, b) \in Int
<1>1. AllWhole(Q) /\ Q[s] = p /\ \A r \in Symbols \ {s} : Q[r] = P[r]
  <2>1. P \in [Symbols -> Position] /\ p \in Position
    BY PositionTypes DEF AllWhole
  <2>2. Q \in [Symbols -> Position] /\ Q[s] = p /\ \A r \in Symbols \ {s} : Q[r] = P[r]
    BY <2>1
  <2>3. \A r \in Symbols : Whole(P[r])
    BY DEF AllWhole
  <2>4. \A r \in Symbols : Whole(Q[r])
    BY <2>2, <2>3
  <2> QED BY <2>2, <2>4 DEF AllWhole
<1> DEFINE f == [r \in Symbols |-> IF P[r].entered = b THEN P[r].fee ELSE 0]
           g == [r \in Symbols |-> IF Q[r].entered = b THEN Q[r].fee ELSE 0]
<1>2. \A r \in Symbols : P[r].fee \in Int /\ Q[r].fee \in Int
  BY <1>1, PositionTypes DEF AllWhole
<1>3. f \in [Symbols -> Int] /\ g \in [Symbols -> Int]
  BY <1>2
<1>4. f[s] = 0 /\ \A r \in Symbols \ {s} : f[r] = g[r]
  BY <1>1, NothingCounts
<1>5. g[s] = p.fee
  BY <1>1
<1>6. FeesOf(P, b) = SumFunction(f) /\ FeesOf(Q, b) = SumFunction(g)
  BY DEF FeesOf
<1> HIDE DEF f, g
<1> QED BY <1>3, <1>4, <1>5, <1>6, GrowsBy, SymbolsFinite, TotalType

-----------------------------------------------------------------------------
(* One symbol of the loop.                                                  *)
LEMMA LoopWhole ==
    ASSUME IInv, loop.next # 0
    PROVE  /\ LoopInv /\ AllWhole(loop.positions) /\ loop.positions \in [Symbols -> Position]
           /\ loop.pendings \in [Symbols -> Setup]
           /\ loop.cash \in Int /\ loop.peak \in Nat /\ loop.dayOpen \in Int
           /\ loop.next \in 1..Len(Order) + 1 /\ loop.offer \in Offer
           /\ account.last < MaxBar /\ ThisBar \in 1..MaxBar
<1>1. loop \in Loop /\ LoopInv
  BY DEF IInv, TypeOK
<1>2. /\ loop.positions \in [Symbols -> Position] /\ loop.pendings \in [Symbols -> Setup]
      /\ loop.cash \in Int /\ loop.peak \in Int /\ loop.dayOpen \in Int
      /\ loop.next \in 0..Len(Order) + 1 /\ loop.offer \in Offer
  BY <1>1 DEF Loop
<1>3. AllWhole(loop.positions)
  BY <1>1, <1>2 DEF AllWhole, LoopInv, Walked
<1>4. loop.peak \in Nat
  BY <1>1, <1>2 DEF LoopInv
<1>5. loop.next \in 1..Len(Order) + 1
  BY <1>2, OrderFacts
<1>6. account.last < MaxBar /\ account.last \in 0..MaxBar
  BY <1>1, AccountWhole DEF IInv, LoopInv
<1>7. ThisBar \in 1..MaxBar
  BY <1>6, MaxBarAssumption DEF ThisBar
<1> QED BY <1>1, <1>2, <1>3, <1>4, <1>5, <1>6, <1>7

(* An iteration of the loop keeps the invariant, entry or not.              *)
LEMMA EnterSymbolIInv == ASSUME IInv, EnterSymbol PROVE IInv'
<1> DEFINE s == Order[loop.next]
           p == FilledNow(s)
           P == loop.positions
           Q == loop'.positions
           pending == PendingOf(loop, s, ThisBar, batch, loop.offer)
<1>1. /\ loop.next \in DOMAIN Order
      /\ loop' = [loop EXCEPT !.next = @ + 1, !.pendings[s] = pending,
                              !.positions[s] = IF EntersNow(s) THEN p ELSE @,
                              !.cash = IF EntersNow(s) THEN @ - p.fee ELSE @]
      /\ batch' = batch /\ account' = account
  BY DEF EnterSymbol, EntersNow, FilledNow
<1>2. s \in Symbols /\ loop.next # 0 /\ loop.next \in 1..Len(Order) /\ Len(Order) \in Nat
  BY <1>1, OrderFacts
<1>3. /\ LoopInv /\ AllWhole(P) /\ P \in [Symbols -> Position]
      /\ loop.pendings \in [Symbols -> Setup]
      /\ loop.cash \in Int /\ loop.peak \in Nat /\ loop.dayOpen \in Int
      /\ loop.offer \in Offer /\ account.last < MaxBar /\ ThisBar \in 1..MaxBar
  BY <1>2, LoopWhole
<1>4. TypeOK /\ loop \in Loop
  BY DEF IInv, TypeOK
<1>5. /\ loop'.next = loop.next + 1
      /\ loop'.pendings = [loop.pendings EXCEPT ![s] = pending]
      /\ Q = [P EXCEPT ![s] = IF EntersNow(s) THEN p ELSE @]
      /\ loop'.cash = IF EntersNow(s) THEN loop.cash - p.fee ELSE loop.cash
      /\ loop'.peak = loop.peak /\ loop'.dayOpen = loop.dayOpen /\ loop'.offer = loop.offer
      /\ ThisBar' = ThisBar
      /\ loop' = [next |-> loop'.next, cash |-> loop'.cash, peak |-> loop'.peak,
                  dayOpen |-> loop'.dayOpen, offer |-> loop'.offer,
                  pendings |-> loop'.pendings, positions |-> Q]
  <2> HIDE DEF s, p, pending
  <2> QED BY <1>1, <1>4 DEF Loop, ThisBar
<1>6. P[s] = account.positions[s] /\ loop.pendings[s] = account.pendings[s]
  BY <1>2, <1>3, OrderFacts DEF LoopInv, Walked
<1>7. pending \in Setup /\ (pending # NoSetup => /\ account.status = "running"
                                                 /\ P[s] = NoPosition /\ ~EntersNow(s))
  <2>1. CASE pending = NoSetup
    BY <2>1, SmallTypes
  <2>2. CASE pending # NoSetup
    <3>1. /\ TriggerOf(loop, s, ThisBar, batch, loop.offer) = "pending"
          /\ pending = Sought(loop, s, ThisBar, loop.offer)
      BY <2>2 DEF PendingOf
    <3>2. Seeks(loop, s, ThisBar, loop.offer)
      BY <3>1 DEF TriggerOf
    <3>3. pending \in Setup /\ account.status = "running" /\ s \notin Occupied(account.positions)
      BY <1>2, <1>4, <3>1, <3>2, SoughtType
    <3>4. P[s].quantity = 0
      BY <1>2, <1>6, <3>3 DEF Occupied
    <3>5. P[s] = NoPosition
      BY <1>2, <1>3, <3>4 DEF AllWhole, Whole
    <3>6. ~EntersNow(s)
      BY <3>1 DEF EntersNow, EntryAllowed
    <3> QED BY <3>3, <3>5, <3>6
  <2> QED BY <2>1, <2>2
<1>8. EntersNow(s) =>
        /\ Whole(p) /\ p.quantity # 0
        /\ p.entered = ThisBar /\ p.held = 0 /\ p.funding = 0
        /\ AtStop(p) = p.fee - p.risk
        /\ account.status = "running" /\ P[s] = NoPosition
        /\ AggregateRisk(loop, batch) + p.risk <= RiskPolicy.aggregate
        /\ StandingNow.loss + p.risk <= RiskPolicy.daily
        /\ Cardinality(Occupied(P)) < RiskPolicy.positions
        /\ Margin(p) + p.fee <= loop.cash - MarginTotal(P)
  <2> SUFFICES ASSUME EntersNow(s)
               PROVE  /\ Whole(p) /\ p.quantity # 0
                      /\ p.entered = ThisBar /\ p.held = 0 /\ p.funding = 0
                      /\ AtStop(p) = p.fee - p.risk
                      /\ account.status = "running" /\ P[s] = NoPosition
                      /\ AggregateRisk(loop, batch) + p.risk <= RiskPolicy.aggregate
                      /\ StandingNow.loss + p.risk <= RiskPolicy.daily
                      /\ Cardinality(Occupied(P)) < RiskPolicy.positions
                      /\ Margin(p) + p.fee <= loop.cash - MarginTotal(P)
    OBVIOUS
  <2>1. ThisBar <= MaxBar /\ loop.peak >= 0
    BY <1>3, MaxBarAssumption
  <2>2. /\ Whole(p) /\ p.quantity # 0
        /\ p.entered = ThisBar /\ p.held = 0 /\ p.funding = 0
        /\ AtStop(p) = p.fee - p.risk
        /\ account.status = "running" /\ s \notin Occupied(account.positions)
        /\ AggregateRisk(loop, batch) + p.risk <= RiskPolicy.aggregate
        /\ StandingNow.loss + p.risk <= RiskPolicy.daily
        /\ Cardinality(Occupied(P)) < RiskPolicy.positions
        /\ Margin(p) + p.fee <= loop.cash - MarginUsed(loop, ThisBar)
    <3> HIDE DEF s
    <3> QED BY <1>2, <1>3, <1>4, <2>1, EntryFacts
  <2>3. P[s].quantity = 0
    BY <1>2, <1>6, <2>2 DEF Occupied
  <2>4. P[s] = NoPosition
    BY <1>2, <1>3, <2>3 DEF AllWhole, Whole
  <2>5. MarginUsed(loop, ThisBar) = MarginTotal(P)
    BY InTotals
  <2> HIDE DEF s, p
  <2> QED BY <2>2, <2>4, <2>5
<1> HIDE DEF s, p, pending
<1>9. ~EntersNow(s) => Q = P /\ loop'.cash = loop.cash
  BY <1>2, <1>3, <1>5
<1>10. AllWhole(Q) /\ Q \in [Symbols -> Position] /\ \A r \in Symbols \ {s} : Q[r] = P[r]
  <2>1. CASE EntersNow(s)
    <3>1. Q = [P EXCEPT ![s] = p]
      BY <1>5, <2>1
    <3>2. AllWhole(Q) /\ \A r \in Symbols \ {s} : Q[r] = P[r]
      BY <1>2, <1>3, <1>8, <2>1, <3>1, PositionMore
    <3> QED BY <3>2 DEF AllWhole
  <2>2. CASE ~EntersNow(s)
    BY <1>3, <1>9, <2>2
  <2> QED BY <2>1, <2>2
<1>11. loop'.cash \in Int
  BY <1>3, <1>5, <1>8, PositionTypes
<1>12. TypeOK'
  <2>1. loop'.pendings \in [Symbols -> Setup]
    BY <1>3, <1>5, <1>7
  <2>2. loop'.next \in 0..Len(Order) + 1
    BY <1>2, <1>5
  <2>3. loop' \in Loop
    BY <1>3, <1>5, <1>10, <1>11, <2>1, <2>2 DEF Loop
  <2> QED BY <1>1, <1>4, <2>3 DEF TypeOK
<1>13. AccountInv'
  BY <1>1 DEF IInv, AccountInv, WithinRisk, Occupied, ExplainedCash, PendingsAreLive
<1>14. Walked'
  <2>1. ASSUME NEW i \in DOMAIN Order, i >= loop'.next
        PROVE  Q[Order[i]] = account'.positions[Order[i]]
               /\ loop'.pendings[Order[i]] = account'.pendings[Order[i]]
    <3>1. i >= loop.next /\ i # loop.next
      BY <1>2, <1>5, <2>1, OrderFacts
    <3>2. Order[i] \in Symbols \ {s}
      BY <1>1, <3>1, OrderFacts DEF s
    <3>3. P[Order[i]] = account.positions[Order[i]]
          /\ loop.pendings[Order[i]] = account.pendings[Order[i]]
      BY <1>3, <3>1 DEF LoopInv, Walked
    <3> QED BY <1>1, <1>3, <1>5, <1>10, <3>2, <3>3
  <2>2. ASSUME NEW r \in Symbols
        PROVE  Whole(Q[r]) /\ (Q[r] = account'.positions[r] \/ Entered(r)')
    <3>1. Whole(Q[r])
      BY <1>10 DEF AllWhole
    <3>2. CASE Q[r] = P[r]
      <4>1. P[r] = account.positions[r] \/ Entered(r)
        BY <1>3 DEF LoopInv, Walked
      <4> QED BY <1>1, <1>5, <3>1, <3>2, <4>1 DEF Entered
    <3>3. CASE Q[r] # P[r]
      <4>1. r = s /\ EntersNow(s)
        BY <1>9, <1>10, <3>3
      <4>2. Q[r] = p
        BY <1>2, <1>3, <1>5, <4>1
      <4> QED BY <1>1, <1>5, <1>6, <1>8, <3>1, <4>1, <4>2 DEF Entered
    <3> QED BY <3>2, <3>3
  <2>3. ASSUME NEW r \in Symbols, loop'.pendings[r] # NoSetup
        PROVE  account'.status = "running" /\ Q[r] = NoPosition
    <3>1. CASE r = s
      <4>1. loop'.pendings[r] = pending
        BY <1>2, <1>3, <1>5, <3>1
      <4> QED BY <1>1, <1>7, <1>9, <2>3, <3>1, <4>1
    <3>2. CASE r # s
      <4>1. loop'.pendings[r] = loop.pendings[r] /\ Q[r] = P[r]
        BY <1>3, <1>5, <1>10, <3>2
      <4>2. account.status = "running" /\ P[r] = NoPosition
        BY <1>3, <2>3, <4>1 DEF LoopInv, Walked
      <4> QED BY <1>1, <4>1, <4>2
    <3> QED BY <3>1, <3>2
  <2> QED BY <2>1, <2>2, <2>3 DEF Walked
<1>15. /\ loop.cash = StartCash + account.realized + CostSum(P)
       /\ RiskSum(P) <= RiskPolicy.aggregate
       /\ Cardinality(Occupied(P)) <= RiskPolicy.positions
       /\ loop.cash = account.cash - FeesOf(P, ThisBar)
       /\ (\E r \in Symbols : P[r].entered = ThisBar) => MarginTotal(P) <= loop.cash
       /\ (\E r \in Symbols : P[r].entered = ThisBar) =>
            loop.dayOpen - (loop.cash + StopSum(P)) <= RiskPolicy.daily
  <2>1. FeesPaid = FeesOf(P, ThisBar)
    BY DEF FeesPaid, FeesOf, Fresh
  <2> QED BY <1>3, <2>1, InTotals DEF LoopInv, FitsCash, Budgeted, Fresh
<1>16. /\ loop'.cash = StartCash + account.realized + CostSum(Q)
       /\ RiskSum(Q) <= RiskPolicy.aggregate
       /\ Cardinality(Occupied(Q)) <= RiskPolicy.positions
       /\ loop'.cash = account.cash - FeesOf(Q, ThisBar)
       /\ (\E r \in Symbols : Q[r].entered = ThisBar) => MarginTotal(Q) <= loop'.cash
       /\ (\E r \in Symbols : Q[r].entered = ThisBar) =>
            loop.dayOpen - (loop'.cash + StopSum(Q)) <= RiskPolicy.daily
  <2>1. CASE ~EntersNow(s)
    BY <1>9, <1>15, <2>1
  <2>2. CASE EntersNow(s)
    <3>1. Q = [P EXCEPT ![s] = p] /\ loop'.cash = loop.cash - p.fee
      BY <1>5, <2>2
    <3>2. /\ CostSum(Q) = CostSum(P) + (p.funding - p.fee)
          /\ RiskSum(Q) = RiskSum(P) + p.risk
          /\ MarginTotal(Q) = MarginTotal(P) + Margin(p)
          /\ StopSum(Q) = StopSum(P) + AtStop(p)
          /\ Cardinality(Occupied(Q)) = Cardinality(Occupied(P)) + 1
      BY <1>2, <1>3, <1>8, <2>2, <3>1, PositionMore
    <3>3. FeesOf(Q, ThisBar) = FeesOf(P, ThisBar) + p.fee /\ FeesOf(P, ThisBar) \in Int
      BY <1>2, <1>3, <1>8, <2>2, <3>1, FeesMore
    <3>4. /\ CostSum(P) \in Int /\ RiskSum(P) \in Int /\ MarginTotal(P) \in Int
          /\ StopSum(P) \in Int /\ Cardinality(Occupied(P)) \in Nat
      BY <1>3, SumTypes, OccupiedCount
    <3>5. /\ p.fee \in Nat /\ p.risk \in Nat /\ p.funding = 0 /\ AtStop(p) = p.fee - p.risk
          /\ Margin(p) \in Nat
      BY <1>8, <2>2, PositionTypes, MarginType
    <3>6. /\ AggregateRisk(loop, batch) \in Nat
          /\ RiskSum(P) <= AggregateRisk(loop, batch)
          /\ EquityAtOpen(loop) \in Int
          /\ loop.cash + StopSum(P) >= EquityAtOpen(loop) - AggregateRisk(loop, batch)
      <4>1. /\ AggregateRisk(loop, batch) \in Nat
            /\ SumFunction([r \in Symbols |-> P[r].risk]) <= AggregateRisk(loop, batch)
            /\ EquityAtOpen(loop) \in Int
            /\ EquityAtStops(loop) >= EquityAtOpen(loop) - AggregateRisk(loop, batch)
        BY <1>3, <1>4, RiskBounds
      <4> QED BY <4>1, InTotals DEF RiskSum
    <3>7. /\ AggregateRisk(loop, batch) + p.risk <= RiskPolicy.aggregate
          /\ StandingNow.loss + p.risk <= RiskPolicy.daily
          /\ Cardinality(Occupied(P)) < RiskPolicy.positions
          /\ Margin(p) + p.fee <= loop.cash - MarginTotal(P)
      BY <1>8, <2>2
    <3>8. StandingNow.loss >= loop.dayOpen - EquityAtOpen(loop) + AggregateRisk(loop, batch)
          /\ StandingNow.loss \in Int
      <4>1. StandingNow.loss = Higher(0, loop.dayOpen - EquityAtOpen(loop))
                                 + AggregateRisk(loop, batch)
        BY DEF StandingNow, StandingOf, EquityAtOpen
      <4>2. loop.dayOpen - EquityAtOpen(loop) \in Int
        BY <1>3, <3>6
      <4> DEFINE x == loop.dayOpen - EquityAtOpen(loop)
      <4> HIDE DEF x
      <4>3. x \in Int => Higher(0, x) >= x /\ Higher(0, x) \in Int
        BY DEF Higher
      <4> QED BY <3>6, <4>1, <4>2, <4>3 DEF x
    <3>9. account.cash \in Int /\ account.realized \in Int /\ StartCash \in Int
          /\ RiskPolicy.aggregate \in Int /\ RiskPolicy.daily \in Int
          /\ RiskPolicy.positions \in Int
      BY AccountWhole, SmallTypes
    <3>10. loop'.cash = StartCash + account.realized + CostSum(Q)
      BY <1>3, <1>15, <3>1, <3>2, <3>4, <3>5, <3>9
    <3>11. RiskSum(Q) <= RiskPolicy.aggregate
           /\ Cardinality(Occupied(Q)) <= RiskPolicy.positions
      BY <3>2, <3>4, <3>5, <3>6, <3>7, <3>9
    <3>12. loop'.cash = account.cash - FeesOf(Q, ThisBar)
      BY <1>3, <1>15, <3>1, <3>3, <3>5, <3>9
    <3>13. MarginTotal(Q) <= loop'.cash
      BY <1>3, <3>1, <3>2, <3>4, <3>5, <3>7
    <3>14. loop.dayOpen - (loop'.cash + StopSum(Q)) <= RiskPolicy.daily
      BY <1>3, <3>1, <3>2, <3>4, <3>5, <3>6, <3>7, <3>8, <3>9
    <3> QED BY <3>10, <3>11, <3>12, <3>13, <3>14
  <2> QED BY <2>1, <2>2
<1>17. LoopInv'
  <2>1. FeesPaid' = FeesOf(Q, ThisBar)
    BY <1>5 DEF FeesPaid, FeesOf, Fresh
  <2>2. FitsCash' /\ Budgeted'
    BY <1>1, <1>5, <1>16, <2>1, InTotals DEF FitsCash, Budgeted, Fresh, MarginUsed, MarginTotal,
       EquityAtStops, StopSum, AtStop
  <2>3. loop'.cash = ExplainedCash(loop.positions)' /\ WithinRisk(loop.positions)'
    BY <1>1, <1>16 DEF ExplainedCash, WithinRisk, CostSum, RiskSum, Occupied
  <2>4. batch' # NoBatch /\ account'.status \in Processing /\ loop'.peak >= 0
    BY <1>1, <1>3, <1>5 DEF LoopInv
  <2> QED BY <1>14, <2>2, <2>3, <2>4 DEF LoopInv
<1>18. loop'.next # 0 /\ (batch' # NoBatch => account'.last < MaxBar)
  BY <1>1, <1>2, <1>3, <1>5
<1> QED BY <1>12, <1>13, <1>17, <1>18 DEF IInv

-----------------------------------------------------------------------------
(* The end of a batch, in the names of EndBar.                              *)
HeldNow == [s \in Symbols |-> HeldThrough(loop.positions[s])]
PaidNow == [s \in Symbols |-> PaidOn(HeldNow[s], batch[s], ThisBar)]
CreditsNow == SumFunction([s \in Symbols |-> Credit(PaidNow[s])])
ChargedCash == loop.cash + SumFunction(PaidNow)
LiquidatedNow == Stressed(HeldNow, batch, ChargedCash, CreditsNow)
FundedOf == [s \in Symbols |-> Funded(HeldNow[s], PaidNow[s], LiquidatedNow)]
ExitNow == [s \in Symbols |-> ExitOf(FundedOf[s], batch[s], ThisBar)]
ClosedNow == {s \in Occupied(FundedOf) : LiquidatedNow \/ ExitNow[s].reason # "none"}
PriceNow == [s \in Symbols |-> IF LiquidatedNow THEN Extremes(FundedOf, batch)[s]
                               ELSE ExitNow[s].price]
ExitFeeNow == [s \in Symbols |-> ExitFee(FundedOf[s], PriceNow[s], LiquidatedNow)]
GrossNow == [s \in Symbols |-> Gross(FundedOf[s], PriceNow[s])]
NetNow == [s \in Symbols |-> GrossNow[s] - FundedOf[s].fee - ExitFeeNow[s] + FundedOf[s].funding]
LeftNow == [s \in Symbols |-> IF s \in ClosedNow THEN NoPosition ELSE FundedOf[s]]
CashLeft == ChargedCash - (IF LiquidatedNow THEN CreditsNow ELSE 0)
              + SumFunctionOnSet([s \in Symbols |-> GrossNow[s] - ExitFeeNow[s]], ClosedNow)
EquityLeft == CashLeft + MarkedAt(LeftNow, Closes(batch))
StatusLeft ==
    IF LiquidatedNow \/ CashLeft <= 0 THEN "faulted"
    ELSE IF account.status = "stopping" /\ Occupied(LeftNow) = {} THEN "stopped"
    ELSE account.status

(* EndBar in these names.                                                   *)
LEMMA EndBarEffect ==
    ASSUME EndBar
    PROVE  /\ loop.next = Len(Order) + 1
           /\ account' = [status |-> StatusLeft, last |-> ThisBar, cash |-> CashLeft,
                          realized |-> account.realized + SumFunctionOnSet(NetNow, ClosedNow),
                          equity |-> EquityLeft, peak |-> Higher(loop.peak, EquityLeft),
                          dayOpen |-> loop.dayOpen, fault |-> StatusLeft = "faulted",
                          pendings |-> IF StatusLeft = "running" THEN loop.pendings
                                       ELSE [s \in Symbols |-> NoSetup],
                          positions |-> LeftNow]
           /\ batch' = NoBatch /\ loop' = Idle
BY Zenon DEF EndBar, HeldNow, PaidNow, CreditsNow, ChargedCash, LiquidatedNow, FundedOf, ExitNow,
       ClosedNow, PriceNow, ExitFeeNow, GrossNow, NetNow, LeftNow, CashLeft, EquityLeft,
       StatusLeft

(* A bar leaves a position as it was, but for the bars it is held and its   *)
(* funding; no position stays none.                                         *)
SameButHeld(p, q) ==
    /\ q.setup = p.setup /\ q.quantity = p.quantity /\ q.price = p.price /\ q.fee = p.fee
    /\ q.entered = p.entered /\ q.leverage = p.leverage /\ q.risk = p.risk

(* A bar more it is held, ...                                               *)
LEMMA HeldFacts ==
    ASSUME NEW p, Whole(p)
    PROVE  /\ Whole(HeldThrough(p)) /\ SameButHeld(p, HeldThrough(p))
           /\ HeldThrough(p).funding = p.funding
           /\ p = NoPosition => HeldThrough(p) = NoPosition
<1>1. CASE p.quantity = 0
  BY <1>1 DEF HeldThrough, SameButHeld
<1>2. CASE p.quantity # 0
  <2> DEFINE h == [p EXCEPT !.held = @ + 1]
  <2>1. HeldThrough(p) = h
    BY <1>2 DEF HeldThrough
  <2>2. p \in Position /\ p.held \in Nat
    BY PositionTypes
  <2>3. h \in Position /\ SameButHeld(p, h) /\ h.funding = p.funding
    BY <2>2 DEF Position, SameButHeld
  <2>4. Whole(h)
    BY <1>2, <2>3 DEF Whole, SameButHeld, Ordered
  <2>5. p # NoPosition
    BY <1>2, NothingCounts
  <2> QED BY <2>1, <2>3, <2>4, <2>5
<1> QED BY <1>1, <1>2

(* ... and its funding.                                                     *)
LEMMA FundedFacts ==
    ASSUME NEW p, Whole(p), NEW paid \in Int, NEW liquidated \in BOOLEAN,
           p.quantity = 0 => paid = 0
    PROVE  LET f == Funded(p, paid, liquidated)
           IN  /\ Whole(f) /\ SameButHeld(p, f) /\ f.held = p.held
               /\ f.funding = p.funding + (IF liquidated THEN Lower(0, paid) ELSE paid)
               /\ p = NoPosition => f = NoPosition
<1> DEFINE d == IF liquidated THEN Lower(0, paid) ELSE paid
           f == Funded(p, paid, liquidated)
<1>1. d \in Int /\ (paid = 0 => d = 0)
  BY DEF Lower
<1>2. f = [p EXCEPT !.funding = @ + d]
  BY DEF Funded
<1>3. p \in Position /\ p.funding \in Int
  BY PositionTypes
<1> HIDE DEF d, f
<1>4. f \in Position /\ SameButHeld(p, f) /\ f.held = p.held /\ f.funding = p.funding + d
  BY <1>1, <1>2, <1>3 DEF Position, SameButHeld
<1>5. p = NoPosition => f = NoPosition
  <2> SUFFICES ASSUME p = NoPosition PROVE f = NoPosition
    OBVIOUS
  <2>1. p.quantity = 0 /\ p.funding = 0
    BY NothingCounts
  <2>2. p.funding + d = 0
    BY <1>1, <2>1
  <2>3. f = [p EXCEPT !.funding = p.funding]
    BY <1>2, <1>3, <2>1, <2>2
  <2>4. [p EXCEPT !.funding = p.funding] = p
    BY <1>3 DEF Position
  <2> QED BY <2>3, <2>4
<1>6. Whole(f)
  <2>1. CASE p.quantity = 0
    BY <1>5, <2>1 DEF Whole
  <2>2. CASE p.quantity # 0
    BY <1>4, <2>2 DEF Whole, SameButHeld, Ordered
  <2> QED BY <2>1, <2>2
<1> QED BY <1>4, <1>5, <1>6 DEF d, f

(* What a position is charged on a bar.                                     *)
LEMMA PaidFacts ==
    ASSUME NEW p, Whole(p), NEW bar, bar.pays \in Int, NEW b
    PROVE  /\ PaidOn(p, bar, b) \in Int /\ FundingPayment(p, bar.pays) \in Int
           /\ p.quantity = 0 \/ bar.pays = 0 => PaidOn(p, bar, b) = 0
           /\ p.entered # b => Lower(0, PaidOn(p, bar, b)) = Lower(0, FundingPayment(p, bar.pays))
<1> DEFINE amount == FundingPayment(p, bar.pays)
           rate == IF p.setup.long THEN -bar.pays ELSE bar.pays
<1>1. p.quantity \in Int /\ rate \in Int /\ (bar.pays = 0 => rate = 0)
  BY PositionTypes
<1>2. amount = p.quantity * rate
  BY DEF FundingPayment
<1> HIDE DEF rate
<1>3. amount \in Int /\ (p.quantity = 0 \/ bar.pays = 0 => amount = 0)
  BY <1>1, <1>2
<1>4. PaidOn(p, bar, b) = IF bar.at = "open" /\ p.entered = b THEN 0
        ELSE IF p.entered = b \/ ExitOf(p, bar, b).reason # "none" THEN Lower(0, amount)
        ELSE amount
  BY DEF PaidOn
<1> HIDE DEF amount
<1>5. Lower(0, amount) \in Int /\ Lower(0, Lower(0, amount)) = Lower(0, amount)
      /\ (amount = 0 => Lower(0, amount) = 0)
  BY <1>3 DEF Lower
<1> QED BY <1>3, <1>4, <1>5 DEF amount

(* The results of an exit.                                                  *)
LEMMA ExitTypes ==
    ASSUME NEW p, Whole(p), NEW bar, bar.candle \in Candle, NEW b, NEW price \in Nat,
           NEW liquidated \in BOOLEAN
    PROVE  /\ ExitOf(p, bar, b).price \in Nat /\ Worst(p.setup, bar.candle) \in Nat
           /\ Gross(p, price) \in Int /\ ExitFee(p, price, liquidated) \in Int
<1>1. /\ p.setup.stop \in Nat /\ p.setup.target \in Nat /\ p.setup \in Setup
      /\ p.quantity \in Nat /\ (~p.setup.long) \in BOOLEAN
  BY PositionTypes
<1>2. /\ bar.candle.open \in Nat /\ bar.candle.close \in Nat
  BY DEF Candle
<1>3. ExitOf(p, bar, b).price \in Nat
  BY <1>1, <1>2 DEF ExitOf, Exit, StopPrice, Lower, Higher
<1>4. Worst(p.setup, bar.candle) \in Nat
  BY <1>1, PriceFacts
<1>5. ExitFill(p, price) \in Int
  <2> DEFINE buy == ~p.setup.long
  <2>1. buy \in BOOLEAN /\ ExitFill(p, price) = AdverseFill(price, buy)
    BY DEF ExitFill
  <2> HIDE DEF buy
  <2>2. AdverseFill(price, buy) \in Nat
    BY <2>1, FillFacts
  <2> QED BY <2>1, <2>2
<1>6. Gross(p, price) \in Int
  BY <1>5, PnlType DEF Gross
<1>7. FeeUnits + (IF liquidated THEN LiquidationUnits ELSE 0) \in Int
  BY UnitFacts
<1>8. ExitFee(p, price, liquidated) \in Int
  <2> DEFINE units == FeeUnits + (IF liquidated THEN LiquidationUnits ELSE 0)
             q == p.quantity
             fill == ExitFill(p, price)
  <2>1. ExitFee(p, price, liquidated) = q * fill * units
    BY DEF ExitFee, Fee
  <2>2. q \in Int /\ fill \in Int /\ units \in Int
    BY <1>1, <1>5, <1>7
  <2> HIDE DEF units, q, fill
  <2> QED BY <2>1, <2>2
<1> QED BY <1>3, <1>4, <1>6, <1>8

(* What the end of a batch makes of one symbol.                             *)
ChargedNow(s) == IF LiquidatedNow THEN Lower(0, PaidNow[s]) ELSE PaidNow[s]

(* All of it together, for a symbol of the loop.                            *)
LEMMA SymbolAtEnd ==
    ASSUME IInv, loop.next # 0, NEW s \in Symbols
    PROVE  LET p == loop.positions[s]  f == FundedOf[s]
           IN  /\ Whole(p) /\ Whole(HeldNow[s]) /\ Whole(f)
               /\ SameButHeld(p, HeldNow[s]) /\ SameButHeld(p, f)
               /\ PaidNow[s] \in Int
               /\ (p.quantity = 0 \/ batch[s].pays = 0 => PaidNow[s] = 0)
               /\ f.funding = p.funding + ChargedNow(s)
               /\ p = NoPosition => f = NoPosition
               /\ ExitNow[s].price \in Nat /\ PriceNow[s] \in Nat
               /\ GrossNow[s] \in Int /\ ExitFeeNow[s] \in Int
               /\ s \in ClosedNow => p.quantity # 0
               /\ Whole(LeftNow[s])
<1> DEFINE p == loop.positions[s]
           h == HeldNow[s]
           f == FundedOf[s]
           bar == batch[s]
<1>1. Whole(p)
  BY LoopWhole DEF AllWhole
<1>2. bar.candle \in Candle /\ bar.pays \in Int
  BY BatchTypes DEF IInv
<1>3. h = HeldThrough(p) /\ PaidNow[s] = PaidOn(h, bar, ThisBar)
      /\ f = Funded(h, PaidNow[s], LiquidatedNow)
  BY DEF HeldNow, PaidNow, FundedOf
<1>4. LiquidatedNow \in BOOLEAN
  BY DEF LiquidatedNow, Stressed
<1> HIDE DEF h, f
<1>5. /\ Whole(h) /\ SameButHeld(p, h) /\ h.funding = p.funding
      /\ p = NoPosition => h = NoPosition
  BY <1>1, <1>3, HeldFacts
<1>6. /\ PaidNow[s] \in Int
      /\ (p.quantity = 0 \/ bar.pays = 0 => PaidNow[s] = 0)
  BY <1>2, <1>3, <1>5, PaidFacts DEF SameButHeld
<1>7. /\ Whole(f) /\ SameButHeld(h, f)
      /\ f.funding = h.funding + ChargedNow(s)
      /\ h = NoPosition => f = NoPosition
  <2>1. h.quantity = 0 => PaidNow[s] = 0
    BY <1>5, <1>6 DEF SameButHeld
  <2> QED BY <1>3, <1>4, <1>5, <1>6, <2>1, FundedFacts DEF ChargedNow
<1>8. SameButHeld(p, f)
  BY <1>5, <1>7 DEF SameButHeld
<1>9. ExitNow[s].price \in Nat /\ PriceNow[s] \in Nat
  <2>1. ExitNow[s] = ExitOf(f, bar, ThisBar)
    BY DEF ExitNow, f
  <2>2. PriceNow[s] = IF LiquidatedNow THEN Worst(f.setup, bar.candle) ELSE ExitNow[s].price
    BY DEF PriceNow, Extremes, f
  <2>3. ExitOf(f, bar, ThisBar).price \in Nat /\ Worst(f.setup, bar.candle) \in Nat
    BY <1>2, <1>4, <1>7, ExitTypes
  <2> QED BY <2>1, <2>2, <2>3
<1>10. GrossNow[s] \in Int /\ ExitFeeNow[s] \in Int
  <2>1. /\ GrossNow[s] = Gross(f, PriceNow[s])
        /\ ExitFeeNow[s] = ExitFee(f, PriceNow[s], LiquidatedNow)
    BY DEF GrossNow, ExitFeeNow, f
  <2> QED BY <1>2, <1>4, <1>7, <1>9, <2>1, ExitTypes
<1>11. s \in ClosedNow => p.quantity # 0
  BY <1>8 DEF ClosedNow, Occupied, SameButHeld, f
<1>12. Whole(LeftNow[s])
  BY <1>7, NoPositionWhole DEF LeftNow, f
<1> QED BY <1>1, <1>5, <1>6, <1>7, <1>8, <1>9, <1>10, <1>11, <1>12 DEF h, f

(* The end of the batch keeps the invariant.                                *)
LEMMA EndBarIInv == ASSUME IInv, EndBar PROVE IInv'
<1> DEFINE P == loop.positions
           R == LeftNow
<1>1. loop.next # 0 /\ loop.next = Len(Order) + 1
  BY EndBarEffect, OrderFacts
<1>2. /\ LoopInv /\ AllWhole(P) /\ loop.pendings \in [Symbols -> Setup]
      /\ loop.cash \in Int /\ loop.peak \in Nat /\ loop.dayOpen \in Int
      /\ ThisBar \in 1..MaxBar
  BY <1>1, LoopWhole
<1>3. /\ account'.status = StatusLeft /\ account'.last = ThisBar /\ account'.cash = CashLeft
      /\ account'.realized = account.realized + SumFunctionOnSet(NetNow, ClosedNow)
      /\ account'.peak = Higher(loop.peak, EquityLeft)
      /\ account'.pendings = IF StatusLeft = "running" THEN loop.pendings
                             ELSE [s \in Symbols |-> NoSetup]
      /\ account'.positions = R
      /\ batch' = NoBatch /\ loop' = Idle
  BY EndBarEffect
<1>4. \A s \in Symbols : Whole(R[s])
  BY <1>1, SymbolAtEnd
<1>5. R \in [Symbols -> Position]
  <2>1. \A s \in Symbols : R[s] \in Position
    BY <1>4, PositionTypes
  <2> QED BY <2>1 DEF LeftNow
<1>6. AllWhole(R)
  BY <1>4, <1>5 DEF AllWhole
<1>7. \A s \in Symbols : R[s] = NoPosition \/ SameButHeld(P[s], R[s])
  <2> TAKE s \in Symbols
  <2>1. SameButHeld(P[s], FundedOf[s])
    BY <1>1, SymbolAtEnd
  <2> QED BY <2>1 DEF LeftNow
<1>8. \A s \in Symbols : P[s] = NoPosition => R[s] = NoPosition
  <2> TAKE s \in Symbols
  <2>1. P[s] = NoPosition => FundedOf[s] = NoPosition
    BY <1>1, SymbolAtEnd
  <2> QED BY <2>1 DEF LeftNow
<1> DEFINE paid == [s \in Symbols |-> PaidNow[s]]
           credit == [s \in Symbols |-> Credit(PaidNow[s])]
           back == [s \in Symbols |-> IF LiquidatedNow THEN Credit(PaidNow[s]) ELSE 0]
           charged == [s \in Symbols |-> ChargedNow(s)]
           before == [s \in Symbols |-> P[s].funding - P[s].fee]
           exit == [s \in Symbols |-> GrossNow[s] - ExitFeeNow[s]]
           exits == [s \in Symbols |-> IF s \in ClosedNow THEN GrossNow[s] - ExitFeeNow[s] ELSE 0]
           results == [s \in Symbols |-> IF s \in ClosedNow THEN NetNow[s] ELSE 0]
           after == [s \in Symbols |-> R[s].funding - R[s].fee]
<1>9. ASSUME NEW s \in Symbols
      PROVE  /\ paid[s] \in Int /\ credit[s] \in Int /\ back[s] \in Int /\ charged[s] \in Int
             /\ before[s] \in Int /\ exits[s] \in Int /\ results[s] \in Int /\ after[s] \in Int
             /\ paid[s] = charged[s] + back[s]
             /\ before[s] + charged[s] + exits[s] = results[s] + after[s]
             /\ (LiquidatedNow => back[s] = credit[s]) /\ (~LiquidatedNow => back[s] = 0)
  <2> DEFINE p == P[s]
             f == FundedOf[s]
             x == PaidNow[s]
             gross == GrossNow[s]
             fee == ExitFeeNow[s]
  <2>1. /\ Whole(p) /\ Whole(f) /\ SameButHeld(p, f) /\ x \in Int
        /\ f.funding = p.funding + ChargedNow(s)
        /\ gross \in Int /\ fee \in Int
    BY <1>1, SymbolAtEnd
  <2>2. /\ p.funding \in Int /\ p.fee \in Int /\ f.funding \in Int /\ f.fee \in Int
        /\ f.fee = p.fee
    BY <2>1, PositionTypes DEF SameButHeld
  <2>3. /\ paid[s] = x /\ credit[s] = Higher(0, x)
        /\ back[s] = IF LiquidatedNow THEN Higher(0, x) ELSE 0
        /\ charged[s] = IF LiquidatedNow THEN Lower(0, x) ELSE x
        /\ charged[s] = ChargedNow(s)
        /\ before[s] = p.funding - p.fee
        /\ exits[s] = IF s \in ClosedNow THEN gross - fee ELSE 0
        /\ results[s] = IF s \in ClosedNow THEN gross - f.fee - fee + f.funding ELSE 0
        /\ after[s] = R[s].funding - R[s].fee
    BY DEF Credit, ChargedNow, NetNow
  <2>4. after[s] = IF s \in ClosedNow THEN 0 ELSE f.funding - f.fee
    <3>1. CASE s \in ClosedNow
      <4>1. R[s] = NoPosition
        BY <3>1 DEF LeftNow
      <4>2. NoPosition.funding = 0 /\ NoPosition.fee = 0
        BY NothingCounts
      <4> QED BY <2>3, <3>1, <4>1, <4>2
    <3>2. CASE s \notin ClosedNow
      BY <2>3, <3>2 DEF LeftNow
    <3> QED BY <3>1, <3>2
  <2> HIDE DEF p, f, x, gross, fee, paid, credit, back, charged, before, exits, results, after, R
  <2>5. /\ Higher(0, x) \in Int /\ Lower(0, x) \in Int /\ x = Lower(0, x) + Higher(0, x)
    BY <2>1 DEF Higher, Lower
  <2>6. paid[s] = charged[s] + back[s] /\ charged[s] \in Int /\ back[s] \in Int
    BY <2>1, <2>3, <2>5
  <2>7. f.funding = p.funding + charged[s]
    BY <2>1, <2>3
  <2>8. before[s] + charged[s] + exits[s] = results[s] + after[s]
        /\ before[s] \in Int /\ exits[s] \in Int /\ results[s] \in Int /\ after[s] \in Int
    <3>1. CASE s \in ClosedNow
      BY <2>1, <2>2, <2>3, <2>4, <2>6, <2>7, <3>1
    <3>2. CASE s \notin ClosedNow
      BY <2>1, <2>2, <2>3, <2>4, <2>6, <2>7, <3>2
    <3> QED BY <3>1, <3>2
  <2>9. (LiquidatedNow => back[s] = credit[s]) /\ (~LiquidatedNow => back[s] = 0)
    BY <2>3
  <2> QED BY <2>1, <2>3, <2>5, <2>6, <2>8, <2>9
<1>10. /\ paid \in [Symbols -> Int] /\ credit \in [Symbols -> Int] /\ back \in [Symbols -> Int]
       /\ charged \in [Symbols -> Int] /\ before \in [Symbols -> Int]
       /\ exits \in [Symbols -> Int] /\ results \in [Symbols -> Int] /\ after \in [Symbols -> Int]
  <2>1. /\ paid = [s \in Symbols |-> paid[s]] /\ credit = [s \in Symbols |-> credit[s]]
        /\ back = [s \in Symbols |-> back[s]] /\ charged = [s \in Symbols |-> charged[s]]
        /\ before = [s \in Symbols |-> before[s]] /\ exits = [s \in Symbols |-> exits[s]]
        /\ results = [s \in Symbols |-> results[s]] /\ after = [s \in Symbols |-> after[s]]
    OBVIOUS
  <2> HIDE DEF paid, credit, back, charged, before, exits, results, after
  <2> QED BY <1>9, <2>1
<1>11. /\ SumFunction(PaidNow) = SumFunction(paid)
       /\ CreditsNow = SumFunction(credit)
       /\ CostSum(P) = SumFunction(before) /\ CostSum(R) = SumFunction(after)
  <2>1. PaidNow = paid
    BY DEF PaidNow
  <2> QED BY <2>1 DEF CreditsNow, CostSum
<1>12. /\ SumFunctionOnSet(exit, ClosedNow) = SumFunction(exits)
       /\ SumFunctionOnSet(NetNow, ClosedNow) = SumFunction(results)
  <2>1. ClosedNow \in SUBSET Symbols
    BY DEF ClosedNow, Occupied
  <2>2. /\ \A s \in ClosedNow : exits[s] = exit[s] /\ results[s] = NetNow[s]
        /\ \A s \in Symbols \ ClosedNow : exits[s] = 0 /\ results[s] = 0
    BY <2>1
  <2> HIDE DEF exit, exits, results
  <2> QED BY <1>10, <2>1, <2>2, SymbolsFinite, TotalOnPart
<1>13. CashLeft = ChargedCash - (IF LiquidatedNow THEN CreditsNow ELSE 0)
                    + SumFunctionOnSet(exit, ClosedNow)
  BY DEF CashLeft
<1> HIDE DEF paid, credit, back, charged, before, exit, exits, results, after, R
<1>14. SumFunction(back) = IF LiquidatedNow THEN SumFunction(credit) ELSE 0
  <2>1. CASE LiquidatedNow
    <3>1. back = credit
      BY <1>9, <1>10, <2>1
    <3> QED BY <2>1, <3>1
  <2>2. CASE ~LiquidatedNow
    <3>1. \A s \in Symbols : back[s] = 0
      BY <1>9, <2>2
    <3>2. back \in [Symbols -> {0}]
      BY <1>10, <3>1
    <3> QED BY <2>2, <3>2, SymbolsFinite, TotalZero
  <2> QED BY <2>1, <2>2
<1>15. SumFunction(before) + SumFunction(paid) - SumFunction(back) + SumFunction(exits)
         = SumFunction(results) + SumFunction(after)
  <2> DEFINE sofar == [s \in Symbols |-> before[s] + charged[s]]
             total == [s \in Symbols |-> results[s] + after[s]]
  <2>1. \A s \in Symbols :
          /\ before[s] \in Int /\ charged[s] \in Int /\ results[s] \in Int /\ after[s] \in Int
          /\ paid[s] = charged[s] + back[s]
          /\ before[s] + charged[s] + exits[s] = results[s] + after[s]
    BY <1>9
  <2>2. sofar \in [Symbols -> Int] /\ total \in [Symbols -> Int]
    BY <2>1
  <2>3. \A s \in Symbols : /\ sofar[s] = before[s] + charged[s]
                            /\ total[s] = results[s] + after[s]
                            /\ total[s] = sofar[s] + exits[s]
    BY <2>1
  <2>4. \A s \in Symbols : paid[s] = charged[s] + back[s]
    BY <2>1
  <2> HIDE DEF sofar, total
  <2>5. SumFunction(paid) = SumFunction(charged) + SumFunction(back)
    BY <1>10, <2>4, SymbolsFinite, TotalAdd
  <2>6. SumFunction(sofar) = SumFunction(before) + SumFunction(charged)
    BY <1>10, <2>2, <2>3, SymbolsFinite, TotalAdd
  <2>7. SumFunction(total) = SumFunction(sofar) + SumFunction(exits)
    BY <1>10, <2>2, <2>3, SymbolsFinite, TotalAdd
  <2>8. SumFunction(total) = SumFunction(results) + SumFunction(after)
    BY <1>10, <2>2, <2>3, SymbolsFinite, TotalAdd
  <2>9. /\ SumFunction(back) \in Int /\ SumFunction(charged) \in Int
        /\ SumFunction(before) \in Int /\ SumFunction(exits) \in Int
        /\ SumFunction(results) \in Int /\ SumFunction(after) \in Int
    BY <1>10, SymbolsFinite, TotalType
  <2> QED BY <2>5, <2>6, <2>7, <2>8, <2>9
<1>16. /\ SumFunction(paid) \in Int /\ SumFunction(back) \in Int
       /\ SumFunction(before) \in Int /\ SumFunction(exits) \in Int
       /\ SumFunction(results) \in Int /\ SumFunction(after) \in Int
  BY <1>10, SymbolsFinite, TotalType
<1>17. /\ loop.cash = StartCash + account.realized + SumFunction(before)
       /\ RiskSum(P) <= RiskPolicy.aggregate
       /\ Cardinality(Occupied(P)) <= RiskPolicy.positions
  BY <1>2, <1>11, InTotals DEF LoopInv
<1>18. /\ StartCash \in Int /\ account.realized \in Int
  BY SmallTypes, AccountWhole
<1>19. /\ CashLeft = loop.cash + SumFunction(paid) - SumFunction(back) + SumFunction(exits)
       /\ account'.realized = account.realized + SumFunction(results)
  BY <1>3, <1>11, <1>12, <1>13, <1>14, <1>16, <1>2 DEF ChargedCash
<1>20. /\ CashLeft = StartCash + account'.realized + CostSum(R)
       /\ CashLeft \in Int /\ account'.realized \in Int
  BY <1>2, <1>11, <1>15, <1>16, <1>17, <1>18, <1>19
<1>21. EquityLeft \in Int
  <2>1. Closes(batch) \in [Symbols -> Int]
    BY BatchPrices DEF IInv
  <2>2. MarkedAt(R, Closes(batch)) \in Int
    BY <1>6, <2>1, MarkType
  <2> QED BY <1>20, <2>2 DEF EquityLeft, R
<1>22. Higher(loop.peak, EquityLeft) \in Nat
  BY <1>2, <1>21 DEF Higher
<1>23. account \in Account /\ account.status \in Processing
  BY <1>2 DEF IInv, TypeOK, LoopInv
<1>24. StatusLeft \in Statuses
  BY <1>23 DEF StatusLeft, Statuses, Processing
<1>25. account'.pendings \in [Symbols -> Setup]
  BY <1>2, <1>3, SmallTypes
<1>26. account' \in Account
  <2>1. ThisBar \in 0..MaxBar
    BY <1>2, MaxBarAssumption
  <2>2. /\ StatusLeft \in Statuses \cup {"absent"} /\ (StatusLeft = "faulted") \in BOOLEAN
        /\ Higher(loop.peak, EquityLeft) \in Int
    BY <1>22, <1>24
  <2> DEFINE fault == StatusLeft = "faulted"
             peak == Higher(loop.peak, EquityLeft)
             realized == account'.realized
             pendings == account'.pendings
  <2>3. account' = [status |-> StatusLeft, last |-> ThisBar, cash |-> CashLeft,
                    realized |-> realized, equity |-> EquityLeft,
                    peak |-> peak, dayOpen |-> loop.dayOpen,
                    fault |-> fault, pendings |-> pendings, positions |-> R]
    BY EndBarEffect DEF R
  <2>4. /\ StatusLeft \in Statuses \cup {"absent"} /\ ThisBar \in 0..MaxBar
        /\ CashLeft \in Int /\ realized \in Int /\ EquityLeft \in Int /\ peak \in Int
        /\ loop.dayOpen \in Int /\ fault \in BOOLEAN /\ pendings \in [Symbols -> Setup]
        /\ R \in [Symbols -> Position]
    BY <1>2, <1>5, <1>20, <1>21, <1>25, <2>1, <2>2
  <2> HIDE DEF fault, peak, realized, pendings
  <2> QED BY <2>3, <2>4 DEF Account
<1>27. TypeOK'
  BY <1>3, <1>26, SmallTypes DEF TypeOK
<1>28. WithinRisk(R)
  <2> DEFINE f == [s \in Symbols |-> R[s].risk]
             g == [s \in Symbols |-> P[s].risk]
  <2>1. f \in [Symbols -> Int] /\ g \in [Symbols -> Int]
    BY <1>2, <1>6, SumTypes
  <2>2. \A s \in Symbols : f[s] <= g[s]
    <3> TAKE s \in Symbols
    <3>1. g[s] \in Nat
      BY <1>2, PositionTypes DEF AllWhole
    <3>2. f[s] = 0 \/ f[s] = g[s]
      BY <1>7, NothingCounts DEF SameButHeld
    <3> QED BY <3>1, <3>2
  <2>3. RiskSum(R) = SumFunction(f) /\ RiskSum(P) = SumFunction(g)
    BY DEF RiskSum
  <2> HIDE DEF f, g
  <2>4. SumFunction(f) <= SumFunction(g)
    BY <2>1, <2>2, SymbolsFinite, TotalMonotone
  <2>5. SumFunction(f) \in Int /\ SumFunction(g) \in Int
    BY <2>1, SymbolsFinite, TotalType
  <2>6. Occupied(R) \in SUBSET Occupied(P)
    <3>1. \A s \in Symbols : R[s].quantity # 0 => P[s].quantity # 0
      BY <1>7, NothingCounts DEF SameButHeld
    <3> QED BY <3>1 DEF Occupied
  <2>7. /\ Cardinality(Occupied(R)) <= Cardinality(Occupied(P))
        /\ Cardinality(Occupied(R)) \in Nat /\ Cardinality(Occupied(P)) \in Nat
    BY <2>6, OccupiedCount, FS_Subset
  <2>8. RiskPolicy.aggregate \in Int /\ RiskPolicy.positions \in Int
    BY SmallTypes
  <2>9. RiskSum(R) <= RiskPolicy.aggregate /\ Cardinality(Occupied(R)) <= RiskPolicy.positions
    BY <1>17, <2>3, <2>4, <2>5, <2>7, <2>8
  <2> QED BY <2>9, InTotals
<1>29. AccountInv'
  <2>1. account'.positions = R
    BY <1>3 DEF R
  <2>2. \A s \in Symbols : Whole(R[s]) /\ R[s].entered <= ThisBar
    <3> TAKE s \in Symbols
    <3>1. P[s] = account.positions[s] \/ P[s].entered = ThisBar
      BY <1>2 DEF LoopInv, Walked, Entered
    <3>2. account.positions[s].entered < ThisBar /\ account.positions[s].entered \in Nat
      BY AccountWhole, PositionTypes DEF AllWhole
    <3>3. P[s].entered <= ThisBar
      BY <1>2, <3>1, <3>2
    <3>4. R[s].entered <= ThisBar
      BY <1>2, <1>7, <3>3, NothingCounts DEF SameButHeld
    <3> QED BY <1>6, <3>4 DEF AllWhole
  <2>3. account'.peak >= 0
    BY <1>3, <1>22
  <2>4. account'.cash = ExplainedCash(account.positions)'
    BY <1>3, <1>20, <2>1 DEF ExplainedCash, CostSum
  <2>5. WithinRisk(account.positions)'
    BY <1>28, <2>1 DEF WithinRisk, Occupied
  <2>6. PendingsAreLive'
    <3> SUFFICES ASSUME NEW s \in Symbols, account'.pendings[s] # NoSetup
                 PROVE  account'.status = "running" /\ R[s] = NoPosition
      BY <2>1 DEF PendingsAreLive
    <3>1. StatusLeft = "running" /\ account'.pendings[s] = loop.pendings[s]
      BY <1>3
    <3>2. P[s] = NoPosition
      BY <1>2, <3>1 DEF LoopInv, Walked
    <3> QED BY <1>3, <1>8, <3>1, <3>2
  <2> QED BY <1>3, <2>1, <2>2, <2>3, <2>4, <2>5, <2>6 DEF AccountInv
<1>30. loop'.next = 0 /\ (batch' # NoBatch => account'.last < MaxBar)
  BY <1>3 DEF Idle
<1> QED BY <1>3, <1>27, <1>29, <1>30 DEF IInv

-----------------------------------------------------------------------------
(* Every step keeps the invariant.                                          *)
LEMMA StutterIInv == ASSUME IInv, UNCHANGED vars PROVE IInv'
<1>1. batch' = batch /\ account' = account /\ loop' = loop
  BY DEF vars
<1>2. TypeOK'
  BY <1>1 DEF IInv, TypeOK
<1>3. AccountInv'
  BY <1>1 DEF IInv, AccountInv, WithinRisk, Occupied, ExplainedCash, PendingsAreLive
<1>4. LoopInv' <=> LoopInv
  BY <1>1 DEF LoopInv, ExplainedCash, Walked, Entered, ThisBar, WithinRisk, Occupied, FitsCash,
       FeesPaid, Fresh, MarginUsed, Budgeted, EquityAtStops
<1> QED BY <1>1, <1>2, <1>3, <1>4 DEF IInv

(* Every action keeps the invariant, and so does a stutter.                 *)
LEMMA NextIInv == IInv /\ [Next]_vars => IInv'
<1> SUFFICES ASSUME IInv, [Next]_vars PROVE IInv'
  OBVIOUS
<1>1. CASE Create
  BY <1>1, CreateIInv
<1>2. CASE \E action \in Actions : Control(action)
  BY <1>2, ControlIInv
<1>3. CASE Fault
  BY <1>3, FaultIInv
<1>4. CASE \E bars \in Batches : CloseBatch(bars)
  BY <1>4, CloseBatchIInv
<1>5. CASE \E offer \in IF account.status = "running" THEN Offers ELSE {NoOffer} : StartBar(offer)
  <2>1. PICK offer \in IF account.status = "running" THEN Offers ELSE {NoOffer} : StartBar(offer)
    BY <1>5
  <2>2. offer \in Offers \cup {NoOffer}
    OBVIOUS
  <2> QED BY <2>1, <2>2, StartBarIInv
<1>6. CASE EnterSymbol
  BY <1>6, EnterSymbolIInv
<1>7. CASE EndBar
  BY <1>7, EndBarIInv
<1>8. CASE UNCHANGED vars
  BY <1>8, StutterIInv
<1> QED BY <1>1, <1>2, <1>3, <1>4, <1>5, <1>6, <1>7, <1>8 DEF Next

(* The invariant holds of every reachable state.                            *)
LEMMA PortfolioInv == Spec => []IInv
<1> QED BY InitIInv, NextIInv, PTL DEF Spec

(* Between the steps of a batch, and before and after it, the row and the   *)
(* locals are what process_portfolio_bar and its caller keep in them.       *)
THEOREM PortfolioTypeCorrect == Spec => []TypeOK
<1>1. IInv => TypeOK
  BY DEF IInv
<1> QED BY <1>1, PortfolioInv, PTL

(* The cash of a portfolio is the starting balance, the results realized    *)
(* and the fees and funding of what is open, after any batches, also when a *)
(* liquidation took back the credits of its bar.                            *)
THEOREM PortfolioCashExplained == Spec => []CashIsExplained
<1>1. IInv => CashIsExplained
  BY DEF IInv, AccountInv, ExplainedCash, CashIsExplained
<1> QED BY <1>1, PortfolioInv, PTL

(* Entries of one bar, each sized on its own, never take the sized risk of  *)
(* the portfolio or the number of its positions beyond their limits.        *)
THEOREM PortfolioRiskLimited == Spec => []RiskIsLimited
<1>1. IInv => RiskIsLimited
  BY DEF IInv, AccountInv, WithinRisk, RiskIsLimited
<1> QED BY <1>1, PortfolioInv, PTL

(* A setup waits only in a running run, for a symbol that is not held.      *)
THEOREM PortfolioPendingsLive == Spec => []PendingsAreLive
<1>1. IInv => PendingsAreLive
  BY DEF IInv, AccountInv
<1> QED BY <1>1, PortfolioInv, PTL

-----------------------------------------------------------------------------
(* Only the end of a batch moves the checkpoint.                            *)
LEMMA ProcessedIsEndBar ==
    ASSUME IInv, [Next]_vars, Processed PROVE EndBar
<1>1. account'.last # account.last
  BY DEF Processed
<1>2. account \in Account
  BY DEF IInv, TypeOK
<1>3. CASE Create
  BY <1>1, <1>2, <1>3 DEF Create, Account
<1>4. CASE \E action \in Actions : Control(action)
  BY <1>1, <1>2, <1>4 DEF Control, Account
<1>5. CASE Fault
  BY <1>1, <1>2, <1>5 DEF Fault, Account
<1>6. CASE \E bars \in Batches : CloseBatch(bars)
  BY <1>1, <1>6 DEF CloseBatch
<1>7. CASE \E offer \in IF account.status = "running" THEN Offers ELSE {NoOffer} : StartBar(offer)
  BY <1>1, <1>7 DEF StartBar
<1>8. CASE EnterSymbol
  BY <1>1, <1>8 DEF EnterSymbol
<1>9. CASE UNCHANGED vars
  BY <1>1, <1>9 DEF vars
<1> QED BY <1>3, <1>4, <1>5, <1>6, <1>7, <1>8, <1>9 DEF Next

(* What the loop entered on this bar, the account did not hold; the rest it *)
(* held as it is.                                                           *)
LEMMA FreshFacts ==
    ASSUME IInv, loop.next # 0, NEW s \in Symbols
    PROVE  /\ Fresh(s) => account.positions[s] = NoPosition
           /\ ~Fresh(s) => loop.positions[s] = account.positions[s]
           /\ Fresh(s) => account.status = "running"
<1>1. loop.positions[s] = account.positions[s] \/ Entered(s)
  BY LoopWhole DEF LoopInv, Walked
<1>2. account.positions[s].entered # ThisBar
  <2>1. account.positions[s].entered < ThisBar /\ account.positions[s].entered \in Nat
    BY AccountWhole, PositionTypes DEF AllWhole
  <2>2. ThisBar \in Nat
    BY LoopWhole
  <2> QED BY <2>1, <2>2
<1> QED BY <1>1, <1>2 DEF Entered, Fresh

(* A position kept by the end of a batch, and those entered on the bar.     *)
LEMMA NewlyFacts ==
    ASSUME IInv, EndBar
    PROVE  /\ Newly \in SUBSET Symbols
           /\ \A s \in Newly :
                /\ Fresh(s)
                /\ Margin(account'.positions[s]) = Margin(loop.positions[s])
                /\ account'.positions[s].fee = loop.positions[s].fee
<1>1. /\ loop.next # 0 /\ account'.positions = LeftNow /\ account'.last = ThisBar
  BY EndBarEffect, OrderFacts
<1>2. ThisBar # 0
  BY <1>1, LoopWhole
<1>3. Newly = {s \in Symbols : LeftNow[s].entered = ThisBar}
  BY <1>1 DEF Newly
<1>4. ASSUME NEW s \in Symbols, LeftNow[s].entered = ThisBar
      PROVE  Fresh(s) /\ Margin(LeftNow[s]) = Margin(loop.positions[s])
             /\ LeftNow[s].fee = loop.positions[s].fee
  <2>1. LeftNow[s] # NoPosition
    BY <1>2, <1>4, NothingCounts
  <2>2. LeftNow[s] = FundedOf[s]
    BY <2>1 DEF LeftNow
  <2>3. SameButHeld(loop.positions[s], FundedOf[s])
    BY <1>1, SymbolAtEnd
  <2> QED BY <1>4, <2>2, <2>3 DEF SameButHeld, Fresh, Margin
<1> QED BY <1>1, <1>3, <1>4

(* Whatever leaves later in the bar, its entries are paid from the cash     *)
(* before the bar, next to what was held before.                            *)
LEMMA EntriesStep ==
    ASSUME IInv, EndBar, Newly # {}
    PROVE  SumFunction([s \in Symbols |-> Margin(account.positions[s])])
             + SumFunctionOnSet([s \in Symbols |-> Margin(account'.positions[s])
                                                     + account'.positions[s].fee], Newly)
           <= account.cash
<1> DEFINE P == loop.positions
           held == [s \in Symbols |-> Margin(account.positions[s])]
           entered == [s \in Symbols |-> Margin(account'.positions[s])
                                           + account'.positions[s].fee]
           new == [s \in Symbols |-> IF s \in Newly THEN Margin(P[s]) + P[s].fee ELSE 0]
           both == [s \in Symbols |-> held[s] + new[s]]
           margin == [s \in Symbols |-> Margin(P[s])]
           fee == [s \in Symbols |-> IF Fresh(s) THEN P[s].fee ELSE 0]
           all == [s \in Symbols |-> margin[s] + fee[s]]
<1>1. loop.next # 0 /\ account.cash \in Int
  BY EndBarEffect, OrderFacts, AccountWhole
<1>2. /\ LoopInv /\ AllWhole(P) /\ AllWhole(account.positions) /\ loop.cash \in Int
  BY <1>1, LoopWhole, AccountWhole
<1>3. /\ Newly \in SUBSET Symbols
      /\ \A s \in Newly : /\ Fresh(s) /\ Margin(account'.positions[s]) = Margin(P[s])
                          /\ account'.positions[s].fee = P[s].fee
  BY NewlyFacts
<1>4. ASSUME NEW s \in Symbols
      PROVE  /\ held[s] \in Nat /\ new[s] \in Int /\ margin[s] \in Nat /\ fee[s] \in Nat
             /\ both[s] = held[s] + new[s] /\ all[s] = margin[s] + fee[s]
             /\ both[s] <= all[s]
  <2>1. Whole(P[s]) /\ Whole(account.positions[s])
    BY <1>2 DEF AllWhole
  <2>2. /\ Margin(P[s]) \in Nat /\ Margin(account.positions[s]) \in Nat /\ P[s].fee \in Nat
    BY <2>1, MarginType, PositionTypes
  <2>3. /\ held[s] = Margin(account.positions[s]) /\ margin[s] = Margin(P[s])
        /\ new[s] = IF s \in Newly THEN Margin(P[s]) + P[s].fee ELSE 0
        /\ fee[s] = IF Fresh(s) THEN P[s].fee ELSE 0
        /\ both[s] = held[s] + new[s] /\ all[s] = margin[s] + fee[s]
    OBVIOUS
  <2>4. /\ Fresh(s) => Margin(account.positions[s]) = 0
        /\ ~Fresh(s) => Margin(account.positions[s]) = Margin(P[s])
    BY <1>1, FreshFacts, NothingCounts
  <2>5. s \in Newly => Fresh(s)
    BY <1>3
  <2> HIDE DEF held, new, margin, fee, both, all
  <2> QED BY <2>2, <2>3, <2>4, <2>5
<1>5. /\ held \in [Symbols -> Int] /\ new \in [Symbols -> Int] /\ margin \in [Symbols -> Int]
      /\ fee \in [Symbols -> Int]
  <2>1. /\ held = [s \in Symbols |-> held[s]] /\ new = [s \in Symbols |-> new[s]]
        /\ margin = [s \in Symbols |-> margin[s]] /\ fee = [s \in Symbols |-> fee[s]]
    OBVIOUS
  <2> HIDE DEF held, new, margin, fee
  <2> QED BY <1>4, <2>1
<1>6. both \in [Symbols -> Int] /\ all \in [Symbols -> Int]
  <2> HIDE DEF held, new, margin, fee
  <2> QED BY <1>5
<1>7. SumFunctionOnSet(entered, Newly) = SumFunction(new)
  <2>1. /\ \A s \in Newly : new[s] = entered[s]
        /\ \A s \in Symbols \ Newly : new[s] = 0
    BY <1>3
  <2> HIDE DEF new, entered
  <2> QED BY <1>3, <1>5, <2>1, SymbolsFinite, TotalOnPart
<1>8. MarginUsed(loop, ThisBar) = SumFunction(margin) /\ FeesPaid = SumFunction(fee)
  BY DEF MarginUsed, FeesPaid
<1>9. SumFunction(margin) <= loop.cash /\ loop.cash = account.cash - SumFunction(fee)
  BY <1>2, <1>3, <1>8 DEF LoopInv, FitsCash
<1> HIDE DEF held, entered, new, both, margin, fee, all
<1>10. /\ SumFunction(both) = SumFunction(held) + SumFunction(new)
       /\ SumFunction(all) = SumFunction(margin) + SumFunction(fee)
       /\ SumFunction(both) <= SumFunction(all)
  <2>1. /\ \A s \in Symbols : both[s] = held[s] + new[s]
        /\ \A s \in Symbols : all[s] = margin[s] + fee[s]
        /\ \A s \in Symbols : both[s] <= all[s]
    BY <1>4
  <2>2. SumFunction(both) = SumFunction(held) + SumFunction(new)
    BY <1>5, <1>6, <2>1, SymbolsFinite, TotalAdd
  <2>3. SumFunction(all) = SumFunction(margin) + SumFunction(fee)
    BY <1>5, <1>6, <2>1, SymbolsFinite, TotalAdd
  <2>4. SumFunction(both) <= SumFunction(all)
    BY <1>6, <2>1, SymbolsFinite, TotalMonotone
  <2> QED BY <2>2, <2>3, <2>4
<1>11. /\ SumFunction(held) \in Int /\ SumFunction(new) \in Int
       /\ SumFunction(margin) \in Int /\ SumFunction(fee) \in Int
  BY <1>5, SymbolsFinite, TotalType
<1>12. SumFunction(held) + SumFunction(new) <= account.cash
  BY <1>1, <1>2, <1>9, <1>10, <1>11
<1>13. SumFunction(held) + SumFunctionOnSet(entered, Newly) <= account.cash
  BY <1>7, <1>12
<1> QED BY <1>13 DEF held, entered

(* "Exits later in this bar cannot fund new entries": all entries of a bar  *)
(* and what was held before it fit into the cash before the bar.            *)
THEOREM PortfolioEntriesPaid == Spec => EntriesNeverSpendExits
<1>1. ASSUME IInv, [Next]_vars
      PROVE  [Processed /\ Newly # {} =>
                SumFunction([s \in Symbols |-> Margin(account.positions[s])])
                  + SumFunctionOnSet([s \in Symbols |-> Margin(account'.positions[s])
                                                          + account'.positions[s].fee], Newly)
                <= account.cash]_vars
  BY <1>1, ProcessedIsEndBar, EntriesStep
<1> QED BY <1>1, PortfolioInv, PTL DEF Spec, EntriesNeverSpendExits

-----------------------------------------------------------------------------
(* A run that does not look for entries comes to the end of the batch with  *)
(* the positions and the cash of the account.                               *)
LEMMA NotRunning ==
    ASSUME IInv, loop.next # 0, account.status # "running"
    PROVE  loop.positions = account.positions /\ loop.cash = account.cash
<1>1. \A s \in Symbols : ~Fresh(s) /\ loop.positions[s] = account.positions[s]
  BY FreshFacts
<1>2. loop.positions = account.positions
  BY <1>1, LoopWhole, AccountWhole
<1> DEFINE fee == [s \in Symbols |-> IF Fresh(s) THEN loop.positions[s].fee ELSE 0]
<1>3. fee \in [Symbols -> {0}]
  BY <1>1
<1>4. loop.cash = account.cash - SumFunction(fee)
  BY LoopWhole DEF LoopInv, FitsCash, FeesPaid
<1> HIDE DEF fee
<1>5. SumFunction(fee) = 0
  BY <1>3, SymbolsFinite, TotalZero
<1>6. account.cash \in Int
  BY AccountWhole
<1> QED BY <1>2, <1>4, <1>5, <1>6

(* What the stress test compares the account with.                          *)
NeededFor(positions, bars) ==
    SumFunction([s \in Symbols |->
        Fee(positions[s].quantity, Extremes(positions, bars)[s], MaintenanceUnits)])

(* The stress test in these terms.                                          *)
LEMMA StressMeans ==
    \A positions, bars, cash, credits :
        Stressed(positions, bars, cash, credits) <=>
            /\ Occupied(positions) # {}
            /\ cash - credits + MarkedAt(positions, Extremes(positions, bars))
                 <= NeededFor(positions, bars)
BY DEF Stressed, NeededFor

(* The stress test of the bar is the one of the positions held before it,   *)
(* charged the debits of the bar alone.                                     *)
LEMMA StressedOnDebits ==
    ASSUME IInv, EndBar, account.status # "running",
           Stressed(account.positions, batch,
              account.cash + SumFunction([s \in Symbols |->
                  Lower(0, FundingPayment(account.positions[s], batch[s].pays))]), 0)
    PROVE  LiquidatedNow
<1> DEFINE A == account.positions
           debit == [s \in Symbols |-> Lower(0, FundingPayment(A[s], batch[s].pays))]
           paid == [s \in Symbols |-> PaidNow[s]]
           credit == [s \in Symbols |-> Credit(PaidNow[s])]
           worst == Extremes(A, batch)
<1>1. loop.next # 0
  BY EndBarEffect, OrderFacts
<1>2. loop.positions = A /\ loop.cash = account.cash /\ account.cash \in Int /\ AllWhole(A)
  BY <1>1, NotRunning, AccountWhole
<1>3. ASSUME NEW s \in Symbols
      PROVE  /\ SameButHeld(A[s], HeldNow[s]) /\ paid[s] \in Int /\ debit[s] \in Int
             /\ credit[s] \in Int /\ paid[s] = debit[s] + credit[s]
  <2> DEFINE h == HeldNow[s]
             x == PaidNow[s]
             amount == FundingPayment(h, batch[s].pays)
  <2>1. Whole(h) /\ SameButHeld(A[s], h) /\ x \in Int
    BY <1>1, <1>2, SymbolAtEnd
  <2>2. x = PaidOn(h, batch[s], ThisBar)
    BY DEF PaidNow
  <2>3. batch[s].pays \in Int
    BY BatchTypes DEF IInv
  <2>4. h.entered # ThisBar
    <3>1. A[s].entered < ThisBar /\ A[s].entered \in Nat /\ ThisBar \in Nat
      BY <1>1, <1>2, AccountWhole, LoopWhole, PositionTypes DEF AllWhole
    <3> QED BY <2>1, <3>1 DEF SameButHeld
  <2>5. amount = FundingPayment(A[s], batch[s].pays)
    BY <2>1 DEF FundingPayment, SameButHeld
  <2> HIDE DEF h
  <2>6. Lower(0, x) = Lower(0, amount) /\ amount \in Int
    BY <2>1, <2>2, <2>3, <2>4, PaidFacts
  <2>7. paid[s] = x /\ debit[s] = Lower(0, amount) /\ credit[s] = Higher(0, x)
    BY <2>5 DEF Credit
  <2> HIDE DEF x, amount, paid, debit, credit
  <2>8. Lower(0, x) \in Int /\ Higher(0, x) \in Int /\ x = Lower(0, x) + Higher(0, x)
    BY <2>1 DEF Lower, Higher
  <2> QED BY <2>1, <2>6, <2>7, <2>8 DEF h
<1>4. /\ paid \in [Symbols -> Int] /\ debit \in [Symbols -> Int] /\ credit \in [Symbols -> Int]
      /\ \A s \in Symbols : paid[s] = debit[s] + credit[s]
  <2>1. /\ paid = [s \in Symbols |-> paid[s]] /\ debit = [s \in Symbols |-> debit[s]]
        /\ credit = [s \in Symbols |-> credit[s]]
    OBVIOUS
  <2>2. \A s \in Symbols : /\ paid[s] \in Int /\ debit[s] \in Int /\ credit[s] \in Int
                           /\ paid[s] = debit[s] + credit[s]
    BY <1>3
  <2> HIDE DEF paid, debit, credit
  <2> QED BY <2>1, <2>2
<1>5. SumFunction(PaidNow) = SumFunction(paid) /\ CreditsNow = SumFunction(credit)
  <2>1. PaidNow = paid
    BY DEF PaidNow
  <2> QED BY <2>1 DEF CreditsNow
<1>6. Occupied(HeldNow) = Occupied(A)
  <2>1. \A s \in Symbols : HeldNow[s].quantity = A[s].quantity
    BY <1>3 DEF SameButHeld
  <2> QED BY <2>1 DEF Occupied
<1>7. Extremes(HeldNow, batch) = worst
  <2>1. \A s \in Symbols : HeldNow[s].setup = A[s].setup
    BY <1>3 DEF SameButHeld
  <2> QED BY <2>1 DEF Extremes
<1>8. [s \in Symbols |-> Pnl(HeldNow[s], worst[s])]
        = [s \in Symbols |-> Pnl(A[s], worst[s])]
  <2>1. \A s \in Symbols : Pnl(HeldNow[s], worst[s]) = Pnl(A[s], worst[s])
    BY <1>3 DEF SameButHeld, Pnl
  <2> QED BY <2>1
<1>9. [s \in Symbols |-> Fee(HeldNow[s].quantity, worst[s], MaintenanceUnits)]
        = [s \in Symbols |-> Fee(A[s].quantity, worst[s], MaintenanceUnits)]
  <2>1. \A s \in Symbols : HeldNow[s].quantity = A[s].quantity
    BY <1>3 DEF SameButHeld
  <2> QED BY <2>1
<1>10. /\ MarkedAt(HeldNow, worst) = MarkedAt(A, worst)
       /\ NeededFor(HeldNow, batch) = NeededFor(A, batch)
  BY <1>7, <1>8, <1>9 DEF MarkedAt, NeededFor
<1> DEFINE charged == SumFunction(debit)
           marked == MarkedAt(A, worst)
           needed == NeededFor(A, batch)
           left == ChargedCash - CreditsNow
<1>11. marked \in Int
  <2>1. \A s \in Symbols : Worst(A[s].setup, batch[s].candle) \in Nat
    BY <1>2, BatchTypes, PositionTypes, PriceFacts DEF AllWhole, IInv
  <2>2. worst \in [Symbols -> Int]
    BY <2>1 DEF Extremes
  <2> HIDE DEF worst
  <2> QED BY <1>2, <2>2, MarkType
<1>12. left = account.cash + charged /\ charged \in Int
  <2> HIDE DEF debit, paid, credit
  <2>1. /\ SumFunction(paid) = SumFunction(debit) + SumFunction(credit)
        /\ SumFunction(debit) \in Int /\ SumFunction(credit) \in Int
    BY <1>4, SymbolsFinite, TotalAdd, TotalType
  <2>2. ChargedCash = account.cash + SumFunction(paid) /\ CreditsNow = SumFunction(credit)
    BY <1>2, <1>5 DEF ChargedCash
  <2> QED BY <1>2, <2>1, <2>2
<1>13. Occupied(A) # {} /\ account.cash + charged + marked <= needed
  <2>1. Stressed(A, batch, account.cash + charged, 0)
    OBVIOUS
  <2> DEFINE cash == account.cash + charged
  <2>2. Stressed(A, batch, cash, 0)
    BY <2>1
  <2> HIDE DEF cash, charged, A
  <2>3. Occupied(A) # {} /\ cash - 0 + MarkedAt(A, Extremes(A, batch)) <= NeededFor(A, batch)
    BY <2>2, StressMeans, Zenon
  <2>4. cash - 0 + marked <= needed
    BY <2>3, Zenon
  <2> HIDE DEF marked, needed
  <2> QED BY <1>2, <1>11, <1>12, <2>3, <2>4 DEF cash
<1>14. LiquidatedNow <=>
         /\ Occupied(HeldNow) # {}
         /\ left + MarkedAt(HeldNow, Extremes(HeldNow, batch)) <= NeededFor(HeldNow, batch)
  BY StressMeans, Zenon DEF LiquidatedNow
<1>15. LiquidatedNow <=> Occupied(A) # {} /\ left + marked <= needed
  BY <1>6, <1>7, <1>10, <1>14
<1> HIDE DEF left, charged, marked, needed, A
<1> QED BY <1>12, <1>13, <1>15

(* A liquidation leaves no position and a faulted run.                      *)
LEMMA LiquidationStep ==
    ASSUME IInv, EndBar, LiquidatedNow
    PROVE  account'.status = "faulted" /\ Occupied(account'.positions) = {}
<1>1. account'.status = StatusLeft /\ account'.positions = LeftNow
  BY EndBarEffect
<1>2. \A s \in Symbols : LeftNow[s].quantity = 0
  <2> TAKE s \in Symbols
  <2>1. CASE FundedOf[s].quantity = 0
    BY <2>1, NothingCounts DEF LeftNow
  <2>2. CASE FundedOf[s].quantity # 0
    <3>1. s \in ClosedNow
      BY <2>2 DEF ClosedNow, Occupied
    <3> QED BY <3>1, NothingCounts DEF LeftNow
  <2> QED BY <2>1, <2>2
<1>3. Occupied(LeftNow) = {}
  BY <1>2 DEF Occupied
<1> QED BY <1>1, <1>3 DEF StatusLeft

(* No credit of a bar counts against its stress test: when an account that  *)
(* is paused or stopping, charged the debits alone, does not stand the      *)
(* worst prices of all symbols at once, every position goes.                *)
THEOREM PortfolioCreditsNeverSave == Spec => CreditsNeverSave
<1>1. ASSUME IInv, [Next]_vars
      PROVE  [Processed /\ account.status # "running"
                /\ Stressed(account.positions, batch,
                     account.cash + SumFunction([s \in Symbols |->
                         Lower(0, FundingPayment(account.positions[s], batch[s].pays))]), 0)
              => account'.status = "faulted" /\ Occupied(account'.positions) = {}]_vars
  BY <1>1, ProcessedIsEndBar, StressedOnDebits, LiquidationStep
<1> QED BY <1>1, PortfolioInv, PTL DEF Spec, CreditsNeverSave

-----------------------------------------------------------------------------
(* A sale no worse than the fill of the stop is worth no less, its fee      *)
(* included, and a purchase no dearer.                                      *)
LEMMA NoWorseFill ==
    ASSUME NEW p, Whole(p), NEW price \in Nat,
           IF p.setup.long THEN p.setup.stop <= price ELSE price <= p.setup.stop
    PROVE  AtStop(p) <= Gross(p, price) - ExitFee(p, price, FALSE)
<1> DEFINE buy == ~p.setup.long
           stop == p.setup.stop
           x == AdverseFill(stop, buy)
           y == AdverseFill(price, buy)
           q == p.quantity
           entry == p.price
           exitFee == ExitFee(p, price, FALSE)
<1>1. q \in Nat /\ entry \in Nat /\ stop \in Nat /\ p.setup.long \in BOOLEAN /\ buy \in BOOLEAN
  BY PositionTypes
<1>2. Unit \in Nat /\ FeeUnits \in Nat /\ FeeUnits <= Unit /\ LiquidationUnits \in Nat
  BY UnitFacts
<1>3. StopFillOf(p) = x /\ ExitFill(p, price) = y
  BY DEF StopFillOf, ExitFill
<1>4. AtStop(p) = Unit * q * (IF p.setup.long THEN x - entry ELSE entry - x) - q * x * FeeUnits
  BY <1>3 DEF AtStop, Pnl, Fee
<1>5. Gross(p, price) = Unit * q * (IF p.setup.long THEN y - entry ELSE entry - y)
  BY <1>3 DEF Gross, Pnl
<1>6. exitFee = q * y * FeeUnits
  <2>1. ExitFee(p, price, FALSE) = q * y * (FeeUnits + 0)
    BY <1>3 DEF ExitFee, Fee
  <2>2. FeeUnits + 0 = FeeUnits
    BY <1>2
  <2> QED BY <2>1, <2>2
<1>7. buy <=> ~p.setup.long
  OBVIOUS
<1> HIDE DEF buy, q, entry, stop, exitFee
<1>8. x \in Nat /\ y \in Nat
  BY <1>1, FillFacts
<1>9. IF p.setup.long THEN x <= y ELSE y <= x
  <2>1. CASE p.setup.long
    <3>1. stop <= price
      BY <2>1 DEF stop
    <3> QED BY <1>1, <2>1, <3>1, FillFacts
  <2>2. CASE ~p.setup.long
    <3>1. price <= stop
      BY <2>2 DEF stop
    <3> QED BY <1>1, <2>2, <3>1, FillFacts
  <2> QED BY <2>1, <2>2
<1> HIDE DEF x, y
<1>10. \A a, b \in Nat : a <= b =>
         Unit * q * a - q * a * FeeUnits <= Unit * q * b - q * b * FeeUnits
  <2> SUFFICES ASSUME NEW a \in Nat, NEW b \in Nat, a <= b
               PROVE  Unit * q * a - q * a * FeeUnits <= Unit * q * b - q * b * FeeUnits
    OBVIOUS
  <2>1. PICK d \in Nat : b = a + d
    BY b - a \in Nat
  <2> DEFINE k == Unit - FeeUnits
  <2>2. k \in Nat /\ Unit = FeeUnits + k
    BY <1>2
  <2> HIDE DEF k
  <2>3. q * d * k \in Nat
    BY <1>1, <2>2
  <2>4. (Unit * q * b - q * b * FeeUnits) - (Unit * q * a - q * a * FeeUnits) = q * d * k
    BY <1>1, <1>2, <2>1, <2>2
  <2>5. Unit * q * b - q * b * FeeUnits \in Int /\ Unit * q * a - q * a * FeeUnits \in Int
    BY <1>1, <1>2
  <2> QED BY <2>3, <2>4, <2>5
<1>11. \A a, b \in Nat : a <= b =>
         Unit * q * a + q * a * FeeUnits <= Unit * q * b + q * b * FeeUnits
  <2> SUFFICES ASSUME NEW a \in Nat, NEW b \in Nat, a <= b
               PROVE  Unit * q * a + q * a * FeeUnits <= Unit * q * b + q * b * FeeUnits
    OBVIOUS
  <2>1. PICK d \in Nat : b = a + d
    BY b - a \in Nat
  <2>2. Unit * q * d \in Nat /\ q * d * FeeUnits \in Nat
    BY <1>1, <1>2
  <2>3. Unit * q * b + q * b * FeeUnits
          = Unit * q * a + q * a * FeeUnits + (Unit * q * d + q * d * FeeUnits)
    BY <1>1, <1>2, <2>1
  <2>4. Unit * q * a + q * a * FeeUnits \in Int
    BY <1>1, <1>2
  <2> QED BY <2>2, <2>3, <2>4
<1>12. ASSUME p.setup.long PROVE AtStop(p) <= Gross(p, price) - exitFee
  <2>1. AtStop(p) = Unit * q * (x - entry) - q * x * FeeUnits
    BY <1>4, <1>12
  <2>2. Gross(p, price) = Unit * q * (y - entry)
    BY <1>5, <1>12
  <2>3. Unit * q * x - q * x * FeeUnits <= Unit * q * y - q * y * FeeUnits
    BY <1>8, <1>9, <1>10, <1>12
  <2>4. /\ Unit * q * (x - entry) = Unit * q * x - Unit * q * entry
        /\ Unit * q * (y - entry) = Unit * q * y - Unit * q * entry
    BY <1>1, <1>2, <1>8
  <2>5. /\ Unit * q * x \in Int /\ Unit * q * y \in Int /\ Unit * q * entry \in Int
        /\ q * x * FeeUnits \in Int /\ q * y * FeeUnits \in Int
    BY <1>1, <1>2, <1>8
  <2> DEFINE ux == Unit * q * x  uy == Unit * q * y  ue == Unit * q * entry
             fx == q * x * FeeUnits  fy == q * y * FeeUnits
  <2>6. /\ AtStop(p) = ux - ue - fx /\ Gross(p, price) = uy - ue
        /\ exitFee = fy /\ ux - fx <= uy - fy
    BY <1>6, <2>1, <2>2, <2>3, <2>4
  <2>7. ux \in Int /\ uy \in Int /\ ue \in Int /\ fx \in Int /\ fy \in Int
    BY <2>5
  <2> HIDE DEF ux, uy, ue, fx, fy
  <2> QED BY <2>6, <2>7
<1>13. ASSUME ~p.setup.long PROVE AtStop(p) <= Gross(p, price) - exitFee
  <2>1. AtStop(p) = Unit * q * (entry - x) - q * x * FeeUnits
    BY <1>4, <1>13
  <2>2. Gross(p, price) = Unit * q * (entry - y)
    BY <1>5, <1>13
  <2>3. Unit * q * y + q * y * FeeUnits <= Unit * q * x + q * x * FeeUnits
    BY <1>8, <1>9, <1>11, <1>13
  <2>4. /\ Unit * q * (entry - x) = Unit * q * entry - Unit * q * x
        /\ Unit * q * (entry - y) = Unit * q * entry - Unit * q * y
    BY <1>1, <1>2, <1>8
  <2>5. /\ Unit * q * x \in Int /\ Unit * q * y \in Int /\ Unit * q * entry \in Int
        /\ q * x * FeeUnits \in Int /\ q * y * FeeUnits \in Int
    BY <1>1, <1>2, <1>8
  <2> DEFINE ux == Unit * q * x  uy == Unit * q * y  ue == Unit * q * entry
             fx == q * x * FeeUnits  fy == q * y * FeeUnits
  <2>6. /\ AtStop(p) = ue - ux - fx /\ Gross(p, price) = ue - uy
        /\ exitFee = fy /\ uy + fy <= ux + fx
    BY <1>6, <2>1, <2>2, <2>3, <2>4
  <2>7. ux \in Int /\ uy \in Int /\ ue \in Int /\ fx \in Int /\ fy \in Int
    BY <2>5
  <2> HIDE DEF ux, uy, ue, fx, fy
  <2> QED BY <2>6, <2>7
<1>14. AtStop(p) <= Gross(p, price) - exitFee
  BY <1>12, <1>13
<1> QED BY <1>14 DEF exitFee

(* On a bar that does not open beyond it, a position leaves no worse than   *)
(* at its stop.                                                             *)
LEMMA NoWorsePrice ==
    ASSUME NEW p, Whole(p), p.quantity # 0, NEW bar, bar.candle \in Candle, Validated(bar.candle),
           NEW b, ExitOf(p, bar, b).reason # "none",
           p.entered # b => IF p.setup.long THEN p.setup.stop <= bar.candle.open
                                            ELSE bar.candle.open <= p.setup.stop
    PROVE  IF p.setup.long THEN p.setup.stop <= ExitOf(p, bar, b).price
                           ELSE ExitOf(p, bar, b).price <= p.setup.stop
<1> DEFINE c == bar.candle
           s == p.setup
           e == ExitOf(p, bar, b)
<1>1. /\ c.open \in Nat /\ c.high \in Nat /\ c.low \in Nat /\ c.close \in Nat
      /\ s.stop \in Nat /\ s.target \in Nat /\ s.long \in BOOLEAN /\ p.price \in Nat
  BY PositionTypes DEF Candle
<1>2. Ordered(p)
  BY DEF Whole
<1>3. c.low <= c.close /\ c.close <= c.high
  BY <1>1 DEF Validated, Lower, Higher
<1>4. IF s.long THEN s.stop < s.target ELSE s.target < s.stop
  BY <1>1, <1>2 DEF Ordered
<1>5. e = Exit(s, c, p.held, p.entered = b)
  BY DEF ExitOf
<1>6. CASE StopHit(s, c)
  <2>1. e.price = StopPrice(s, c, p.entered = b)
    BY <1>5, <1>6 DEF Exit
  <2>2. CASE p.entered = b
    BY <1>1, <2>1, <2>2 DEF StopPrice
  <2>3. CASE p.entered # b
    BY <1>1, <2>1, <2>3 DEF StopPrice, Lower, Higher
  <2> QED BY <2>2, <2>3
<1>7. CASE ~StopHit(s, c) /\ TargetHit(s, c)
  <2>1. e.price = s.target
    BY <1>5, <1>7 DEF Exit
  <2> QED BY <1>1, <1>4, <2>1
<1>8. CASE ~StopHit(s, c) /\ ~TargetHit(s, c)
  <2>1. e.price = c.close
    BY <1>5, <1>8 DEF Exit
  <2>2. IF s.long THEN s.stop < c.low ELSE c.high < s.stop
    BY <1>1, <1>8 DEF StopHit
  <2> QED BY <1>1, <1>3, <2>1, <2>2
<1> QED BY <1>6, <1>7, <1>8

(* A position on the books at the end of an ordinary bar, or what it gave,  *)
(* is no less than what it gives at its stop.                               *)
LEMMA SymbolAtStop ==
    ASSUME IInv, EndBar, ~LiquidatedNow, ~Gapped, NEW s \in Symbols
    PROVE  /\ s \in ClosedNow => AtStop(loop.positions[s]) <= GrossNow[s] - ExitFeeNow[s]
           /\ s \notin ClosedNow => AtStop(LeftNow[s]) = AtStop(loop.positions[s])
<1> DEFINE p == loop.positions[s]
           f == FundedOf[s]
           bar == batch[s]
<1>1. loop.next # 0
  BY EndBarEffect, OrderFacts
<1>2. Whole(p) /\ Whole(f) /\ SameButHeld(p, f)
  BY <1>1, SymbolAtEnd
<1>3. AtStop(f) = AtStop(p)
  BY <1>2 DEF AtStop, StopFillOf, Pnl, SameButHeld
<1>4. s \notin ClosedNow => LeftNow[s] = f
  BY DEF LeftNow
<1>5. ASSUME s \in ClosedNow PROVE AtStop(p) <= GrossNow[s] - ExitFeeNow[s]
  <2>1. ExitOf(f, bar, ThisBar).reason # "none" /\ f.quantity # 0
    BY <1>5 DEF ClosedNow, ExitNow, Occupied
  <2>2. bar.candle \in Candle /\ Validated(bar.candle)
    BY <1>1, LoopWhole, BatchTypes DEF IInv, LoopInv
  <2>3. f.entered # ThisBar => IF f.setup.long THEN f.setup.stop <= bar.candle.open
                                               ELSE bar.candle.open <= f.setup.stop
    <3> SUFFICES ASSUME f.entered # ThisBar
                 PROVE  IF f.setup.long THEN f.setup.stop <= bar.candle.open
                                        ELSE bar.candle.open <= f.setup.stop
      OBVIOUS
    <3>1. ~Fresh(s)
      BY <1>2 DEF Fresh, SameButHeld
    <3>2. p = account.positions[s]
      BY <1>1, <3>1, FreshFacts
    <3>3. p.quantity # 0 /\ f.setup = p.setup
      BY <1>2, <2>1 DEF SameButHeld
    <3>4. s \in Occupied(account.positions)
      BY <3>2, <3>3 DEF Occupied
    <3>5. IF p.setup.long THEN ~(bar.candle.open < p.setup.stop)
                          ELSE ~(bar.candle.open > p.setup.stop)
      BY <3>2, <3>4 DEF Gapped
    <3>6. bar.candle.open \in Nat /\ p.setup.stop \in Nat
      BY <1>2, <2>2, PositionTypes DEF Candle
    <3> HIDE DEF p, f, bar
    <3> QED BY <3>3, <3>5, <3>6
  <2>4. PriceNow[s] = ExitOf(f, bar, ThisBar).price
    BY DEF PriceNow, ExitNow
  <2>5. PriceNow[s] \in Nat
    BY <1>1, SymbolAtEnd
  <2>6. GrossNow[s] = Gross(f, PriceNow[s])
    BY DEF GrossNow
  <2>7. ExitFeeNow[s] = ExitFee(f, PriceNow[s], FALSE)
    BY DEF ExitFeeNow, ExitFee
  <2> DEFINE price == PriceNow[s]
  <2> HIDE DEF p, f, bar, price
  <2>8. IF f.setup.long THEN f.setup.stop <= price ELSE price <= f.setup.stop
    BY <1>2, <2>1, <2>2, <2>3, <2>4, NoWorsePrice DEF price
  <2>9. AtStop(f) <= Gross(f, price) - ExitFee(f, price, FALSE)
    BY <1>2, <2>5, <2>8, NoWorseFill DEF price
  <2> QED BY <1>3, <2>6, <2>7, <2>9 DEF price
<1> QED BY <1>3, <1>4, <1>5

(* The end of an ordinary bar leaves the account no worse at its stops than *)
(* the loop left it.                                                        *)
LEMMA StopsKept ==
    ASSUME IInv, EndBar, ~LiquidatedNow, ~Gapped, \A s \in Symbols : batch[s].pays = 0
    PROVE  EquityAtStops(loop) <= CashLeft + StopSum(LeftNow)
<1> DEFINE P == loop.positions
           R == LeftNow
           exit == [s \in Symbols |-> GrossNow[s] - ExitFeeNow[s]]
           exits == [s \in Symbols |-> IF s \in ClosedNow THEN GrossNow[s] - ExitFeeNow[s] ELSE 0]
           before == [s \in Symbols |-> AtStop(P[s])]
           after == [s \in Symbols |-> AtStop(R[s])]
           both == [s \in Symbols |-> exits[s] + after[s]]
           paid == [s \in Symbols |-> PaidNow[s]]
<1>1. loop.next # 0
  BY EndBarEffect, OrderFacts
<1>2. AllWhole(P) /\ loop.cash \in Int
  BY <1>1, LoopWhole
<1>3. ASSUME NEW s \in Symbols
      PROVE  /\ exits[s] \in Int /\ before[s] \in Int /\ after[s] \in Int
             /\ before[s] <= exits[s] + after[s] /\ paid[s] = 0
  <2>1. Whole(P[s]) /\ Whole(R[s]) /\ GrossNow[s] \in Int /\ ExitFeeNow[s] \in Int
    BY <1>1, SymbolAtEnd
  <2>2. AtStop(P[s]) \in Int /\ AtStop(R[s]) \in Int
    BY <2>1, AtStopType
  <2>3. PaidNow[s] = 0
    BY <1>1, SymbolAtEnd
  <2>4. /\ exits[s] = IF s \in ClosedNow THEN GrossNow[s] - ExitFeeNow[s] ELSE 0
        /\ before[s] = AtStop(P[s]) /\ after[s] = AtStop(R[s]) /\ paid[s] = PaidNow[s]
    OBVIOUS
  <2>5. /\ s \in ClosedNow => AtStop(P[s]) <= GrossNow[s] - ExitFeeNow[s] /\ AtStop(R[s]) = 0
        /\ s \notin ClosedNow => AtStop(R[s]) = AtStop(P[s])
    <3>1. s \in ClosedNow => AtStop(R[s]) = 0
      BY NothingCounts DEF LeftNow
    <3> QED BY <3>1, SymbolAtStop
  <2> HIDE DEF exits, before, after, paid, P, R
  <2> QED BY <2>1, <2>2, <2>3, <2>4, <2>5
<1>4. /\ exits \in [Symbols -> Int] /\ before \in [Symbols -> Int] /\ after \in [Symbols -> Int]
      /\ paid \in [Symbols -> {0}] /\ \A s \in Symbols : before[s] <= exits[s] + after[s]
  <2>1. /\ exits = [s \in Symbols |-> exits[s]] /\ before = [s \in Symbols |-> before[s]]
        /\ after = [s \in Symbols |-> after[s]] /\ paid = [s \in Symbols |-> paid[s]]
    OBVIOUS
  <2>2. \A s \in Symbols : /\ exits[s] \in Int /\ before[s] \in Int /\ after[s] \in Int
                           /\ before[s] <= exits[s] + after[s] /\ paid[s] = 0
    BY <1>3
  <2> HIDE DEF exits, before, after, paid
  <2> QED BY <2>1, <2>2
<1>5. both \in [Symbols -> Int] /\ \A s \in Symbols : both[s] = exits[s] + after[s]
  <2> HIDE DEF exits, after
  <2> QED BY <1>4
<1>6. SumFunctionOnSet(exit, ClosedNow) = SumFunction(exits)
  <2>1. ClosedNow \in SUBSET Symbols
    BY DEF ClosedNow, Occupied, FundedOf
  <2>2. /\ \A s \in ClosedNow : exits[s] = exit[s]
        /\ \A s \in Symbols \ ClosedNow : exits[s] = 0
    BY <2>1
  <2> HIDE DEF exit, exits
  <2> QED BY <1>4, <2>1, <2>2, SymbolsFinite, TotalOnPart
<1>7. SumFunction(PaidNow) = SumFunction(paid)
  <2>1. PaidNow = paid
    BY DEF PaidNow
  <2> QED BY <2>1
<1>8. CashLeft = ChargedCash - 0 + SumFunctionOnSet(exit, ClosedNow)
  BY DEF CashLeft
<1>9. EquityAtStops(loop) = loop.cash + SumFunction(before) /\ StopSum(R) = SumFunction(after)
  BY InTotals DEF StopSum
<1> HIDE DEF exit, exits, before, after, both, paid
<1>10. /\ SumFunction(both) = SumFunction(exits) + SumFunction(after)
       /\ SumFunction(before) <= SumFunction(both) /\ SumFunction(paid) = 0
  <2>1. SumFunction(both) = SumFunction(exits) + SumFunction(after)
    BY <1>4, <1>5, SymbolsFinite, TotalAdd
  <2>2. \A s \in Symbols : before[s] <= both[s]
    BY <1>4, <1>5
  <2>3. SumFunction(before) <= SumFunction(both)
    BY <1>4, <1>5, <2>2, SymbolsFinite, TotalMonotone
  <2>4. SumFunction(paid) = 0
    BY <1>4, SymbolsFinite, TotalZero
  <2> QED BY <2>1, <2>3, <2>4
<1>11. SumFunction(exits) \in Int /\ SumFunction(before) \in Int /\ SumFunction(after) \in Int
  BY <1>4, SymbolsFinite, TotalType
<1>12. ChargedCash = loop.cash
  BY <1>2, <1>7, <1>10 DEF ChargedCash
<1>13. CashLeft = loop.cash + SumFunction(exits)
  BY <1>2, <1>6, <1>8, <1>11, <1>12
<1> QED BY <1>2, <1>9, <1>10, <1>11, <1>13

(* With what the loop had budgeted, the day stays within its limit.         *)
LEMMA BudgetStep ==
    ASSUME IInv, EndBar, Newly # {}, account'.status # "faulted", ~Gapped,
           \A s \in Symbols : batch[s].pays = 0
    PROVE  account'.dayOpen - EquityAtStops(account') <= RiskPolicy.daily
<1>1. loop.next # 0 /\ ~LiquidatedNow
  BY EndBarEffect, OrderFacts, LiquidationStep
<1>2. EquityAtStops(loop) <= CashLeft + StopSum(LeftNow)
  BY <1>1, StopsKept
<1>3. loop.dayOpen - EquityAtStops(loop) <= RiskPolicy.daily
  BY <1>1, LoopWhole, NewlyFacts DEF LoopInv, Budgeted
<1>4. account'.dayOpen = loop.dayOpen /\ account'.cash = CashLeft /\ account'.positions = LeftNow
  BY EndBarEffect
<1>5. EquityAtStops(account') = CashLeft + StopSum(LeftNow)
  BY <1>4, InTotals
<1>6. EquityAtStops(loop) \in Int /\ loop.dayOpen \in Int /\ RiskPolicy.daily \in Int
  <2>1. TypeOK /\ AllWhole(loop.positions) /\ loop.cash \in Int /\ loop.dayOpen \in Int
    BY <1>1, LoopWhole DEF IInv
  <2>2. EquityAtStops(loop) \in Int
    BY <2>1, RiskBounds
  <2>3. RiskPolicy.daily \in Int
    BY SmallTypes
  <2> QED BY <2>1, <2>2, <2>3
<1>7. CashLeft + StopSum(LeftNow) \in Int
  <2>1. IInv'
    BY EndBarIInv
  <2>2. account'.cash \in Int
    BY <2>1 DEF IInv, TypeOK, Account
  <2>3. AllWhole(LeftNow)
    <3>1. \A s \in Symbols : Whole(LeftNow[s])
      BY <1>1, SymbolAtEnd
    <3>2. LeftNow \in [Symbols -> Position]
      BY <3>1, PositionTypes DEF LeftNow
    <3> QED BY <3>1, <3>2 DEF AllWhole
  <2>4. StopSum(LeftNow) \in Int
    BY <2>3, SumTypes
  <2> QED BY <1>4, <2>2, <2>4
<1> DEFINE total == CashLeft + StopSum(LeftNow)
<1> HIDE DEF total
<1>8. EquityAtStops(loop) <= total /\ total \in Int /\ EquityAtStops(account') = total
  BY <1>2, <1>5, <1>7 DEF total
<1> QED BY <1>3, <1>4, <1>6, <1>8

(* An entry is only made when the loss of the day stays within its limit    *)
(* even if every position, old and new, then goes to its stop, and however  *)
(* the positions leave on that bar, funding, gaps and liquidation aside.    *)
THEOREM PortfolioLossesBudgeted == Spec => LossesAreBudgeted
<1>1. ASSUME IInv, [Next]_vars
      PROVE  [Processed /\ Newly # {} /\ account'.status # "faulted" /\ ~Gapped
                /\ (\A s \in Symbols : batch[s].pays = 0)
              => account'.dayOpen - EquityAtStops(account') <= RiskPolicy.daily]_vars
  BY <1>1, ProcessedIsEndBar, BudgetStep
<1> QED BY <1>1, PortfolioInv, PTL DEF Spec, LossesAreBudgeted
=============================================================================
