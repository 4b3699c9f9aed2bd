------------------------------ MODULE Pullback ------------------------------
(***************************************************************************)
(* The pullback strategy (strategy/pullback.py, evaluate_pullback): what    *)
(* setup, if any, two histories of closed candles give.  This is the        *)
(* default profile ("classic") with support and resistance protection.      *)
(*                                                                         *)
(* A history is a sequence of candles (open, high, low, close, volume)      *)
(* without gaps and the time `end` its last one closed; time is counted in  *)
(* entry bars, and a trend bar lasts TrendBars of them.  Prices are counted *)
(* in a unit that divides the tick; fractions and ratios are counted in     *)
(* 1 / Unit.  Indicators are exact where the code keeps 40 digits.          *)
(***************************************************************************)
EXTENDS Integers, Sequences, SequencesExt

CONSTANTS
    TrendBars,          \* entry bars in a trend bar
    FastPeriod, SlowPeriod, PullbackPeriod,
    Lookback, Span,     \* level_lookback_bars, pivot_confirmation_bars
    VolumeBars,         \* bars of the volume mean (20), or 0: filter disabled
    ExpiryBars,         \* entry_expiry_bars
    RewardUnits,        \* the larger of reward_multiple and minimum_reward_to_risk
    NetOfCosts,         \* cost_filter: net_reward_risk (TRUE) or gross_only
    FeeUnits, SlipUnits,
    Unit,
    PriceTick, MinPrice, MaxPrice

ASSUME PullbackAssumption ==
    /\ {TrendBars, FastPeriod, PullbackPeriod, Span, ExpiryBars, RewardUnits, PriceTick, Unit}
         \subseteq Nat \ {0}
    /\ {VolumeBars, SlowPeriod, Lookback, MinPrice, MaxPrice} \subseteq Nat
    /\ FastPeriod \in 2..(SlowPeriod - 1) /\ PullbackPeriod >= 2
    /\ Lookback >= 2 * Span + 1
    /\ {FeeUnits, SlipUnits} \subseteq 0..Unit
    /\ NetOfCosts \in BOOLEAN

\* The prices of a candle that is accepted: _validate_candles.
IsCandle(c) ==
    /\ {c.open, c.high, c.low, c.close} \subseteq Nat \ {0}
    /\ {c.open, c.close} \subseteq c.low..c.high

-----------------------------------------------------------------------------
(* Indicators.                                                              *)

Total(values) == FoldSeq(LAMBDA v, sum : v + sum, 0, values)
Field(bars, f) == [i \in DOMAIN bars |-> bars[i][f]]
LastOf(s, n) == SubSeq(s, IF Len(s) > n THEN Len(s) - n + 1 ELSE 1, Len(s))

(* exponential_moving_average, its last value as a fraction: the mean of    *)
(* the first `period` values, then a step of 2 / (period + 1) for each      *)
(* later one.  It depends on where the history starts.                      *)
Average(values, period) ==
    LET num[i \in period..Len(values)] ==
            IF i = period THEN Total(SubSeq(values, 1, period))
            ELSE num[i - 1] * (period - 1)
                   + 2 * values[i] * period * (period + 1)^(i - 1 - period)
    IN  [num |-> num[Len(values)], den |-> period * (period + 1)^(Len(values) - period)]

Above(x, y) == x.num * y.den > y.num * x.den
Exactly(price) == [num |-> price, den |-> 1]

(* _round_price.                                                            *)
Down(price) == (price \div PriceTick) * PriceTick
Up(price) == -Down(-price)

(* adverse_fill_price: slippage, then rounding to the worse tick.           *)
AdversePrice(price, buy) ==
    IF buy THEN -((-price * (Unit + SlipUnits)) \div (Unit * PriceTick)) * PriceTick
           ELSE ((price * (Unit - SlipUnits)) \div (Unit * PriceTick)) * PriceTick

-----------------------------------------------------------------------------
(* confirmed_levels: in the last Lookback bars, the lows strictly below and *)
(* the highs strictly above those of Span bars on each side, that no later  *)
(* bar has closed beyond.                                                   *)
Around(i) == ((i - Span)..(i + Span)) \ {i}

ConfirmedLevels(bars) ==
    LET window == LastOf(bars, Lookback)
        inner == (Span + 1)..(Len(window) - Span)
        after(i) == (i + Span + 1)..Len(window)
        isSupport(i) == /\ \A k \in Around(i) : window[i].low < window[k].low
                        /\ \A k \in after(i) : window[k].close >= window[i].low
        isResistance(i) == /\ \A k \in Around(i) : window[i].high > window[k].high
                           /\ \A k \in after(i) : window[k].close <= window[i].high
    IN  {[support |-> TRUE, price |-> window[i].low] : i \in {j \in inner : isSupport(j)}}
        \union
        {[support |-> FALSE, price |-> window[i].high] : i \in {j \in inner : isResistance(j)}}

\* The level nearest to the market on its side: the highest below, the lowest above.
Nearest(levels, below) ==
    CHOOSE l \in levels :
        \A m \in levels : IF below THEN m.price <= l.price ELSE l.price <= m.price

\* The price one tick beyond a level, on the side away from the market or before it.
TickBelow(price) == Down(price) - PriceTick
TickAbove(price) == Up(price) + PriceTick

(* net_reward_to_risk_passes.                                               *)
NetPasses(entry, stop, target, buy) ==
    LET stopFill == AdversePrice(stop, ~buy)
        targetFill == AdversePrice(target, ~buy)
        side == IF buy THEN 1 ELSE -1
        reward == side * (targetFill - entry) * Unit - (entry + targetFill) * FeeUnits
        loss == side * (entry - stopFill) * Unit + (entry + stopFill) * FeeUnits
    IN  reward > 0 /\ loss > 0 /\ reward * Unit >= loss * RewardUnits

\* Bug: the reward is counted from the trigger, not from the slipped entry.
PaysBeforeSlippage(entry, expected, stop, target, buy) ==
    LET reward == IF buy THEN target - entry ELSE entry - target
        distance == IF buy THEN expected - stop ELSE stop - expected
    IN  distance > 0 /\ reward * Unit >= distance * RewardUnits

Pays(entry, expected, stop, target, buy) ==
    LET reward == IF buy THEN target - expected ELSE expected - target
        distance == IF buy THEN expected - stop ELSE stop - expected
    IN  /\ distance # 0
        /\ reward * Unit >= (IF distance > 0 THEN distance ELSE -distance) * RewardUnits
        /\ NetOfCosts => NetPasses(expected, stop, target, buy)

-----------------------------------------------------------------------------
(* evaluate_pullback at asOf.                                               *)
NoSetup(reason) == [found |-> FALSE, reason |-> reason]

\* The direction of the trend, and the pullback of the last closed candle.
LongSignal(fast, slow, pullback, last) ==
    /\ Above(fast, slow) /\ last.close > last.open
    /\ ~Above(Exactly(last.low), pullback) /\ Above(Exactly(last.close), pullback)
ShortSignal(fast, slow, pullback, last) ==
    /\ Above(slow, fast) /\ last.close < last.open
    /\ ~Above(pullback, Exactly(last.high)) /\ Above(pullback, Exactly(last.close))

\* Entry, stop and target of a signal.
Protected(buy, last, levels, asOf) ==
    LET entry == IF buy THEN Down(last.high) + PriceTick ELSE Up(last.low) - PriceTick
        expected == AdversePrice(entry, buy)
        protective == {l \in levels : l.support = buy /\ (IF buy THEN l.price < last.low
                                                                 ELSE l.price > last.high)}
        level == Nearest(protective, buy)
        stop == IF buy THEN TickBelow(level.price) ELSE TickAbove(level.price)
        goal(l) == IF buy THEN TickBelow(l.price) ELSE TickAbove(l.price)
        opposing == {l \in levels : /\ l.support # buy
                                    /\ IF buy THEN l.price > expected ELSE l.price < expected
                                    /\ Pays(entry, expected, stop, goal(l), buy)}
        target == goal(Nearest(opposing, ~buy))
    IN  IF protective = {} \/ opposing = {} THEN NoSetup("level")
        ELSE IF \E p \in {entry, stop, target} : p <= 0 \/ p < MinPrice \/ p > MaxPrice
        THEN NoSetup("price")
        ELSE [found |-> TRUE, long |-> buy, entry |-> entry, expected |-> expected,
              stop |-> stop, target |-> target, from |-> asOf, until |-> asOf + ExpiryBars]

Warm(trend, entries) ==
    /\ Len(trend.bars) >= SlowPeriod
    /\ Len(entries.bars) >= IF VolumeBars = 0 \/ PullbackPeriod > VolumeBars
                            THEN PullbackPeriod ELSE VolumeBars + 1

\* The last closed candles of both histories are the latest there can be.
Fresh(trend, entries, asOf) ==
    entries.end = asOf /\ trend.end >= asOf - TrendBars + 1

\* The signal bar traded at least the mean of the bars before it.
Traded(bars) ==
    VolumeBars # 0 =>
        bars[Len(bars)].volume * VolumeBars
            >= Total(Field(LastOf(Front(bars), VolumeBars), "volume"))

Evaluate(trend, entries, asOf) ==
    IF ~Warm(trend, entries) THEN NoSetup("warm-up")
    ELSE IF ~Fresh(trend, entries, asOf) THEN NoSetup("stale")
    ELSE LET last == entries.bars[Len(entries.bars)]
             closes == Field(trend.bars, "close")
             fast == Average(closes, FastPeriod)
             slow == Average(closes, SlowPeriod)
             pullback == Average(Field(entries.bars, "close"), PullbackPeriod)
             buy == LongSignal(fast, slow, pullback, last)
             levels == ConfirmedLevels(entries.bars) \union ConfirmedLevels(trend.bars)
         IN  IF ~buy /\ ~ShortSignal(fast, slow, pullback, last) THEN NoSetup("signal")
             ELSE IF ~Traded(entries.bars) THEN NoSetup("volume")
             ELSE Protected(buy, last, levels, asOf)

\* _require_history: what stops a run rather than finding nothing.
Unusable(evaluation) == ~evaluation.found /\ evaluation.reason \in {"warm-up", "stale"}
=============================================================================
