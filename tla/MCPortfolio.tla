---------------------------- MODULE MCPortfolio ----------------------------
(***************************************************************************)
(* Three symbols; batches and offers chosen so that they enter together or    *)
(* apart, on either side, run into profit, leave at stop and target, gap,   *)
(* and are liquidated together while one of them earns a credit.            *)
(***************************************************************************)
EXTENDS PortfolioAccount

MCOrder == <<"a", "b", "c">>
MCRules == [s \in {"a", "b", "c"} |->
    [minPrice |-> 1, maxPrice |-> 500, minQuantity |-> 1, maxQuantity |-> 9, minNotional |-> 0]]
MCPolicy == [basis |-> "equity", risk |-> 12, reserve |-> 10, drawdown |-> 50, distance |-> 50,
             reward |-> 100, notional |-> 90000, exposure |-> 90000, aggregate |-> 2600,
             daily |-> 3500, positions |-> 2]
MCLeverage == [s \in {"a", "b", "c"} |-> IF s = "c" THEN 4 ELSE 1]

Long == [long |-> TRUE, entry |-> 40, stop |-> 36, target |-> 60, from |-> 0, until |-> 0,
         hold |-> 0]
Short == [long |-> FALSE, entry |-> 40, stop |-> 44, target |-> 20, from |-> 0, until |-> 0,
          hold |-> 0]
MCSetupOf == [s \in {"a", "b", "c"} |-> [side \in {"long", "short"} |->
                IF side = "long" THEN Long ELSE Short]]

Candle4(o, h, l, c) == [open |-> o, high |-> h, low |-> l, close |-> c]
Shown(candle, at, pays) == [candle |-> candle, at |-> at, pays |-> pays]
Around == Candle4(40, 42, 38, 42)
Below == Candle4(38, 39, 34, 35)
Quiet == Shown(Around, "open", 0)
Batch(a, c) == [s \in {"a", "b", "c"} |-> IF s = "a" THEN a ELSE IF s = "c" THEN c ELSE Quiet]

MCBatches == {Batch(Quiet, Quiet),
              Batch(Shown(Candle4(50, 52, 48, 50), "open", 0), Quiet),
              Batch(Shown(Candle4(52, 60, 52, 60), "open", 300), Quiet),
              Batch(Shown(Below, "inside", 0), Quiet),
              Batch(Shown(Candle4(42, 89, 40, 44), "open", 0), Shown(Around, "inside", -300))}

Says(direction, found, rejected, late) ==
    [direction |-> direction, found |-> found, rejected |-> rejected, late |-> late]
MCOffers == {Says("long", {"a", "b"}, {}, FALSE), Says("long", {"a", "b"}, {"a"}, FALSE),
             Says("long", {"a"}, {}, FALSE), Says("long", {"b", "c"}, {}, FALSE),
             Says("short", {"a"}, {}, FALSE), Says("short", {"b"}, {}, FALSE),
             Says("long", {"a", "b"}, {}, TRUE), Says("neutral", {}, {}, FALSE)}
=============================================================================
