------------------------------ MODULE MCOffline ------------------------------
(***************************************************************************)
(* Three parts of the program that share no state, checked in one run: the  *)
(* worker's market data and signals, the files of the database, and the     *)
(* parameter search.  A behaviour exercises one of them, chosen at first.   *)
(***************************************************************************)
EXTENDS MarketSignals, Backup, WalkForward

VARIABLE part

-----------------------------------------------------------------------------
(* The market: candles of 15 minutes and trend candles of two of them.      *)
MCDur == [entries |-> 1, trend |-> 2]
MCListed == [entries |-> 0..9, trend |-> {0, 2, 4, 6, 8}]

C(open, high, low, close) ==
    [open |-> open, high |-> high, low |-> low, close |-> close, volume |-> 1]
FromZero(s) == [t \in 0..(Len(s) - 1) |-> s[t + 1]]

\* Two markets with setups on two bars each, short and long; with pivots that
\* are broken later, targets that only pay before slippage, and trends that
\* the next bars turn; and one in which nobody trades a signal.
Falling == FromZero(<<
    C(48, 70, 14, 34), C(34, 70, 4, 70), C(66, 66, 4, 12), C(12, 68, 12, 24), C(24, 52, 6, 24),
    C(40, 70, 10, 70), C(36, 68, 8, 64), C(64, 64, 46, 46), C(52, 60, 44, 46), C(46, 68, 16, 48)>>)
Rising == FromZero(<<
    C(54, 56, 24, 50), C(50, 68, 4, 10), C(10, 34, 4, 24), C(14, 58, 4, 4), C(12, 46, 8, 16),
    C(14, 52, 6, 18), C(18, 24, 12, 22), C(22, 54, 4, 4), C(10, 22, 10, 22), C(22, 42, 4, 18)>>)
MCCharts == {Falling, Rising, [Rising EXCEPT ![6].volume = 0]}

-----------------------------------------------------------------------------
(* The search: a market of rises and falls; strategy 1 buys every bar, 2    *)
(* follows the bar before, 3 does the opposite.                             *)
Window(start, end) == [start |-> start, end |-> end]
Fold(a, b, c, d) == [training |-> Window(a, b), validation |-> Window(c, d)]
Plan(folds, start, end) == [folds |-> folds, holdout |-> Window(start, end), purge |-> 1]

MCPlans == {
    Plan(<<Fold(1, 3, 4, 5)>>, 6, 8),
    Plan(<<Fold(1, 2, 3, 4), Fold(1, 3, 4, 5)>>, 6, 8),
    Plan(<<Fold(1, 3, 4, 6)>>, 5, 8),
    Plan(<<Fold(1, 3, 4, 5), Fold(1, 2, 3, 4)>>, 6, 8)}

Position(s, candles, t) ==
    IF s = 1 THEN 1 ELSE IF s = 2 THEN candles[t - 1] ELSE -candles[t - 1]

MCBacktest(s, candles, window) ==
    LET bars == {t \in DOMAIN candles : window.start <= t /\ t < window.end}
        gain[t \in 0..8] == IF t = 0 THEN 0
                            ELSE gain[t - 1] + (IF t - 1 \in bars
                                                THEN Position(s, candles, t - 1) * candles[t - 1]
                                                ELSE 0)
    IN  [return |-> gain[8],
         trades |-> Cardinality(bars),
         drawdown |-> Max({0} \union {-gain[t] : t \in 0..8}),
         halted |-> gain[8] < -1]

MCRequests == [plan : MCPlans, strategies : {<<1, 2, 3>>, <<2, 3, 1>>, <<3, 1, 2>>, <<2, 1>>},
               market : [0..7 -> {-1, 1}]]
SomeRequest == CHOOSE r \in MCRequests : TRUE

-----------------------------------------------------------------------------
vars == <<part, signalVars, fileVars, searchVars>>

\* The parts a behaviour does not exercise are somewhere at their start.
NoFilesStep == dir = [database |-> 1, backup |-> 0]

Init ==
    /\ part \in {"signals", "files", "search"}
    /\ SignalsInit /\ (part # "signals" => chart = Falling)
    /\ FilesInit /\ (part # "files" => NoFilesStep)
    /\ SearchInit /\ (part # "search" => request = SomeRequest)

SignalsStep == part = "signals" /\ SignalsNext /\ UNCHANGED <<part, fileVars, searchVars>>
FilesStep == part = "files" /\ FilesNext /\ UNCHANGED <<part, signalVars, searchVars>>
SearchStep == part = "search" /\ SearchNext /\ UNCHANGED <<part, signalVars, fileVars>>

Next == SignalsStep \/ FilesStep \/ SearchStep

Spec == Init /\ [][Next]_vars
=============================================================================
