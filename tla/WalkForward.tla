----------------------------- MODULE WalkForward -----------------------------
(***************************************************************************)
(* The parameter search (backtesting/validation.py): every strategy is run  *)
(* on development folds, one is selected, and only then the holdout.        *)
(*                                                                         *)
(* A strategy is its checksum, a number.  The market is a function of time, *)
(* counted in bars; a window is [start, end).  What a backtest finds is     *)
(* left to Backtest: it is given the candles the code gives it, and its     *)
(* result holds their checksum, which is to say all of them.                *)
(***************************************************************************)
EXTENDS Integers, Sequences, SequencesExt, FiniteSetsExt

CONSTANTS
    Requests,               \* the plan, the strategies (the baseline first) and the market
    Backtest(_, _, _),      \* Backtest(strategy, candles, window)
    Horizon,                \* the longest entry expiry and time stop, and a bar
    MinimumTraining, MinimumValidation,     \* trades
    MaximumDrawdown, MinimumReturn, Penalty,
    MaximumBacktests

VARIABLES
    request,    \* what the search is asked for
    search      \* the locals of run_walk_forward_search

searchVars == <<request, search>>

-----------------------------------------------------------------------------
(* The validators of a plan.                                                *)
IsWindow(w) == w.start < w.end

InOrderFold(fold) == fold.training.end <= fold.validation.start

\* Each fold after the one before.
Advances(folds) ==
    \A i \in 2..Len(folds) :
        /\ folds[i - 1].training.start <= folds[i].training.start
        /\ folds[i - 1].training.end < folds[i].training.end
        /\ folds[i - 1].validation.end <= folds[i].validation.start

ValidPlan(plan) ==
    /\ plan.purge >= 1 /\ plan.folds # <<>> /\ IsWindow(plan.holdout)
    /\ \A i \in DOMAIN plan.folds :
         LET fold == plan.folds[i]
         IN  /\ IsWindow(fold.training) /\ IsWindow(fold.validation) /\ InOrderFold(fold)
             /\ fold.validation.start - fold.training.end >= plan.purge
    /\ Advances(plan.folds)
    /\ plan.holdout.start - Last(plan.folds).validation.end >= plan.purge

\* Unique strategies, a purge that covers them, and a budget for them all.
Budget(r) == Len(r.strategies) * Len(r.plan.folds) * 2 + 2
Accepted(r) ==
    /\ ValidPlan(r.plan)
    /\ IsInjective(r.strategies)
    /\ r.plan.purge >= Horizon
    /\ Budget(r) <= MaximumBacktests

-----------------------------------------------------------------------------
\* Bug: a backtest is given the whole market.
Everything(market, window) == market

\* The candles of the market that have closed when a window ends.
Until(market, window) == [t \in {u \in DOMAIN market : u < window.end} |-> market[t]]

Evaluated(market, s, window) ==
    LET candles == Until(market, window)
    IN  [result |-> Backtest(s, candles, window), dataset |-> candles]

\* What the types of a request say: windows of whole bars, a baseline, and
\* backtests whose results are numbers.
Windows == [start : Int, end : Int]
IsRequest(r) ==
    /\ r.plan.folds \in Seq([training : Windows, validation : Windows])
    /\ r.plan.holdout \in Windows /\ r.plan.purge \in Int
    /\ r.strategies \in Seq(Nat \ {0}) /\ r.strategies # <<>>
    /\ DOMAIN r.market \subseteq Int
    /\ \A s \in ToSet(r.strategies), i \in DOMAIN r.plan.folds :
         LET found == Evaluated(r.market, s, r.plan.folds[i].validation).result
         IN  found.return \in Int /\ found.drawdown \in Int

ASSUME SearchAssumption ==
    /\ \A r \in Requests : IsRequest(r)
    /\ Penalty \in Int

Folds(market, plan, s) ==
    [i \in DOMAIN plan.folds |->
        [training |-> Evaluated(market, s, plan.folds[i].training),
         validation |-> Evaluated(market, s, plan.folds[i].validation)]]

\* No reason to reject: _rejection_reasons.
Sound(run, minimum) ==
    /\ ~run.result.halted
    /\ run.result.trades >= minimum
    /\ run.result.drawdown <= MaximumDrawdown
Eligible(folds) ==
    \A i \in DOMAIN folds : /\ Sound(folds[i].training, MinimumTraining)
                            /\ Sound(folds[i].validation, MinimumValidation)
                            /\ folds[i].validation.result.return > MinimumReturn

Scores(folds) ==
    [i \in DOMAIN folds |->
        folds[i].validation.result.return - Penalty * folds[i].validation.result.drawdown]
Worst(folds) == Min({Scores(folds)[i] : i \in DOMAIN folds})
Sum(folds) == SumFunction(Scores(folds))

\* The better rank: the worst score, then the mean (of as many folds).
Better(a, b) == Worst(a) > Worst(b) \/ (Worst(a) = Worst(b) /\ Sum(a) > Sum(b))

\* The first by rank of those sorted by checksum; 0: none.
Selected(results, strategies) ==
    LET eligible == {s \in ToSet(strategies) : Eligible(results[s])}
        best == {s \in eligible : \A r \in eligible : ~Better(results[r], results[s])}
    IN  IF eligible = {} THEN 0 ELSE Min(best)

-----------------------------------------------------------------------------
(* The search: the strategies one after the other, then the selection, then *)
(* the holdout of the baseline and of the selected one.                     *)
NoResults == <<>>
SearchInit ==
    /\ request \in Requests
    /\ search = [pc |-> "asked", results |-> NoResults, selected |-> 0,
                 holdouts |-> NoResults, backtests |-> 0]

Ask ==
    /\ search.pc = "asked"
    /\ search' = [search EXCEPT !.pc = IF Accepted(request) THEN "folds" ELSE "refused"]
    /\ UNCHANGED request

Tried == DOMAIN search.results

Develop ==
    /\ search.pc = "folds" /\ Cardinality(Tried) < Len(request.strategies)
    /\ LET s == request.strategies[Cardinality(Tried) + 1]
       IN  search' = [search EXCEPT
                !.results = [r \in Tried \union {s} |->
                                IF r = s THEN Folds(request.market, request.plan, s)
                                ELSE search.results[r]],
                !.backtests = @ + 2 * Len(request.plan.folds)]
    /\ UNCHANGED request

Select ==
    /\ search.pc = "folds" /\ Cardinality(Tried) = Len(request.strategies)
    /\ search' = [search EXCEPT !.pc = "holdout",
                                !.selected = Selected(search.results, request.strategies)]
    /\ UNCHANGED request

\* The baseline's holdout is the selected one's when they are the same.
HoldOut ==
    /\ search.pc = "holdout"
    /\ LET held == {request.strategies[1], search.selected} \ {0}
       IN  search' = [search EXCEPT
                !.pc = "done",
                !.holdouts = [s \in held |->
                                Evaluated(request.market, s, request.plan.holdout)],
                !.backtests = @ + Cardinality(held)]
    /\ UNCHANGED request

SearchNext == Ask \/ Develop \/ Select \/ HoldOut

SearchSpec == SearchInit /\ [][SearchNext]_searchVars

-----------------------------------------------------------------------------
(* The selection, and the datasets and results it rests on, are those of a   *)
(* market that ends where the holdout begins, and of the strategies in any   *)
(* order: nothing of the holdout has a part in it.                           *)
HoldoutIsUnseen ==
    search.pc \in {"holdout", "done"} =>
        LET known == [t \in {u \in DOMAIN request.market : u < request.plan.holdout.start}
                        |-> request.market[t]]
            results == [s \in ToSet(request.strategies) |-> Folds(known, request.plan, s)]
            winners == {s \in DOMAIN results : Eligible(results[s])}
        IN  /\ search.results = results
            /\ IF winners = {} THEN search.selected = 0
               ELSE /\ search.selected \in winners
                    /\ \A s \in winners : ~Better(results[s], results[search.selected])
                    /\ \A s \in winners : s < search.selected
                                             => Better(results[search.selected], results[s])
=============================================================================
