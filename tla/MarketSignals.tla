---------------------------- MODULE MarketSignals ----------------------------
(***************************************************************************)
(* What the paper worker makes of the market: it polls (poll_once,          *)
(* execution/worker.py), fetches the entry and the trend history together   *)
(* while bars close (CandleHistory), and looks for a setup (Pullback) on    *)
(* every bar since the last one it processed.                               *)
(*                                                                         *)
(* PaperWorker has the same worker's transactions, and PaperAccount what    *)
(* becomes of a setup: there, setups are given.                             *)
(***************************************************************************)
EXTENDS CandleHistory, Pullback

CONSTANTS
    Charts,         \* what the market may do: entry candles by open time
    Begin,          \* the first bar of the run
    EntryHistory,   \* entry bars fetched before the first bar to process
    TrendHistory    \* and trend bars

ASSUME SignalsAssumption ==
    /\ Fetches = {"entries", "trend"}
    /\ Dur["entries"] = 1 /\ Dur["trend"] = TrendBars
    /\ {Begin, EntryHistory, TrendHistory} \subseteq Nat
    /\ Begin <= MaxTime /\ EntryHistory <= Begin /\ TrendBars * (TrendHistory + 1) <= Begin + 1
    /\ \A f \in Fetches : Listed[f] = {b \in 0..(MaxTime - 1) : b % Dur[f] = 0}
    /\ \A c \in Charts : \A b \in 0..(MaxTime - 1) : IsCandle(c[b])

VARIABLES
    chart,
    poll,           \* the run's last bar and, while polling, the poll's locals
    decisions       \* what each bar's transaction found

signalVars == <<clock, fetch, chart, poll, decisions>>

Bars == Begin..(MaxTime - 1)

Undecided == NoSetup("undecided")

SignalsInit ==
    /\ clock = Begin
    /\ fetch = [f \in Fetches |-> NoCall]
    /\ chart \in Charts
    /\ poll = [pc |-> "idle", last |-> Begin - 1, next |-> Begin]
    /\ decisions = [b \in Bars |-> [next |-> Begin, setup |-> Undecided]]

-----------------------------------------------------------------------------
(* The trend candle that opens at b, from the entry candles it spans.       *)
TrendCandle(b) ==
    LET part == b..(b + TrendBars - 1)
    IN  [open |-> chart[b].open, close |-> chart[b + TrendBars - 1].close,
         high |-> CHOOSE x \in {chart[t].high : t \in part} : \A t \in part : chart[t].high <= x,
         low |-> CHOOSE x \in {chart[t].low : t \in part} : \A t \in part : x <= chart[t].low]

Candle(f, b) == IF f = "entries" THEN chart[b] ELSE TrendCandle(b)

(* Where the histories of a poll begin: both depend on the first bar it has *)
(* to process, not on the bar it decides.                                   *)
HistoryFrom(f, next) ==
    IF f = "entries" THEN next - EntryHistory
    ELSE (next \div TrendBars) * TrendBars - TrendHistory * TrendBars

\* poll_once: with a bar to process, both histories are asked for.
Poll ==
    /\ poll.pc = "idle" /\ poll.last + 1 < clock
    /\ LET next == poll.last + 1
       IN  /\ poll' = [poll EXCEPT !.pc = "fetching", !.next = next]
           /\ fetch' = [f \in Fetches |-> Called(HistoryFrom(f, next), clock)]
    /\ UNCHANGED <<clock, chart, decisions>>

\* find_candle_gaps on what a call returned.
HasGaps(f) ==
    \E b, c \in Rows(fetch[f]) :
        /\ b + Dur[f] < c
        /\ \A d \in Rows(fetch[f]) : d <= b \/ c <= d

(* asyncio.gather: both have returned, and neither has a gap; or one has    *)
(* not, the client is closed under the other, and serve faults the run.     *)
Gathered ==
    /\ poll.pc = "fetching"
    /\ \A f \in Fetches : fetch[f].pc = "done"
    /\ poll' = [poll EXCEPT !.pc = IF \E f \in Fetches : HasGaps(f) THEN "faulted" ELSE "deciding"]
    /\ UNCHANGED <<clock, fetch, chart, decisions>>

GatherFails ==
    /\ poll.pc = "fetching"
    /\ \E f \in Fetches : fetch[f].pc = "failed"
    /\ fetch' = [f \in Fetches |->
                    IF fetch[f].pc = "done" THEN fetch[f] ELSE [fetch[f] EXCEPT !.pc = "failed"]]
    /\ poll' = [poll EXCEPT !.pc = "faulted"]
    /\ UNCHANGED <<clock, chart, decisions>>

\* Bug: everything fetched is used, bars that closed after asOf with it.
AllFetched(f, asOf) == IF f = "entries" THEN {b \in Rows(fetch[f]) : b < asOf} ELSE Rows(fetch[f])

\* What evaluate_pullback keeps of a history: the candles closed by asOf.
ClosedBy(f, asOf) == {b \in Rows(fetch[f]) : b + Dur[f] <= asOf}

\* The history some bars without gaps make up.
History(f, bars) ==
    LET first == CHOOSE b \in bars : \A c \in bars : b <= c
    IN  IF bars = {} THEN [bars |-> <<>>, end |-> 0]
        ELSE [bars |-> [i \in 1..Cardinality(bars) |-> Candle(f, first + (i - 1) * Dur[f])],
              end |-> first + Cardinality(bars) * Dur[f]]

(* One bar's transaction (process_paper_bar): bars already processed are    *)
(* skipped, a missing one or a history that is not ready faults the run,    *)
(* and the setup is looked for as of the bar's open.                        *)
Due == {b \in Rows(fetch["entries"]) : poll.last < b}

Found(b) ==
    Evaluate(History("trend", ClosedBy("trend", b)), History("entries", ClosedBy("entries", b)), b)

Decide ==
    /\ poll.pc = "deciding" /\ Due # {}
    /\ LET b == CHOOSE c \in Due : \A d \in Due : c <= d
           setup == Found(b)
       IN  IF b # poll.last + 1 \/ Unusable(setup)
           THEN poll' = [poll EXCEPT !.pc = "faulted"] /\ UNCHANGED decisions
           ELSE /\ poll' = [poll EXCEPT !.last = b]
                /\ decisions' = [decisions EXCEPT ![b] = [next |-> poll.next, setup |-> setup]]
    /\ UNCHANGED <<clock, fetch, chart>>

Finish ==
    /\ poll.pc = "deciding" /\ Due = {}
    /\ poll' = [poll EXCEPT !.pc = "idle"]
    /\ UNCHANGED <<clock, fetch, chart, decisions>>

\* The owner acknowledges the fault and resumes the run.
Recover ==
    /\ poll.pc = "faulted"
    /\ poll' = [poll EXCEPT !.pc = "idle"]
    /\ UNCHANGED <<clock, fetch, chart, decisions>>

SignalsNext ==
    \/ (Tick \/ \E f \in Fetches : Answer(f)) /\ UNCHANGED <<chart, poll, decisions>>
    \/ Poll \/ Gathered \/ GatherFails \/ Decide \/ Finish \/ Recover

SignalsSpec == SignalsInit /\ [][SignalsNext]_signalVars

-----------------------------------------------------------------------------
(* What the whole chart gives for bar b, to a run that polled from `next`.  *)
WholeHistory(f, next, b) ==
    History(f, {c \in HistoryFrom(f, next)..b : /\ c + Dur[f] <= b
                                                /\ (c - HistoryFrom(f, next)) % Dur[f] = 0})
InHindsight(next, b) ==
    Evaluate(WholeHistory("trend", next, b), WholeHistory("entries", next, b), b)

Decided == {b \in Bars : decisions[b].setup # Undecided}

(* A decision is the one hindsight makes: a bar is decided from every candle *)
(* closed before it opened and from none that closed later, whether it is    *)
(* processed as it closes or in a recovery with later bars already there,    *)
(* and however pages, retries and late listings cut the histories.  Never is *)
(* a setup missed because the listing was behind: the run faults instead.    *)
DecisionsAreFinal ==
    \A b \in Decided : decisions[b].setup = InHindsight(decisions[b].next, b)

\* A stop or target is next to a low or high no later bar has closed beyond.
Held(price, support, next, b) ==
    \E f \in Fetches :
      LET bars == LastOf(WholeHistory(f, next, b).bars, Lookback)
      IN  \E i \in DOMAIN bars :
            IF support THEN /\ price = TickBelow(bars[i].low)
                            /\ \A j \in i..Len(bars) : bars[j].close >= bars[i].low
                       ELSE /\ price = TickAbove(bars[i].high)
                            /\ \A j \in i..Len(bars) : bars[j].close <= bars[i].high

(* A setup pays: with the slippage of its entry the target is still further  *)
(* away than the stop, by the ratio asked for, all three on their sides of   *)
(* each other, and the stop is behind a level that has held.                 *)
SetupsPay ==
    \A b \in Decided : decisions[b].setup.found =>
        LET s == decisions[b].setup
            gain(p, q) == IF s.long THEN q - p ELSE p - q
        IN  /\ gain(s.stop, s.entry) > 0 /\ gain(s.entry, s.expected) >= 0
            /\ gain(s.expected, s.target) > 0
            /\ gain(s.expected, s.target) * Unit >= gain(s.stop, s.expected) * RewardUnits
            /\ Held(s.stop, s.long, decisions[b].next, b)
=============================================================================
