---------------------------- MODULE CandleHistory ----------------------------
(***************************************************************************)
(* Fetching historical candles: fetch_historical_klines (data/candles.py)   *)
(* through the client's retries (exchange/binance_usdm.py), several fetches *)
(* at a time, while bars close.                                             *)
(*                                                                         *)
(* Time is counted in the shortest interval.  A bar is its open time; a bar *)
(* of fetch f lasts Dur[f].  The exchange lists the bars it has (Listed),   *)
(* each from its open on; a reply is a page of them as the exchange was at  *)
(* most Lag ago, from the time asked for or, wrongly, from before it.       *)
(* Prices are no matter here: they are final when a bar has closed.         *)
(***************************************************************************)
EXTENDS Naturals, FiniteSets

CONSTANTS
    Fetches,        \* the histories fetched together
    Dur,            \* Dur[f]: the interval of fetch f
    Listed,         \* Listed[f]: the bars the exchange ever lists
    MaxTime,        \* bound: the last moment
    Lag,            \* bound: how far the exchange's listing can be behind
    Limit,          \* candles of a full page
    MaxPages,
    MaxRetries

ASSUME HistoryAssumption ==
    /\ Dur \in [Fetches -> Nat \ {0}]
    /\ Listed \in [Fetches -> SUBSET Nat]
    /\ {MaxTime, Lag, MaxRetries} \subseteq Nat
    /\ {Limit, MaxPages} \subseteq Nat \ {0}
    /\ \A f \in Fetches : \A b, c \in Listed[f] : b < c => b + Dur[f] <= c

VARIABLES
    clock,
    fetch       \* fetch[f]: the locals of the call

historyVars == <<clock, fetch>>

(* A call: the server time is asked for, then pages, until it returns.      *)
(* rows[b] is how many times bar b was appended; `horizon` is how far the   *)
(* exchange's listing went on the last page.                                *)
Pcs == {"idle", "time", "page", "done", "failed"}
Times == 0..MaxTime
Call == [pc : Pcs, from : Times, to : Times, fetched : Times, cursor : Nat,
         rows : [Times -> Nat], pages : 0..MaxPages, tries : 0..MaxRetries, horizon : Times]

NoRows == [b \in Times |-> 0]

\* A call for the bars that open from `from` and before `to`.
Called(from, to) ==
    [pc |-> "time", from |-> from, to |-> to, fetched |-> 0, cursor |-> from,
     rows |-> NoRows, pages |-> 0, tries |-> 0, horizon |-> 0]
NoCall == [Called(0, 0) EXCEPT !.pc = "idle"]

Rows(h) == {b \in Times : h.rows[b] # 0}

HistoryInit ==
    /\ clock \in Times
    /\ fetch = [f \in Fetches |-> NoCall]

-----------------------------------------------------------------------------
Tick ==
    /\ clock < MaxTime
    /\ clock' = clock + 1
    /\ UNCHANGED fetch

Becomes(f, next) ==
    /\ fetch' = [fetch EXCEPT ![f] = next]
    /\ UNCHANGED clock

Start(f, from, to) ==
    /\ fetch[f].pc \in {"idle", "done", "failed"}
    /\ from <= to /\ to <= clock
    /\ Becomes(f, Called(from, to))

(* _get: a request that fails is sent again, MaxRetries times; a ban, a     *)
(* status that is no use retrying or a wait too long ends the call.         *)
RequestFails(f) ==
    /\ fetch[f].pc \in {"time", "page"}
    /\ \/ /\ fetch[f].tries < MaxRetries
          /\ Becomes(f, [fetch[f] EXCEPT !.tries = @ + 1])
       \/ Becomes(f, [fetch[f] EXCEPT !.pc = "failed"])

ServerTime(f) ==
    /\ fetch[f].pc = "time"
    /\ Becomes(f, [fetch[f] EXCEPT !.pc = "page", !.fetched = clock, !.tries = 0])

\* The bars a page from `start` can hold ...
Available(f, start, horizon) ==
    {b \in Listed[f] : start <= b /\ b < fetch[f].to /\ b <= horizon}

\* ... and the page: the first Limit of them.
FirstOf(bars) == {b \in bars : Cardinality({c \in bars : c < b}) < Limit}

\* Bug: the bar in progress counts as closed.
HasOpened(f, b) == b <= fetch[f].fetched

\* A bar had closed when the server time was read.
HasClosed(f, b) == b + Dur[f] <= fetch[f].fetched

\* The checks of a page: in the range, and after every bar before.
InOrder(f, page) ==
    \A b \in page : /\ fetch[f].from <= b /\ b < fetch[f].to
                    /\ fetch[f].cursor <= b

\* No more bars: the range is covered, or the page was not full.
EndsAfter(f, page, next) == next >= fetch[f].to \/ Cardinality(page) < Limit

(* The pages fetch_historical_klines goes on from: it appends the closed    *)
(* bars and asks again from after the last one, MaxPages times.             *)
Appended(f, page) ==
    [b \in Times |-> IF b \in page /\ HasClosed(f, b) THEN fetch[f].rows[b] + 1
                     ELSE fetch[f].rows[b]]

Accept(f, page, horizon) ==
    IF page = {} THEN [fetch[f] EXCEPT !.pc = "done", !.horizon = horizon]
    ELSE LET last == CHOOSE b \in page : \A c \in page : c <= b
             next == last + Dur[f]
         IN  [fetch[f] EXCEPT
                !.pc = IF EndsAfter(f, page, next) THEN "done"
                       ELSE IF fetch[f].pages + 1 = MaxPages THEN "failed" ELSE "page",
                !.cursor = next,
                !.rows = Appended(f, page),
                !.pages = @ + 1,
                !.tries = 0,
                !.horizon = horizon]

Page(f) ==
    /\ fetch[f].pc = "page"
    /\ \E horizon \in Times, start \in 0..fetch[f].cursor :
         /\ horizon <= clock /\ clock <= horizon + Lag
         /\ LET page == FirstOf(Available(f, start, horizon))
            IN  Becomes(f, IF InOrder(f, page) THEN Accept(f, page, horizon)
                           ELSE [fetch[f] EXCEPT !.pc = "failed"])

Answer(f) == ServerTime(f) \/ Page(f) \/ RequestFails(f)

HistoryNext ==
    \/ Tick
    \/ \E f \in Fetches : Answer(f) \/ \E from, to \in Times : Start(f, from, to)

HistorySpec == HistoryInit /\ [][HistoryNext]_historyVars

-----------------------------------------------------------------------------
HistoryTypeOK ==
    /\ clock \in Times
    /\ fetch \in [Fetches -> Call]

\* The bars a call can return: those of its range that had closed.
Closed(f) ==
    {b \in Listed[f] : fetch[f].from <= b /\ b < fetch[f].to /\ b + Dur[f] <= fetch[f].fetched}

(* A history is whole: of the bars in its range that had closed when the    *)
(* call began it has each once up to the last one it has and up to where    *)
(* the exchange's listing went in the end, and none that was still open,    *)
(* wherever page boundaries fall, whatever was retried, and while bars open *)
(* and close, and listings lag, between pages.                              *)
HistoryIsWhole ==
    \A f \in Fetches : fetch[f].pc = "done" =>
        /\ \A b \in Times : fetch[f].rows[b] <= IF b \in Closed(f) THEN 1 ELSE 0
        /\ \A b \in Closed(f) :
             b <= fetch[f].horizon \/ (\E c \in Rows(fetch[f]) : b <= c)
                => fetch[f].rows[b] = 1
=============================================================================
