------------------------- MODULE MarketSignalsProofs -------------------------
(***************************************************************************)
(* Proofs about CandleHistory, for any histories, intervals, listings, page *)
(* sizes, retries and lags: what fetch_historical_klines returns is whole;  *)
(* and about MarketSignals, for any charts and any settings of Pullback:    *)
(* what the worker decides of a bar is what hindsight would, and a setup it *)
(* finds pays.                                                              *)
(***************************************************************************)
EXTENDS MarketSignals, FiniteSetTheorems, WellFoundedInduction, TLAPS

-----------------------------------------------------------------------------
(* Pages: the first Limit of some bars.                                     *)

(* The bounds are numbers, and a time is one.                               *)
LEMMA Bounds ==
    /\ MaxTime \in Nat /\ Lag \in Nat /\ MaxRetries \in Nat
    /\ Limit \in Nat /\ 1 <= Limit /\ MaxPages \in Nat /\ 1 <= MaxPages
    /\ \A b \in Times : b \in Nat /\ b <= MaxTime
  BY HistoryAssumption DEF Times

(* A nonempty set of naturals has a least element.                          *)
LEMMA LeastBar ==
    ASSUME NEW P \in SUBSET Nat, P # {} PROVE \E b \in P : \A c \in P : b <= c
  <1>1. PICK b \in P : \A c \in P : ~(<<c, b>> \in OpToRel(<, Nat))
    BY NatLessThanWellFounded, WFMin, Zenon
  <1>2. \A c \in P : ~(c < b)
    BY <1>1 DEF OpToRel
  <1>. QED
    BY <1>2

(* A nonempty page has a last bar.                                          *)
LEMMA LastBar ==
    ASSUME NEW P \in SUBSET Times, P # {} PROVE \E b \in P : \A c \in P : c <= b
  <1> DEFINE Q == {MaxTime - b : b \in P}
  <1>1. Q \in SUBSET Nat /\ Q # {}
    <2>1. \A b \in P : MaxTime - b \in Nat
      BY Bounds
    <2>. QED
      BY <2>1
  <1> HIDE DEF Q
  <1>2. PICK q \in Q : \A r \in Q : q <= r
    BY <1>1, LeastBar
  <1>3. PICK b \in P : q = MaxTime - b
    BY DEF Q
  <1>4. \A c \in P : MaxTime - c \in Q
    BY DEF Q
  <1>5. \A c \in P : MaxTime - b <= MaxTime - c
    BY <1>2, <1>3, <1>4
  <1>. QED
    BY <1>3, <1>5, Bounds

(* The bars before one bar are finitely many, and more before a later one.  *)
LEMMA BarsBefore ==
    ASSUME NEW A \in SUBSET Times, NEW b \in A, NEW c \in A, c <= b
    PROVE  /\ IsFiniteSet({a \in A : a < b})
           /\ Cardinality({a \in A : a < c}) <= Cardinality({a \in A : a < b})
  <1>1. IsFiniteSet(Times)
    BY FS_Interval, Bounds DEF Times
  <1>2. {a \in A : a < b} \in SUBSET Times
    OBVIOUS
  <1>3. IsFiniteSet({a \in A : a < b})
    BY <1>1, <1>2, FS_Subset
  <1>4. {a \in A : a < c} \in SUBSET {a \in A : a < b}
    <2>1. \A a \in A : a < c => a < b
      BY Bounds
    <2>. QED
      BY <2>1
  <1>. QED
    BY <1>3, <1>4, FS_Subset

(* A page leaves no bar out before one that it has.                         *)
LEMMA PageHasNoHole ==
    ASSUME NEW A \in SUBSET Times, NEW b \in FirstOf(A), NEW c \in A, c <= b
    PROVE  c \in FirstOf(A)
  <1> DEFINE m == Cardinality({a \in A : a < b})
             n == Cardinality({a \in A : a < c})
  <1>1. b \in A /\ m < Limit
    BY DEF FirstOf
  <1>2. IsFiniteSet({a \in A : a < b}) /\ n <= m
    BY <1>1, BarsBefore
  <1>3. IsFiniteSet({a \in A : a < c})
    <2>1. c <= c
      BY Bounds
    <2>. QED
      BY <2>1, BarsBefore
  <1>4. m \in Nat /\ n \in Nat
    BY <1>2, <1>3, FS_CardinalityType
  <1> HIDE DEF m, n
  <1>5. n < Limit
    BY <1>1, <1>2, <1>4, Bounds
  <1>. QED
    BY <1>5 DEF FirstOf, n

(* A page that is not full has them all.                                    *)
LEMMA ShortPageIsAll ==
    ASSUME NEW A \in SUBSET Times, Cardinality(FirstOf(A)) < Limit
    PROVE  FirstOf(A) = A
  <1>1. FirstOf(A) \subseteq A
    BY DEF FirstOf
  <1>2. SUFFICES ASSUME A \ FirstOf(A) # {} PROVE FALSE
    BY <1>1
  <1>3. A \ FirstOf(A) \in SUBSET Nat
    BY Bounds
  <1>4. PICK b \in A \ FirstOf(A) : \A c \in A \ FirstOf(A) : b <= c
    BY <1>2, <1>3, LeastBar
  <1>5. {c \in A : c < b} \in SUBSET FirstOf(A)
    <2>1. \A c \in A : c < b => ~(b <= c)
      BY <1>4, Bounds
    <2>2. \A c \in {c \in A : c < b} : c \in FirstOf(A)
      BY <1>4, <2>1
    <2>. QED
      BY <2>2, Zenon
  <1>6. IsFiniteSet(FirstOf(A))
    <2>1. IsFiniteSet(Times)
      BY FS_Interval, HistoryAssumption DEF Times
    <2>2. FirstOf(A) \in SUBSET Times
      BY <1>1
    <2>. QED
      BY <2>1, <2>2, FS_Subset
  <1>7. /\ Cardinality({c \in A : c < b}) <= Cardinality(FirstOf(A))
        /\ IsFiniteSet({c \in A : c < b})
    BY <1>5, <1>6, FS_Subset
  <1>8. Cardinality({c \in A : c < b}) \in Nat /\ Cardinality(FirstOf(A)) \in Nat
    BY <1>6, <1>7, FS_CardinalityType
  <1>9. Cardinality({c \in A : c < b}) < Limit
    BY <1>7, <1>8, Bounds
  <1>. QED
    BY <1>4, <1>9 DEF FirstOf

(* An empty page says that there are none.                                  *)
LEMMA EmptyPageIsAll ==
    ASSUME NEW A \in SUBSET Times, FirstOf(A) = {} PROVE A = {}
  <1>1. Cardinality(FirstOf(A)) < Limit
    BY FS_EmptySet, Bounds
  <1>. QED
    BY <1>1, ShortPageIsAll

-----------------------------------------------------------------------------
(* The inductive invariant: between pages a call has exactly the closed     *)
(* bars of its range before its cursor.                                     *)

\* Closed, of a call that may be the next one.
ClosedIn(f, h) == {b \in Listed[f] : h.from <= b /\ b < h.to /\ b + Dur[f] <= h.fetched}

CallIsWhole(f, h) ==
    /\ h.pc \in {"time", "page"} => h.pages < MaxPages
    /\ h.pc = "time" => h.cursor = h.from /\ \A b \in Times : h.rows[b] = 0
    /\ h.pc = "page" =>
         \A b \in Times : h.rows[b] = IF b \in ClosedIn(f, h) /\ b < h.cursor THEN 1 ELSE 0
    /\ h.pc = "done" =>
         /\ \A b \in Times : h.rows[b] <= IF b \in ClosedIn(f, h) THEN 1 ELSE 0
         /\ \A b \in ClosedIn(f, h) :
              b <= h.horizon \/ (\E c \in Rows(h) : b <= c) => h.rows[b] = 1

IInv ==
    /\ HistoryTypeOK
    /\ \A f \in Fetches : CallIsWhole(f, fetch[f])

(* The invariant is stronger than the property.                             *)
LEMMA InvIsEnough == IInv => HistoryIsWhole
  <1>1. \A f \in Fetches : Closed(f) = ClosedIn(f, fetch[f])
    BY DEF Closed, ClosedIn
  <1>. QED
    BY <1>1 DEF IInv, CallIsWhole, HistoryIsWhole

(* A step of one call keeps the invariant if its next state is whole.       *)
LEMMA BecomesInv ==
    ASSUME IInv, NEW f \in Fetches, NEW next \in Call, CallIsWhole(f, next), Becomes(f, next)
    PROVE  IInv'
  <1>1. fetch \in [Fetches -> Call] /\ fetch' = [fetch EXCEPT ![f] = next] /\ clock' = clock
    BY DEF IInv, HistoryTypeOK, Becomes
  <1>2. /\ fetch' \in [Fetches -> Call] /\ fetch'[f] = next
        /\ \A u \in Fetches : u # f => fetch'[u] = fetch[u]
    BY <1>1
  <1>3. HistoryTypeOK'
    BY <1>1, <1>2 DEF IInv, HistoryTypeOK
  <1>4. \A u \in Fetches : CallIsWhole(u, fetch'[u])
    BY <1>2 DEF IInv
  <1>. QED
    BY <1>3, <1>4 DEF IInv

(* A call that begins.                                                      *)
LEMMA CalledType ==
    ASSUME NEW from \in Times, NEW to \in Times PROVE Called(from, to) \in Call
  <1>1. 0 \in Times /\ from \in Nat /\ 0 \in 0..MaxPages /\ 0 \in 0..MaxRetries
    BY Bounds DEF Times
  <1>2. NoRows \in [Times -> Nat]
    BY DEF NoRows
  <1>. QED
    BY <1>1, <1>2 DEF Called, Call, Pcs

(* It has no bar.                                                           *)
LEMMA CalledIsWhole ==
    ASSUME NEW f, NEW from \in Times, NEW to \in Times
    PROVE  CallIsWhole(f, Called(from, to))
  <1>1. \A b \in Times : NoRows[b] = 0
    BY DEF NoRows
  <1>. QED
    BY <1>1, Bounds DEF Called, CallIsWhole

(* The first states: no call has begun.                                     *)
LEMMA InitInv == HistoryInit => IInv
  <1> SUFFICES ASSUME HistoryInit PROVE IInv
    OBVIOUS
  <1>1. 0 \in Times
    BY Bounds DEF Times
  <1>2. Called(0, 0) \in Call
    BY <1>1, CalledType
  <1>3. NoCall \in Call /\ NoCall.pc = "idle"
    BY <1>2 DEF NoCall, Call, Pcs
  <1>. QED
    BY <1>3 DEF HistoryInit, IInv, HistoryTypeOK, CallIsWhole

(* A request that fails changes nothing that was fetched.                   *)
LEMMA RequestFailsInv == ASSUME IInv, NEW f \in Fetches, RequestFails(f) PROVE IInv'
  <1> DEFINE r == [fetch[f] EXCEPT !.tries = @ + 1]
             s == [fetch[f] EXCEPT !.pc = "failed"]
  <1>1. fetch[f] \in Call /\ fetch[f].pc \in {"time", "page"}
    BY DEF IInv, HistoryTypeOK, RequestFails
  <1>2. s \in Call /\ s.pc = "failed"
    BY <1>1 DEF Call, Pcs
  <1>3. CallIsWhole(f, s)
    BY <1>2 DEF CallIsWhole
  <1>4. CASE fetch[f].tries < MaxRetries /\ Becomes(f, r)
    <2>1. fetch[f].tries + 1 \in 0..MaxRetries
      BY <1>1, <1>4, Bounds DEF Call
    <2>2. r \in Call
      BY <1>1, <2>1 DEF Call
    <2>3. /\ r.pc = fetch[f].pc /\ r.pages = fetch[f].pages /\ r.cursor = fetch[f].cursor
          /\ r.from = fetch[f].from /\ r.to = fetch[f].to /\ r.fetched = fetch[f].fetched
          /\ r.rows = fetch[f].rows
      BY <1>1 DEF Call
    <2> HIDE DEF r
    <2>4. ClosedIn(f, r) = ClosedIn(f, fetch[f])
      BY <2>3 DEF ClosedIn
    <2>5. CallIsWhole(f, r)
      BY <1>1, <2>3, <2>4 DEF IInv, CallIsWhole
    <2>. QED
      BY <1>4, <2>2, <2>5, BecomesInv
  <1>. QED
    BY <1>2, <1>3, <1>4, BecomesInv DEF RequestFails

(* No bar of the range had a turn yet when the server time is read.         *)
LEMMA ServerTimeInv == ASSUME IInv, NEW f \in Fetches, ServerTime(f) PROVE IInv'
  <1> DEFINE r == [fetch[f] EXCEPT !.pc = "page", !.fetched = clock, !.tries = 0]
  <1>1. /\ fetch[f] \in Call /\ clock \in Times /\ fetch[f].pc = "time" /\ Becomes(f, r)
    BY DEF IInv, HistoryTypeOK, ServerTime
  <1>2. r \in Call
    <2>1. 0 \in 0..MaxRetries
      BY Bounds
    <2>. QED
      BY <1>1, <2>1 DEF Call, Pcs
  <1>3. /\ r.pc = "page" /\ r.pages = fetch[f].pages /\ r.cursor = fetch[f].cursor
        /\ r.from = fetch[f].from /\ r.rows = fetch[f].rows
    BY <1>1 DEF Call
  <1>4. /\ fetch[f].pages < MaxPages /\ fetch[f].cursor = fetch[f].from
        /\ \A b \in Times : fetch[f].rows[b] = 0
    BY <1>1 DEF IInv, CallIsWhole
  <1>5. fetch[f].from \in Nat
    BY <1>1, Bounds DEF Call
  <1> HIDE DEF r
  <1>6. \A b \in Times : ~(b \in ClosedIn(f, r) /\ b < r.cursor)
    BY <1>3, <1>4, <1>5, Bounds DEF ClosedIn
  <1>7. CallIsWhole(f, r)
    BY <1>3, <1>4, <1>6 DEF CallIsWhole
  <1>. QED
    BY <1>1, <1>2, <1>7, BecomesInv

-----------------------------------------------------------------------------
(* A page.                                                                  *)

\* What is known of a page that was accepted.
PageOf(f, P, horizon, start) ==
    /\ horizon \in Times /\ start \in 0..fetch[f].cursor /\ fetch[f].pc = "page"
    /\ P = FirstOf(Available(f, start, horizon))
    /\ InOrder(f, P)

(* Its bars are of the range, after every bar before, and listed.           *)
LEMMA PageBars ==
    ASSUME IInv, NEW f \in Fetches, NEW P, NEW horizon, NEW start, PageOf(f, P, horizon, start)
    PROVE  /\ Available(f, start, horizon) \in SUBSET Times /\ P \in SUBSET Times
           /\ P \subseteq Available(f, start, horizon)
           /\ \A b \in P : /\ b \in Listed[f] /\ b <= horizon /\ fetch[f].cursor <= b
                           /\ fetch[f].from <= b /\ b < fetch[f].to
  <1>1. Listed[f] \subseteq Nat
    BY HistoryAssumption
  <1>2. horizon \in Nat /\ horizon <= MaxTime
    BY Bounds DEF PageOf
  <1>3. Available(f, start, horizon) \in SUBSET Times
    BY <1>1, <1>2, Bounds DEF Available, Times
  <1>4. P \subseteq Available(f, start, horizon)
    BY DEF PageOf, FirstOf
  <1>. QED
    BY <1>3, <1>4 DEF PageOf, InOrder, Available

(* A closed bar that was available is on the page, if the page goes as far  *)
(* or is not full.                                                          *)
LEMMA PageHas ==
    ASSUME IInv, NEW f \in Fetches, NEW P, NEW horizon, NEW start, PageOf(f, P, horizon, start),
           NEW b \in Listed[f], fetch[f].cursor <= b, b < fetch[f].to, b <= horizon,
           Cardinality(P) < Limit \/ \E c \in P : b <= c
    PROVE  b \in P
  <1> DEFINE A == Available(f, start, horizon)
  <1>1. A \in SUBSET Times /\ P = FirstOf(A)
    BY PageBars DEF PageOf
  <1>2. b \in A
    <2>1. start \in Nat /\ start <= fetch[f].cursor /\ fetch[f].cursor \in Nat /\ b \in Nat
      BY HistoryAssumption DEF PageOf, IInv, HistoryTypeOK, Call
    <2>2. start <= b
      BY <2>1
    <2>. QED
      BY <2>2 DEF Available
  <1> HIDE DEF A
  <1>3. CASE Cardinality(P) < Limit
    BY <1>1, <1>2, <1>3, ShortPageIsAll
  <1>4. CASE \E c \in P : b <= c
    BY <1>1, <1>2, <1>4, PageHasNoHole
  <1>. QED
    BY <1>3, <1>4

(* An empty page ends the call: the listing went no further.                *)
LEMMA EmptyPageInv ==
    ASSUME IInv, NEW f \in Fetches, NEW horizon, NEW start, PageOf(f, {}, horizon, start),
           Becomes(f, [fetch[f] EXCEPT !.pc = "done", !.horizon = horizon])
    PROVE  IInv'
  <1> DEFINE h == fetch[f]
             r == [fetch[f] EXCEPT !.pc = "done", !.horizon = horizon]
  <1>1. h \in Call /\ horizon \in Times /\ h.pc = "page"
    BY DEF IInv, HistoryTypeOK, PageOf
  <1>2. /\ r \in Call /\ r.pc = "done" /\ r.horizon = horizon /\ r.from = h.from /\ r.to = h.to
        /\ r.fetched = h.fetched /\ r.rows = h.rows
    BY <1>1 DEF Call, Pcs
  <1>3. \A b \in Times : h.rows[b] = IF b \in ClosedIn(f, h) /\ b < h.cursor THEN 1 ELSE 0
    BY <1>1 DEF IInv, CallIsWhole
  <1>4. ClosedIn(f, r) = ClosedIn(f, h)
    BY <1>2 DEF ClosedIn
  <1>5. h.cursor \in Nat /\ h.from \in Times /\ h.to \in Times
    BY <1>1 DEF Call
  <1>6. \A b \in ClosedIn(f, h) : b \in Listed[f] /\ b < h.to /\ b \in Times
    <2>1. \A b \in ClosedIn(f, h) : b \in Listed[f] /\ b < h.to /\ b \in Nat
      BY HistoryAssumption DEF ClosedIn
    <2>2. \A b \in Nat : b < h.to => b \in Times
      BY <1>5, Bounds DEF Times
    <2>. QED
      BY <2>1, <2>2
  <1>7. \A b \in ClosedIn(f, h) : b <= horizon => b < h.cursor
    <2>1. SUFFICES ASSUME NEW b \in ClosedIn(f, h), b <= horizon, h.cursor <= b PROVE FALSE
      BY <1>5, <1>6, Bounds
    <2>2. Cardinality({}) < Limit
      BY FS_EmptySet, Bounds
    <2>. QED
      BY <1>6, <2>1, <2>2, PageHas
  <1>8. \A c \in Rows(h) : c \in Times /\ c < h.cursor
    BY <1>3 DEF Rows
  <1>9. \A b \in ClosedIn(f, h), c \in Rows(h) : b <= c => b < h.cursor
    BY <1>5, <1>6, <1>8, Bounds
  <1>10. Rows(r) = Rows(h)
    BY <1>2 DEF Rows
  <1> HIDE DEF r, h
  <1>11. CallIsWhole(f, r)
    BY <1>2, <1>3, <1>4, <1>6, <1>7, <1>9, <1>10 DEF CallIsWhole
  <1>. QED
    BY <1>2, <1>11, BecomesInv DEF r

(* A page with bars: the call goes on from after the last of them.          *)
LEMMA NextPageInv ==
    ASSUME IInv, NEW f \in Fetches, NEW P, NEW horizon, NEW start, PageOf(f, P, horizon, start),
           P # {}, Becomes(f, Accept(f, P, horizon))
    PROVE  IInv'
  <1> DEFINE h == fetch[f]
             last == CHOOSE b \in P : \A c \in P : c <= b
             next == last + Dur[f]
             pc == IF EndsAfter(f, P, next) THEN "done"
                   ELSE IF h.pages + 1 = MaxPages THEN "failed" ELSE "page"
             r == [fetch[f] EXCEPT !.pc = pc, !.cursor = next, !.rows = Appended(f, P),
                                   !.pages = @ + 1, !.tries = 0, !.horizon = horizon]
  <1>1. h \in Call /\ horizon \in Times /\ h.pc = "page" /\ Becomes(f, r)
    BY DEF IInv, HistoryTypeOK, PageOf, Accept
  <1>2. P \in SUBSET Times /\ Dur[f] \in Nat /\ 1 <= Dur[f] /\ Listed[f] \subseteq Nat
    BY PageBars, HistoryAssumption
  <1>3. last \in P /\ (\A c \in P : c <= last)
    BY <1>2, LastBar
  <1>4. \A b \in P : /\ b \in Listed[f] /\ b <= horizon /\ h.cursor <= b
                     /\ h.from <= b /\ b < h.to
    BY PageBars
  <1>5. next \in Nat /\ last \in Nat /\ last < next
    <2> HIDE DEF last
    <2>. QED
      BY <1>2, <1>3, Bounds
  <1>6. /\ h.cursor \in Nat /\ h.from \in Times /\ h.to \in Times /\ h.rows \in [Times -> Nat]
        /\ h.fetched \in Times /\ h.pages \in Nat
    BY <1>1 DEF Call
  <1>7. h.pages < MaxPages
    BY <1>1 DEF IInv, CallIsWhole
  <1>8. Appended(f, P) \in [Times -> Nat]
    BY <1>6 DEF Appended
  <1>9. h.pages + 1 \in 0..MaxPages /\ 0 \in 0..MaxRetries
    BY <1>6, <1>7, Bounds
  <1>10. pc \in Pcs /\ (pc = "page" => h.pages + 1 < MaxPages) /\ pc # "time"
    <2>1. h.pages + 1 # MaxPages => h.pages + 1 < MaxPages
      BY <1>6, <1>7, Bounds
    <2>. QED
      BY <2>1 DEF Pcs
  <1> HIDE DEF last, next, pc
  <1>11. /\ r \in Call /\ r.pc = pc /\ r.horizon = horizon /\ r.from = h.from /\ r.to = h.to
         /\ r.fetched = h.fetched /\ r.rows = Appended(f, P) /\ r.cursor = next
         /\ r.pages = h.pages + 1
    BY <1>1, <1>5, <1>8, <1>9, <1>10 DEF Call
  <1>12. ClosedIn(f, r) = ClosedIn(f, h)
    BY <1>11 DEF ClosedIn
  <1> HIDE DEF r
  <1>13. \A b \in Times : h.rows[b] = IF b \in ClosedIn(f, h) /\ b < h.cursor THEN 1 ELSE 0
    BY <1>1 DEF IInv, CallIsWhole
  <1>14. \A b \in Times : b \in P /\ HasClosed(f, b) => b \in ClosedIn(f, h)
    BY <1>4 DEF ClosedIn, HasClosed
  <1>15. \A b \in ClosedIn(f, h) : /\ b \in Listed[f] /\ b < h.to /\ HasClosed(f, b)
                                  /\ b \in Times /\ b \in Nat
    <2>1. \A b \in ClosedIn(f, h) : b \in Listed[f] /\ b < h.to /\ b \in Nat /\ HasClosed(f, b)
      BY <1>2 DEF ClosedIn, HasClosed
    <2>2. \A b \in Nat : b < h.to => b \in Times
      BY <1>6, Bounds DEF Times
    <2>. QED
      BY <2>1, <2>2
  <1>16. \A b \in Listed[f] : b < next => b <= last
    <2>1. \A b, c \in Listed[f] : b < c => b + Dur[f] <= c
      BY HistoryAssumption
    <2>2. \A b \in Listed[f] : last < b => next <= b
      BY <1>3, <1>4, <2>1 DEF next
    <2>. QED
      BY <1>2, <1>5, <2>2
  <1>17. \A b \in ClosedIn(f, h) : h.cursor <= b /\ b <= last => b \in P
    <2>1. SUFFICES ASSUME NEW b \in ClosedIn(f, h), h.cursor <= b, b <= last PROVE b \in P
      OBVIOUS
    <2>2. b <= horizon
      BY <1>1, <1>3, <1>4, <1>5, <1>15, <2>1, Bounds
    <2>. QED
      BY <1>3, <1>15, <2>1, <2>2, PageHas
  <1>18. \A b \in Times : r.rows[b] = IF b \in ClosedIn(f, h) /\ b < next THEN 1 ELSE 0
    <2>1. SUFFICES ASSUME NEW b \in Times
                   PROVE  r.rows[b] = IF b \in ClosedIn(f, h) /\ b < next THEN 1 ELSE 0
      OBVIOUS
    <2>2. /\ r.rows[b] = IF b \in P /\ HasClosed(f, b) THEN h.rows[b] + 1 ELSE h.rows[b]
          /\ b \in Nat
      BY <1>11, Bounds DEF Appended
    <2>3. CASE b \in P /\ HasClosed(f, b)
      <3>1. h.cursor <= b /\ b <= last
        BY <1>3, <1>4, <2>3
      <3>2. b \in ClosedIn(f, h) /\ b < next /\ ~(b < h.cursor)
        BY <1>5, <1>6, <1>14, <2>2, <2>3, <3>1
      <3>. QED
        BY <1>13, <2>2, <2>3, <3>2
    <2>4. CASE ~(b \in P /\ HasClosed(f, b))
      <3>1. b \in ClosedIn(f, h) /\ b < next => b < h.cursor
        BY <1>5, <1>6, <1>15, <1>16, <1>17, <2>2, <2>4
      <3>2. b < h.cursor => b < next
        BY <1>3, <1>4, <1>5, <1>6, <2>2
      <3>. QED
        BY <1>13, <2>2, <2>4, <3>1, <3>2
    <2>. QED
      BY <2>3, <2>4
  <1>19. pc = "done" => \A b \in ClosedIn(f, h) :
           b <= horizon \/ (\E c \in Rows(r) : b <= c) => b < next
    <2>1. SUFFICES ASSUME pc = "done", NEW b \in ClosedIn(f, h), next <= b,
                          b <= horizon \/ \E c \in Rows(r) : b <= c
                   PROVE  FALSE
      BY <1>5, <1>15
    <2>2. \A c \in Rows(r) : c \in Times /\ c < next
      BY <1>18 DEF Rows
    <2>3. b <= horizon
      BY <1>5, <1>15, <2>1, <2>2, Bounds
    <2>4. ~(next >= h.to)
      BY <1>5, <1>6, <1>15, <2>1, Bounds
    <2>5. Cardinality(P) < Limit
      BY <2>1, <2>4 DEF pc, EndsAfter
    <2>6. h.cursor <= b
      BY <1>3, <1>4, <1>5, <1>6, <1>15, <2>1
    <2>7. b \in P
      BY <1>15, <2>3, <2>5, <2>6, PageHas
    <2>. QED
      BY <1>3, <1>5, <1>15, <2>1, <2>7
  <1> HIDE DEF h
  <1>20. CallIsWhole(f, r)
    BY <1>10, <1>11, <1>12, <1>15, <1>18, <1>19 DEF CallIsWhole
  <1>. QED
    BY <1>1, <1>11, <1>20, BecomesInv

(* A page that is not in order ends the call as a failure.                  *)
LEMMA PageInv == ASSUME IInv, NEW f \in Fetches, Page(f) PROVE IInv'
  <1>1. PICK horizon \in Times, start \in 0..fetch[f].cursor :
          LET P == FirstOf(Available(f, start, horizon))
          IN  Becomes(f, IF InOrder(f, P) THEN Accept(f, P, horizon)
                         ELSE [fetch[f] EXCEPT !.pc = "failed"])
    BY DEF Page
  <1> DEFINE P == FirstOf(Available(f, start, horizon))
             s == [fetch[f] EXCEPT !.pc = "failed"]
  <1>2. fetch[f].pc = "page" /\ fetch[f] \in Call
    BY DEF Page, IInv, HistoryTypeOK
  <1>3. CASE ~InOrder(f, P)
    <2>1. Becomes(f, s)
      BY <1>1, <1>3
    <2>2. s \in Call /\ s.pc = "failed"
      BY <1>2 DEF Call, Pcs
    <2>3. CallIsWhole(f, s)
      BY <2>2 DEF CallIsWhole
    <2>. QED
      BY <2>1, <2>2, <2>3, BecomesInv
  <1>4. CASE InOrder(f, P)
    <2>1. Becomes(f, Accept(f, P, horizon)) /\ PageOf(f, P, horizon, start)
      BY <1>1, <1>2, <1>4 DEF PageOf
    <2> HIDE DEF P
    <2>2. CASE P = {}
      BY <2>1, <2>2, EmptyPageInv DEF Accept
    <2>3. CASE P # {}
      BY <2>1, <2>3, NextPageInv
    <2>. QED
      BY <2>2, <2>3
  <1>. QED
    BY <1>3, <1>4

-----------------------------------------------------------------------------
(* Every step keeps the invariant.                                          *)
LEMMA NextInv == ASSUME IInv, [HistoryNext]_historyVars PROVE IInv'
  <1>1. CASE UNCHANGED historyVars
    BY <1>1 DEF IInv, HistoryTypeOK, historyVars
  <1>2. CASE Tick
    <2>1. clock + 1 \in Times /\ clock' = clock + 1 /\ fetch' = fetch
      BY <1>2, Bounds DEF IInv, HistoryTypeOK, Tick, Times
    <2>. QED
      BY <2>1 DEF IInv, HistoryTypeOK
  <1>3. ASSUME NEW f \in Fetches, Answer(f) PROVE IInv'
    BY <1>3, ServerTimeInv, PageInv, RequestFailsInv DEF Answer
  <1>4. ASSUME NEW f \in Fetches, NEW from \in Times, NEW to \in Times, Start(f, from, to)
        PROVE  IInv'
    BY <1>4, CalledType, CalledIsWhole, BecomesInv DEF Start
  <1>. QED
    BY <1>1, <1>2, <1>3, <1>4 DEF HistoryNext

(* The invariant holds in every state that fetches together reach.          *)
THEOREM InvariantHolds == HistorySpec => []IInv
  <1>. QED
    BY InitInv, NextInv, PTL DEF HistorySpec

(* Whatever is fetched together, in pages of any size, with retries and     *)
(* listings that lag: a history that fetch_historical_klines returns has    *)
(* every closed bar of its range once, and none that was open.              *)
THEOREM HistoriesAreWhole == HistorySpec => []HistoryIsWhole
  <1>. QED
    BY InvIsEnough, InvariantHolds, PTL

-----------------------------------------------------------------------------
(* Whole numbers: multiples of d.                                           *)
LEMMA Division ==
    ASSUME NEW a \in Nat, NEW d \in Nat \ {0}
    PROVE  /\ a \div d \in Nat /\ a % d \in Nat /\ a % d < d
           /\ a = (a \div d) * d + (a % d)
  <1>1. a \div d \in Nat
    OBVIOUS
  <1>2. a % d \in Nat
    OBVIOUS
  <1>3. a % d < d
    OBVIOUS
  <1>4. a = (a \div d) * d + (a % d)
    OBVIOUS
  <1>. QED
    BY <1>1, <1>2, <1>3, <1>4

(* A factor may be cancelled.                                               *)
LEMMA Cancel ==
    ASSUME NEW x \in Int, NEW y \in Int, NEW d \in Nat \ {0}
    PROVE  /\ x <= y => x * d <= y * d
           /\ x < y => x * d + d <= y * d
  <1>1. ASSUME x <= y PROVE x * d <= y * d
    BY <1>1
  <1>2. ASSUME x < y PROVE x * d + d <= y * d
    <2>1. (x + 1) * d <= y * d
      BY <1>2
    <2>. QED
      BY <2>1
  <1>. QED
    BY <1>1, <1>2

(* A multiple has no remainder.                                             *)
LEMMA Multiple ==
    ASSUME NEW x \in Nat, NEW d \in Nat \ {0} PROVE (x * d) % d = 0 /\ x * d \in Nat
  <1> DEFINE q == (x * d) \div d
             r == (x * d) % d
  <1>0. x * d \in Nat
    OBVIOUS
  <1>1. q \in Nat /\ r \in Nat /\ r < d /\ x * d = q * d + r
    BY <1>0, Division
  <1> HIDE DEF q, r
  <1>2. ~(q < x)
    <2>1. q < x => q * d + d <= x * d
      BY <1>1, Cancel
    <2>. QED
      BY <1>0, <1>1, <2>1
  <1>3. ~(x < q)
    <2>1. x < q => x * d + d <= q * d
      BY <1>1, Cancel
    <2>. QED
      BY <1>0, <1>1, <2>1
  <1>4. q = x
    BY <1>1, <1>2, <1>3
  <1>5. r = 0
    BY <1>0, <1>1, <1>4
  <1>. QED
    BY <1>0, <1>5 DEF r

(* Two multiples less than d apart are one.                                 *)
LEMMA NextMultiple ==
    ASSUME NEW a \in Nat, NEW b \in Nat, NEW d \in Nat \ {0}, a % d = 0, b % d = 0, a < b
    PROVE  a + d <= b /\ a \div d < b \div d /\ (b - a) % d = 0
  <1> DEFINE p == a \div d
             q == b \div d
  <1>1. p \in Nat /\ q \in Nat /\ a = p * d /\ b = q * d
    BY Division
  <1> HIDE DEF p, q
  <1>2. p < q
    <2>1. q <= p => q * d <= p * d
      BY <1>1, Cancel
    <2>. QED
      BY <1>1, <2>1
  <1>3. a + d <= b
    BY <1>1, <1>2, Cancel
  <1>4. q - p \in Nat /\ b - a = (q - p) * d
    BY <1>1, <1>2
  <1>5. ((q - p) * d) % d = 0
    BY <1>4, Multiple
  <1>. QED
    BY <1>2, <1>3, <1>4, <1>5 DEF p, q

(* Bars of a grid from a first to a last one are no more than fit.          *)
LEMMA BarsOfGrid ==
    ASSUME NEW d \in Nat \ {0}, NEW B \in SUBSET Nat, NEW a \in B, NEW m \in B,
           \A c \in B : c % d = 0 /\ a <= c /\ c <= m
    PROVE  a + Cardinality(B) * d <= m + d
  <1> DEFINE p == a \div d
             q == m \div d
             F == [c \in B |-> c \div d]
  <1>1. p \in Nat /\ q \in Nat /\ a = p * d /\ m = q * d
    BY Division
  <1>2. \A c \in B : c \div d \in Nat /\ c = (c \div d) * d
    BY Division
  <1>3. \A c \in B : p <= c \div d /\ c \div d <= q
    <2>1. \A c \in B : ~(c < a) /\ ~(m < c)
      OBVIOUS
    <2>2. \A c \in B : c # a => p < c \div d
      BY NextMultiple
    <2>3. \A c \in B : c # m => c \div d < q
      BY NextMultiple
    <2> HIDE DEF p, q
    <2>4. p = a \div d /\ q = m \div d
      BY DEF p, q
    <2>. QED
      BY <1>1, <1>2, <2>2, <2>3, <2>4
  <1>4. F \in Injection(B, p..q)
    <2>1. F \in [B -> p..q]
      BY <1>1, <1>2, <1>3
    <2>2. \A c, e \in B : F[c] = F[e] => c = e
      BY <1>2
    <2>. QED
      BY <2>1, <2>2 DEF Injection, IsInjective
  <1>5. IsFiniteSet(p..q) /\ Cardinality(p..q) = IF p > q THEN 0 ELSE q - p + 1
    BY <1>1, FS_Interval
  <1>6. p <= q
    BY <1>3
  <1>7. IsFiniteSet(B) /\ Cardinality(B) <= Cardinality(p..q)
    BY <1>4, <1>5, FS_Injection
  <1>8. Cardinality(B) \in Nat
    BY <1>7, FS_CardinalityType
  <1> DEFINE n == Cardinality(B)
  <1> HIDE DEF p, q, F, n
  <1>9. n \in Nat /\ n <= q - p + 1
    BY <1>1, <1>5, <1>6, <1>7, <1>8 DEF n
  <1>10. n * d <= (q - p + 1) * d
    BY <1>1, <1>9, Cancel
  <1>11. (q - p + 1) * d = q * d - p * d + d
    BY <1>1
  <1>. QED
    BY <1>1, <1>9, <1>10, <1>11 DEF n

-----------------------------------------------------------------------------
(* The worker's polls.                                                      *)

\* While histories are fetched and used they are those of poll.next, of one
\* range, and read when that range had passed.
PollsAgree ==
    /\ poll.pc \in {"fetching", "deciding"} =>
         /\ poll.next <= poll.last + 1
         /\ fetch["entries"].to = fetch["trend"].to
         /\ \A f \in Fetches :
              /\ fetch[f].from = HistoryFrom(f, poll.next)
              /\ fetch[f].to <= clock
              /\ fetch[f].pc \in {"page", "done"} => fetch[f].to <= fetch[f].fetched
    /\ poll.pc = "deciding" => \A f \in Fetches : fetch[f].pc = "done"

PollType ==
    /\ poll \in [pc : {"idle", "fetching", "deciding", "faulted"},
                 last : {b \in Int : Begin - 1 <= b}, next : {b \in Int : Begin <= b}]
    /\ DOMAIN decisions = Bars

SignalsInv ==
    /\ IInv
    /\ PollType
    /\ PollsAgree
    /\ DecisionsAreFinal

(* What the assumptions say of the two histories.                           *)
LEMMA Market ==
    /\ Fetches = {"entries", "trend"} /\ Dur["entries"] = 1 /\ Dur["trend"] = TrendBars
    /\ Begin \in Nat /\ EntryHistory \in Nat /\ TrendHistory \in Nat /\ TrendBars \in Nat \ {0}
    /\ EntryHistory <= Begin /\ TrendHistory * TrendBars + TrendBars <= Begin + 1
    /\ \A f \in Fetches : Dur[f] \in Nat \ {0}
    /\ \A f \in Fetches : Listed[f] = {b \in 0..(MaxTime - 1) : b % Dur[f] = 0}
  <1>1. TrendBars * (TrendHistory + 1) = TrendHistory * TrendBars + TrendBars
    BY SignalsAssumption, PullbackAssumption
  <1>2. TrendBars \in Nat \ {0}
    BY PullbackAssumption
  <1>3. \A f \in Fetches : Dur[f] \in Nat \ {0}
    BY HistoryAssumption
  <1>. QED
    BY <1>1, <1>2, <1>3, SignalsAssumption

(* A history begins at a time of its grid, not after its first bar to decide. *)
LEMMA HistoryBegins ==
    ASSUME NEW f \in Fetches, NEW next \in Int, Begin <= next
    PROVE  /\ HistoryFrom(f, next) \in Nat /\ HistoryFrom(f, next) <= next
           /\ HistoryFrom(f, next) % Dur[f] = 0
  <1> USE Market
  <1>1. next \in Nat
    OBVIOUS
  <1>2. CASE f = "entries"
    <2>1. next - EntryHistory \in Nat /\ next - EntryHistory <= next
      BY <1>1
    <2>2. (next - EntryHistory) * 1 = next - EntryHistory
      BY <2>1
    <2>3. (next - EntryHistory) % 1 = 0
      BY <2>1, <2>2, Multiple
    <2>. QED
      BY <1>2, <2>1, <2>3 DEF HistoryFrom
  <1>3. CASE f = "trend"
    <2> DEFINE q == next \div TrendBars
               r == next % TrendBars
    <2>1. q \in Nat /\ r \in Nat /\ r < TrendBars /\ next = q * TrendBars + r
      BY <1>1, Division
    <2> HIDE DEF q, r
    <2>2. TrendHistory <= q
      <3>1. SUFFICES ASSUME q < TrendHistory PROVE FALSE
        BY <2>1
      <3>2. q * TrendBars + TrendBars <= TrendHistory * TrendBars
        BY <2>1, <3>1, Cancel
      <3>3. q * TrendBars \in Nat /\ TrendHistory * TrendBars \in Nat
        BY <2>1
      <3>. QED
        BY <2>1, <3>2, <3>3
    <2>3. q - TrendHistory \in Nat
      BY <2>1, <2>2
    <2>4. (q - TrendHistory) * TrendBars = q * TrendBars - TrendHistory * TrendBars
      BY <2>1
    <2>5. /\ (q - TrendHistory) * TrendBars \in Nat
          /\ ((q - TrendHistory) * TrendBars) % TrendBars = 0
      BY <2>3, Multiple
    <2>6. q * TrendBars - TrendHistory * TrendBars <= next
      <3>1. q * TrendBars \in Nat /\ TrendHistory * TrendBars \in Nat
        BY <2>1
      <3>. QED
        BY <2>1, <3>1
    <2>7. HistoryFrom(f, next) = q * TrendBars - TrendHistory * TrendBars
      BY <1>3 DEF HistoryFrom, q
    <2>. QED
      BY <1>3, <2>4, <2>5, <2>6, <2>7
  <1>. QED
    BY <1>2, <1>3

(* The bars a whole history would have closed before b.                     *)
GridBars(f, next, b) ==
    {c \in HistoryFrom(f, next)..b : /\ c + Dur[f] <= b
                                     /\ (c - HistoryFrom(f, next)) % Dur[f] = 0}

(* A history that reaches b's grid holds every bar before b that it could.  *)
LEMMA HistoryReaches ==
    ASSUME SignalsInv, poll.pc = "deciding", NEW f \in Fetches,
           NEW b \in Nat, b < fetch[f].to,
           NEW m \in ClosedBy(f, b), b < m + 2 * Dur[f]
    PROVE  ClosedBy(f, b) = GridBars(f, poll.next, b)
  <1> DEFINE h == fetch[f]
             from == HistoryFrom(f, poll.next)
             d == Dur[f]
  <1>1. /\ d \in Nat \ {0} /\ Listed[f] = {c \in 0..(MaxTime - 1) : c % d = 0}
    BY Market
  <1>2. from \in Nat /\ from % d = 0
    BY HistoryBegins DEF SignalsInv, PollType
  <1>3. h.pc = "done" /\ h.from = from /\ h.to <= h.fetched /\ h \in Call
    BY DEF SignalsInv, PollsAgree, IInv, HistoryTypeOK
  <1>4. h.to \in Nat /\ h.to <= MaxTime /\ h.fetched \in Nat
    BY <1>3, Bounds DEF Call
  <1>5. /\ \A c \in Times : h.rows[c] <= IF c \in ClosedIn(f, h) THEN 1 ELSE 0
        /\ \A c \in ClosedIn(f, h) :
             c <= h.horizon \/ (\E e \in Rows(h) : c <= e) => h.rows[c] = 1
    BY <1>3 DEF SignalsInv, IInv, CallIsWhole
  <1>6. h.rows \in [Times -> Nat]
    BY <1>3 DEF Call
  <1>7. \A c \in Rows(h) : c \in ClosedIn(f, h) /\ c \in Nat /\ c \in Times
    <2>1. \A c \in Times : h.rows[c] # 0 => c \in ClosedIn(f, h)
      BY <1>5, <1>6
    <2>. QED
      BY <2>1, Bounds DEF Rows
  <1>8. \A c \in ClosedIn(f, h) : c \in Listed[f] /\ c % d = 0 /\ from <= c
    BY <1>1, <1>3 DEF ClosedIn
  <1>9. m \in Nat /\ m % d = 0 /\ m \in Rows(h)
    BY <1>7, <1>8 DEF ClosedBy
  <1> HIDE DEF d, from
  <1>10. \A c \in ClosedBy(f, b) : c \in GridBars(f, poll.next, b)
    <2>1. SUFFICES ASSUME NEW c \in ClosedBy(f, b) PROVE c \in GridBars(f, poll.next, b)
      OBVIOUS
    <2>2. c \in Nat /\ c % d = 0 /\ from <= c /\ c + d <= b
      BY <1>7, <1>8, <2>1 DEF ClosedBy, d
    <2>3. (c - from) % d = 0
      <3>1. CASE c = from
        <4>1. (0 * d) % d = 0 /\ 0 * d = 0 /\ c - from = 0
          BY <1>1, <1>2, <3>1, Multiple
        <4>. QED
          BY <4>1
      <3>2. CASE from < c
        BY <1>1, <1>2, <2>2, <3>2, NextMultiple
      <3>. QED
        BY <1>2, <2>2, <3>1, <3>2
    <2>4. c \in from..b
      BY <1>1, <1>2, <2>2
    <2>. QED
      BY <2>2, <2>3, <2>4 DEF GridBars, d, from
  <1>11. \A c \in GridBars(f, poll.next, b) : c \in ClosedBy(f, b)
    <2>1. SUFFICES ASSUME NEW c \in GridBars(f, poll.next, b) PROVE c \in ClosedBy(f, b)
      OBVIOUS
    <2>2. c \in from..b /\ c + d <= b /\ (c - from) % d = 0
      BY <2>1 DEF GridBars, d, from
    <2>3. c \in Nat /\ from <= c /\ c + d <= b
      BY <1>2, <2>2
    <2>4. c % d = 0
      <3> DEFINE p == (c - from) \div d
                 q == from \div d
      <3>1. c - from \in Nat
        BY <1>2, <2>3
      <3>2. p \in Nat /\ q \in Nat /\ c - from = p * d /\ from = q * d
        BY <1>1, <1>2, <2>2, <3>1, Division
      <3> HIDE DEF p, q
      <3>3. c = (p + q) * d
        <4>1. (p + q) * d = p * d + q * d
          BY <1>1, <3>2
        <4>2. c = (c - from) + from
          BY <1>2, <2>3
        <4>. QED
          BY <3>2, <4>1, <4>2
      <3>. QED
        BY <1>1, <3>2, <3>3, Multiple
    <2>5. c <= m
      <3>1. SUFFICES ASSUME m < c PROVE FALSE
        BY <1>9, <2>3
      <3>2. m + d <= c
        BY <1>1, <1>9, <2>3, <2>4, <3>1, NextMultiple
      <3>. QED
        BY <1>1, <1>9, <2>3, <3>2 DEF d
    <2>6. c < h.to /\ c <= MaxTime - 1 /\ c + d <= h.fetched
      BY <1>1, <1>3, <1>4, <2>3, Bounds
    <2>7. c \in ClosedIn(f, h)
      BY <1>1, <1>3, <2>3, <2>4, <2>6 DEF ClosedIn, d
    <2>8. h.rows[c] = 1 /\ c \in Times
      BY <1>4, <1>5, <1>9, <2>3, <2>5, <2>6, <2>7, Bounds DEF Times
    <2>. QED
      BY <2>3, <2>8 DEF ClosedBy, Rows, d
  <1>. QED
    BY <1>10, <1>11

(* The end of a history is that of its last candle, at the most.            *)
LEMMA EndOfHistory ==
    ASSUME SignalsInv, poll.pc = "deciding", NEW f \in Fetches, NEW b \in Nat,
           ClosedBy(f, b) # {}
    PROVE  \E m \in ClosedBy(f, b) : History(f, ClosedBy(f, b)).end <= m + Dur[f]
  <1> DEFINE B == ClosedBy(f, b)
             first == CHOOSE a \in B : \A c \in B : a <= c
  <1>1. Dur[f] \in Nat \ {0} /\ Listed[f] = {c \in 0..(MaxTime - 1) : c % Dur[f] = 0}
    BY Market
  <1>2. B \in SUBSET Times /\ B \in SUBSET Nat
    BY Bounds DEF ClosedBy, Rows
  <1>3. \A c \in B : c % Dur[f] = 0
    <2>1. fetch[f].pc = "done" /\ fetch[f].rows \in [Times -> Nat]
      BY DEF SignalsInv, PollsAgree, IInv, HistoryTypeOK, Call
    <2>2. \A c \in Times : fetch[f].rows[c] <= IF c \in ClosedIn(f, fetch[f]) THEN 1 ELSE 0
      BY <2>1 DEF SignalsInv, IInv, CallIsWhole
    <2>3. \A c \in Times : fetch[f].rows[c] # 0 => c \in ClosedIn(f, fetch[f])
      BY <2>1, <2>2
    <2>. QED
      BY <1>1, <2>3 DEF ClosedBy, Rows, ClosedIn
  <1>4. PICK m \in B : \A c \in B : c <= m
    BY <1>2, LastBar
  <1>5. first \in B /\ \A c \in B : first <= c
    BY <1>2, LeastBar
  <1>6. History(f, B).end = first + Cardinality(B) * Dur[f]
    BY DEF History
  <1> HIDE DEF B, first
  <1>7. first + Cardinality(B) * Dur[f] <= m + Dur[f]
    BY <1>1, <1>2, <1>3, <1>4, <1>5, BarsOfGrid
  <1>. QED
    BY <1>6, <1>7 DEF B

(* A setup that is no reason to fault was looked for in warm and fresh      *)
(* histories.                                                               *)
LEMMA UsableIsFresh ==
    ASSUME NEW trend, NEW entries, NEW asOf, ~Unusable(Evaluate(trend, entries, asOf))
    PROVE  Warm(trend, entries) /\ Fresh(trend, entries, asOf)
  <1>1. CASE ~Warm(trend, entries)
    BY <1>1 DEF Evaluate, Unusable, NoSetup
  <1>2. CASE Warm(trend, entries) /\ ~Fresh(trend, entries, asOf)
    BY <1>2 DEF Evaluate, Unusable, NoSetup
  <1>. QED
    BY <1>1, <1>2

(* A warm history has candles.                                              *)
LEMMA WarmIsNotEmpty ==
    ASSUME NEW trend, NEW entries, Warm(trend, entries)
    PROVE  Len(trend.bars) # 0 /\ Len(entries.bars) # 0
  <1>1. SlowPeriod \in Nat /\ PullbackPeriod \in Nat /\ VolumeBars \in Nat
    BY PullbackAssumption
  <1>2. FastPeriod \in 2..(SlowPeriod - 1) /\ PullbackPeriod >= 2
    BY PullbackAssumption
  <1>. QED
    BY <1>1, <1>2 DEF Warm

(* What the worker finds on a bar, and does not fault on, is what hindsight *)
(* finds: both histories are then all that was closed.                      *)
LEMMA FoundInHindsight ==
    ASSUME SignalsInv, poll.pc = "deciding", NEW b \in Due, ~Unusable(Found(b))
    PROVE  Found(b) = InHindsight(poll.next, b)
  <1> DEFINE trend == History("trend", ClosedBy("trend", b))
             entries == History("entries", ClosedBy("entries", b))
  <1>1. Warm(trend, entries) /\ Fresh(trend, entries, b)
    BY UsableIsFresh DEF Found
  <1>2. "trend" \in Fetches /\ "entries" \in Fetches /\ Dur["entries"] = 1
        /\ Dur["trend"] = TrendBars /\ TrendBars \in Nat \ {0}
    BY Market
  <1>3. b \in Rows(fetch["entries"]) /\ b \in Nat /\ b \in Times
    BY Bounds DEF Due, Rows
  <1>4. b < fetch["entries"].to /\ b < fetch["trend"].to
    <2>1. fetch["entries"].pc = "done" /\ fetch["entries"].rows \in [Times -> Nat]
          /\ fetch["entries"].to = fetch["trend"].to
      BY <1>2 DEF SignalsInv, PollsAgree, IInv, HistoryTypeOK, Call
    <2>2. \A c \in Times : fetch["entries"].rows[c]
            <= IF c \in ClosedIn("entries", fetch["entries"]) THEN 1 ELSE 0
      BY <1>2, <2>1 DEF SignalsInv, IInv, CallIsWhole
    <2>3. b \in ClosedIn("entries", fetch["entries"])
      BY <1>3, <2>1, <2>2 DEF Rows
    <2>. QED
      BY <2>1, <2>3 DEF ClosedIn
  <1>5. ClosedBy("entries", b) # {}
    <2>1. Len(entries.bars) # 0
      BY <1>1, WarmIsNotEmpty
    <2>. SUFFICES ASSUME ClosedBy("entries", b) = {} PROVE FALSE
      OBVIOUS
    <2>2. entries.bars = <<>>
      BY DEF History
    <2>. QED
      BY <2>1, <2>2
  <1>6. ClosedBy("trend", b) # {}
    <2>1. Len(trend.bars) # 0
      BY <1>1, WarmIsNotEmpty
    <2>. SUFFICES ASSUME ClosedBy("trend", b) = {} PROVE FALSE
      OBVIOUS
    <2>2. trend.bars = <<>>
      BY DEF History
    <2>. QED
      BY <2>1, <2>2
  <1>7. entries.end = b /\ trend.end >= b - TrendBars + 1
    BY <1>1 DEF Fresh
  <1>8. PICK m \in ClosedBy("entries", b) : entries.end <= m + 1
    BY <1>2, <1>3, <1>5, EndOfHistory
  <1>9. PICK n \in ClosedBy("trend", b) : trend.end <= n + TrendBars
    BY <1>2, <1>3, <1>6, EndOfHistory
  <1>10. m \in Nat /\ n \in Nat
    BY Bounds DEF ClosedBy, Rows
  <1>11. trend.end \in Int
    <2>1. History("trend", ClosedBy("trend", b)).end
            = (CHOOSE a \in ClosedBy("trend", b) : \A c \in ClosedBy("trend", b) : a <= c)
                + Cardinality(ClosedBy("trend", b)) * TrendBars
      BY <1>2, <1>6 DEF History
    <2>2. ClosedBy("trend", b) \in SUBSET Times /\ ClosedBy("trend", b) \in SUBSET Nat
      BY Bounds DEF ClosedBy, Rows
    <2>3. (CHOOSE a \in ClosedBy("trend", b) : \A c \in ClosedBy("trend", b) : a <= c) \in Nat
      BY <1>6, <2>2, LeastBar
    <2>4. IsFiniteSet(Times)
      BY FS_Interval, HistoryAssumption DEF Times
    <2>5. Cardinality(ClosedBy("trend", b)) \in Nat
      BY <2>2, <2>4, FS_Subset, FS_CardinalityType
    <2>. QED
      BY <1>2, <2>1, <2>3, <2>5
  <1> HIDE DEF trend, entries
  <1>12. b < m + 2 * 1 /\ b < n + 2 * TrendBars
    BY <1>2, <1>3, <1>7, <1>8, <1>9, <1>10, <1>11
  <1>13. ClosedBy("entries", b) = GridBars("entries", poll.next, b)
    BY <1>2, <1>3, <1>4, <1>12, HistoryReaches
  <1>14. ClosedBy("trend", b) = GridBars("trend", poll.next, b)
    BY <1>2, <1>3, <1>4, <1>12, HistoryReaches
  <1>15. /\ WholeHistory("trend", poll.next, b) = History("trend", GridBars("trend", poll.next, b))
         /\ WholeHistory("entries", poll.next, b)
              = History("entries", GridBars("entries", poll.next, b))
    BY DEF WholeHistory, GridBars
  <1>. QED
    BY <1>13, <1>14, <1>15 DEF Found, InHindsight

(* Hindsight is a matter of the chart alone.                                *)
LEMMA HindsightStays ==
    ASSUME UNCHANGED chart, NEW next, NEW b PROVE InHindsight(next, b)' = InHindsight(next, b)
  <1>1. \A f, bars : History(f, bars)' = History(f, bars)
    BY DEF History, Candle, TrendCandle
  <1>2. \A f : WholeHistory(f, next, b)' = WholeHistory(f, next, b)
    BY <1>1 DEF WholeHistory, HistoryFrom
  <1>. QED
    BY <1>2 DEF InHindsight

(* Decisions already made stay what hindsight makes of them.                *)
LEMMA DecisionsStay ==
    ASSUME SignalsInv, UNCHANGED <<chart, decisions>>
    PROVE  DecisionsAreFinal' /\ DOMAIN decisions' = Bars
  <1>1. \A next, b : InHindsight(next, b)' = InHindsight(next, b)
    BY HindsightStays
  <1>. QED
    BY <1>1 DEF SignalsInv, PollType, DecisionsAreFinal, Decided

(* At first nothing is polled or decided.                                   *)
LEMMA SignalsInitInv == SignalsInit => SignalsInv
  <1> SUFFICES ASSUME SignalsInit PROVE SignalsInv
    OBVIOUS
  <1>1. IInv
    <2>1. Begin \in Times \/ ~(Begin \in Times)
      OBVIOUS
    <2>. QED
      BY InitInv, SignalsAssumption DEF SignalsInit, HistoryInit, Times
  <1>2. PollType
    BY Market DEF SignalsInit, PollType
  <1>3. PollsAgree
    BY DEF SignalsInit, PollsAgree
  <1>4. DecisionsAreFinal
    BY DEF SignalsInit, DecisionsAreFinal, Decided
  <1>. QED
    BY <1>1, <1>2, <1>3, <1>4 DEF SignalsInv

\* The next state of a call keeps its range, and reads the clock after it.
Continues(f, next) ==
    /\ next.from = fetch[f].from /\ next.to = fetch[f].to
    /\ fetch[f].pc \in {"time", "page"}
    /\ (/\ fetch[f].pc = "page" => fetch[f].to <= fetch[f].fetched
        /\ fetch[f].to <= clock
        /\ next.pc \in {"page", "done"})
         => next.to <= next.fetched

(* An answer does so.                                                       *)
LEMMA AnswerContinues ==
    ASSUME IInv, NEW f \in Fetches, Answer(f)
    PROVE  \E next : Becomes(f, next) /\ Continues(f, next)
  <1>1. fetch[f] \in Call
    BY DEF IInv, HistoryTypeOK
  <1>2. CASE ServerTime(f)
    <2> DEFINE r == [fetch[f] EXCEPT !.pc = "page", !.fetched = clock, !.tries = 0]
    <2>1. Becomes(f, r) /\ fetch[f].pc = "time"
      BY <1>2 DEF ServerTime
    <2>2. r.from = fetch[f].from /\ r.to = fetch[f].to /\ r.fetched = clock
      BY <1>1 DEF Call
    <2> HIDE DEF r
    <2>3. Continues(f, r)
      BY <2>1, <2>2 DEF Continues
    <2>. QED
      BY <2>1, <2>3
  <1>3. CASE RequestFails(f)
    <2> DEFINE r == [fetch[f] EXCEPT !.tries = @ + 1]
               s == [fetch[f] EXCEPT !.pc = "failed"]
    <2>1. fetch[f].pc \in {"time", "page"} /\ (Becomes(f, r) \/ Becomes(f, s))
      BY <1>3 DEF RequestFails
    <2>2. /\ r.from = fetch[f].from /\ r.to = fetch[f].to /\ r.fetched = fetch[f].fetched
          /\ r.pc = fetch[f].pc
          /\ s.from = fetch[f].from /\ s.to = fetch[f].to /\ s.pc = "failed"
      BY <1>1 DEF Call
    <2> HIDE DEF r, s
    <2>3. Continues(f, r) /\ Continues(f, s)
      BY <2>1, <2>2 DEF Continues
    <2>. QED
      BY <2>1, <2>3
  <1>4. CASE Page(f)
    <2>1. PICK horizon \in Times, start \in 0..fetch[f].cursor :
            LET P == FirstOf(Available(f, start, horizon))
            IN  Becomes(f, IF InOrder(f, P) THEN Accept(f, P, horizon)
                           ELSE [fetch[f] EXCEPT !.pc = "failed"])
      BY <1>4 DEF Page
    <2> DEFINE P == FirstOf(Available(f, start, horizon))
               r == IF InOrder(f, P) THEN Accept(f, P, horizon)
                    ELSE [fetch[f] EXCEPT !.pc = "failed"]
    <2>2. Becomes(f, r)
      BY <2>1
    <2>3. fetch[f].pc = "page"
      BY <1>4 DEF Page
    <2> HIDE DEF P
    <2>4. /\ Accept(f, P, horizon).from = fetch[f].from /\ Accept(f, P, horizon).to = fetch[f].to
          /\ Accept(f, P, horizon).fetched = fetch[f].fetched
      BY <1>1 DEF Accept, Call
    <2>5. r.from = fetch[f].from /\ r.to = fetch[f].to /\ r.fetched = fetch[f].fetched
      BY <1>1, <2>4 DEF Call
    <2> HIDE DEF r
    <2>6. Continues(f, r)
      BY <2>3, <2>5 DEF Continues
    <2>. QED
      BY <2>2, <2>6
  <1>. QED
    BY <1>2, <1>3, <1>4 DEF Answer

(* An answer to a call of a poll, or a tick.                                *)
LEMMA AnswerSignals ==
    ASSUME SignalsInv, Tick \/ \E f \in Fetches : Answer(f), UNCHANGED <<chart, poll, decisions>>
    PROVE  SignalsInv'
  <1>1. HistoryNext
    BY DEF HistoryNext
  <1>2. IInv'
    BY <1>1, NextInv DEF SignalsInv
  <1>3. DecisionsAreFinal' /\ PollType'
    BY DecisionsStay DEF SignalsInv, PollType
  <1>4. clock \in Nat /\ fetch \in [Fetches -> Call]
    BY Bounds DEF SignalsInv, IInv, HistoryTypeOK
  <1>5. \A f \in Fetches : \A next : HistoryFrom(f, next)' = HistoryFrom(f, next)
    BY DEF HistoryFrom
  <1>6. PollsAgree'
    <2>1. CASE Tick
      <3>1. clock' = clock + 1 /\ fetch' = fetch
        BY <2>1 DEF Tick
      <3>2. \A f \in Fetches : fetch[f].to \in Nat
        BY <1>4, Bounds DEF Call
      <3>3. \A f \in Fetches : fetch[f].to <= clock => fetch[f].to <= clock'
        BY <1>4, <3>1, <3>2
      <3>. QED
        BY <1>5, <3>1, <3>3 DEF SignalsInv, PollsAgree
    <2>2. ASSUME NEW f \in Fetches, Answer(f) PROVE PollsAgree'
      <3>1. PICK next : Becomes(f, next) /\ Continues(f, next)
        BY <2>2, AnswerContinues DEF SignalsInv
      <3>2. /\ clock' = clock /\ fetch'[f] = next
            /\ \A u \in Fetches : u # f => fetch'[u] = fetch[u]
        BY <1>4, <3>1 DEF Becomes
      <3>3. SUFFICES ASSUME poll.pc \in {"fetching", "deciding"} PROVE PollsAgree'
        BY DEF PollsAgree
      <3>4. poll.pc # "deciding"
        BY <3>1 DEF SignalsInv, PollsAgree, Continues
      <3>5. /\ poll.next <= poll.last + 1 /\ fetch["entries"].to = fetch["trend"].to
            /\ \A u \in Fetches :
                 /\ fetch[u].from = HistoryFrom(u, poll.next) /\ fetch[u].to <= clock
                 /\ fetch[u].pc \in {"page", "done"} => fetch[u].to <= fetch[u].fetched
        BY <3>3 DEF SignalsInv, PollsAgree
      <3>6. \A u \in Fetches :
              /\ fetch'[u].from = fetch[u].from /\ fetch'[u].to = fetch[u].to
              /\ fetch'[u].pc \in {"page", "done"} => fetch'[u].to <= fetch'[u].fetched
        BY <3>1, <3>2, <3>5 DEF Continues
      <3>. QED
        BY <1>5, <3>2, <3>4, <3>5, <3>6, Market DEF PollsAgree
    <2>. QED
      BY <2>1, <2>2
  <1>. QED
    BY <1>2, <1>3, <1>6 DEF SignalsInv

(* A poll begins: both ranges end now.                                      *)
LEMMA PollInv == ASSUME SignalsInv, Poll PROVE SignalsInv'
  <1> DEFINE next == poll.last + 1
  <1>1. /\ poll.last + 1 < clock /\ poll' = [poll EXCEPT !.pc = "fetching", !.next = next]
        /\ fetch' = [f \in Fetches |-> Called(HistoryFrom(f, next), clock)]
        /\ UNCHANGED <<clock, chart, decisions>>
    BY DEF Poll
  <1>2. poll.last \in Int /\ Begin <= next /\ clock \in Times /\ clock \in Nat /\ clock <= MaxTime
    BY Bounds, Market DEF SignalsInv, PollType, IInv, HistoryTypeOK
  <1> HIDE DEF next
  <1>3. /\ poll'.pc = "fetching" /\ poll'.next = next /\ poll'.last = poll.last
        /\ PollType'
    <2>1. next \in {b \in Int : Begin <= b}
      BY <1>2 DEF next
    <2>2. Bars' = Bars
      BY DEF Bars
    <2>. QED
      BY <1>1, <2>1, <2>2 DEF SignalsInv, PollType
  <1>4. next \in Int /\ next <= clock
    BY <1>1, <1>2 DEF next
  <1>5. \A f \in Fetches : HistoryFrom(f, next) \in Times
    <2>1. \A f \in Fetches : HistoryFrom(f, next) \in Nat /\ HistoryFrom(f, next) <= next
      BY <1>2, <1>4, HistoryBegins
    <2>. QED
      BY <1>2, <1>4, <2>1, Bounds DEF Times
  <1>6. \A f \in Fetches : fetch'[f] = Called(HistoryFrom(f, next), clock)
    BY <1>1
  <1>7. \A f \in Fetches : fetch'[f] \in Call /\ CallIsWhole(f, fetch'[f])
    BY <1>2, <1>5, <1>6, CalledType, CalledIsWhole
  <1>8. IInv'
    BY <1>1, <1>2, <1>7 DEF IInv, HistoryTypeOK
  <1>9. \A f \in Fetches : /\ fetch'[f].pc = "time" /\ fetch'[f].to = clock
                          /\ fetch'[f].from = HistoryFrom(f, next)
    <2>1. \A from, to : LET h == Called(from, to)
                       IN  h.pc = "time" /\ h.to = to /\ h.from = from
      BY DEF Called
    <2>. QED
      BY <1>6, <2>1
  <1>10. poll'.next <= poll'.last + 1
    BY <1>2, <1>3 DEF next
  <1>11. \A f \in Fetches : HistoryFrom(f, poll.next)' = HistoryFrom(f, next)
    BY <1>3 DEF HistoryFrom
  <1>12. PollsAgree'
    BY <1>1, <1>2, <1>3, <1>9, <1>10, <1>11, Market DEF PollsAgree
  <1>13. DecisionsAreFinal'
    BY <1>1, DecisionsStay
  <1>. QED
    BY <1>3, <1>8, <1>12, <1>13 DEF SignalsInv

(* The gather: what it returned is decided on, or the run faults.           *)
LEMMA GatheredInv == ASSUME SignalsInv, Gathered PROVE SignalsInv'
  <1>1. /\ poll.pc = "fetching" /\ \A f \in Fetches : fetch[f].pc = "done"
        /\ UNCHANGED <<clock, fetch, chart, decisions>>
        /\ poll' = [poll EXCEPT !.pc = IF \E f \in Fetches : HasGaps(f) THEN "faulted"
                                       ELSE "deciding"]
    BY DEF Gathered
  <1>2. /\ poll'.pc \in {"faulted", "deciding"} /\ poll'.next = poll.next
        /\ poll'.last = poll.last /\ PollType'
    BY <1>1 DEF SignalsInv, PollType
  <1>3. IInv' /\ DecisionsAreFinal'
    BY <1>1, DecisionsStay DEF SignalsInv, IInv, HistoryTypeOK
  <1>4. \A f \in Fetches : HistoryFrom(f, poll.next)' = HistoryFrom(f, poll.next)
    BY <1>2 DEF HistoryFrom
  <1>5. PollsAgree'
    BY <1>1, <1>2, <1>4 DEF SignalsInv, PollsAgree
  <1>. QED
    BY <1>2, <1>3, <1>5 DEF SignalsInv

(* A call that fails ends the others.                                       *)
LEMMA GatherFailsInv == ASSUME SignalsInv, GatherFails PROVE SignalsInv'
  <1>1. /\ poll' = [poll EXCEPT !.pc = "faulted"]
        /\ fetch' = [f \in Fetches |->
              IF fetch[f].pc = "done" THEN fetch[f] ELSE [fetch[f] EXCEPT !.pc = "failed"]]
        /\ UNCHANGED <<clock, chart, decisions>>
    BY DEF GatherFails
  <1>2. poll'.pc = "faulted" /\ PollType' /\ PollsAgree'
    BY <1>1 DEF SignalsInv, PollType, PollsAgree
  <1>3. ASSUME NEW f \in Fetches PROVE fetch'[f] \in Call /\ CallIsWhole(f, fetch'[f])
    <2> DEFINE s == [fetch[f] EXCEPT !.pc = "failed"]
    <2>1. fetch[f] \in Call /\ CallIsWhole(f, fetch[f])
      BY DEF SignalsInv, IInv, HistoryTypeOK
    <2>2. s \in Call /\ s.pc = "failed"
      BY <2>1 DEF Call, Pcs
    <2>3. CallIsWhole(f, s)
      BY <2>2 DEF CallIsWhole
    <2>4. fetch'[f] = IF fetch[f].pc = "done" THEN fetch[f] ELSE s
      BY <1>1
    <2> HIDE DEF s
    <2>. QED
      BY <2>1, <2>2, <2>3, <2>4
  <1>4. IInv'
    BY <1>1, <1>3 DEF SignalsInv, IInv, HistoryTypeOK
  <1>5. DecisionsAreFinal'
    BY <1>1, DecisionsStay
  <1>. QED
    BY <1>2, <1>4, <1>5 DEF SignalsInv

(* A bar's transaction: the run faults, or finds what hindsight would.      *)
LEMMA DecideInv == ASSUME SignalsInv, Decide PROVE SignalsInv'
  <1> DEFINE b == CHOOSE c \in Due : \A d \in Due : c <= d
  <1>1. /\ poll.pc = "deciding" /\ Due # {} /\ UNCHANGED <<clock, fetch, chart>>
        /\ IF b # poll.last + 1 \/ Unusable(Found(b))
           THEN poll' = [poll EXCEPT !.pc = "faulted"] /\ UNCHANGED decisions
           ELSE /\ poll' = [poll EXCEPT !.last = b]
                /\ decisions' = [decisions EXCEPT ![b] = [next |-> poll.next, setup |-> Found(b)]]
    BY DEF Decide
  <1>2. IInv'
    BY <1>1 DEF SignalsInv, IInv, HistoryTypeOK
  <1>3. Due \in SUBSET Nat
    BY Bounds DEF Due, Rows
  <1>4. b \in Due
    BY <1>1, <1>3, LeastBar
  <1>5. b \in Nat
    BY <1>3, <1>4
  <1> HIDE DEF b
  <1>6. CASE poll' = [poll EXCEPT !.pc = "faulted"] /\ UNCHANGED decisions
    <2>1. PollType' /\ PollsAgree'
      BY <1>6 DEF SignalsInv, PollType, PollsAgree
    <2>2. DecisionsAreFinal'
      BY <1>1, <1>6, DecisionsStay
    <2>. QED
      BY <1>2, <2>1, <2>2 DEF SignalsInv
  <1>7. CASE /\ b = poll.last + 1 /\ ~Unusable(Found(b)) /\ poll' = [poll EXCEPT !.last = b]
             /\ decisions' = [decisions EXCEPT ![b] = [next |-> poll.next, setup |-> Found(b)]]
    <2>1. /\ poll'.pc = "deciding" /\ poll'.next = poll.next /\ poll'.last = b
          /\ poll.last \in Int /\ poll.next \in Int /\ Begin - 1 <= poll.last
      BY <1>1, <1>7 DEF SignalsInv, PollType
    <2>2. PollType'
      BY <1>5, <1>7, <2>1, Market DEF SignalsInv, PollType
    <2>3. poll.next <= poll.last + 1
      BY <1>1 DEF SignalsInv, PollsAgree
    <2>4. poll'.next <= poll'.last + 1
      BY <1>5, <1>7, <2>1, <2>3
    <2>5. \A f \in Fetches : HistoryFrom(f, poll.next)' = HistoryFrom(f, poll.next)
      BY <2>1 DEF HistoryFrom
    <2>6. PollsAgree'
      BY <1>1, <2>1, <2>4, <2>5 DEF SignalsInv, PollsAgree
    <2>7. Found(b) = InHindsight(poll.next, b)
      BY <1>1, <1>4, <1>7, FoundInHindsight
    <2>8. \A c \in Bars : c # b => decisions'[c] = decisions[c]
      BY <1>7 DEF SignalsInv, PollType
    <2>9. b \in Bars => decisions'[b] = [next |-> poll.next, setup |-> Found(b)]
      BY <1>7 DEF SignalsInv, PollType
    <2>10. \A c \in Bars : decisions'[c].setup # Undecided
             => decisions'[c].setup = InHindsight(decisions'[c].next, c)
      <3>1. \A c \in Bars : c # b /\ decisions[c].setup # Undecided
              => decisions[c].setup = InHindsight(decisions[c].next, c)
        BY DEF SignalsInv, DecisionsAreFinal, Decided
      <3>. QED
        BY <2>7, <2>8, <2>9, <3>1
    <2>11. DecisionsAreFinal'
      <3>1. ASSUME NEW c \in Decided'
            PROVE  decisions'[c].setup = InHindsight(decisions[c].next, c)'
        <4>1. c \in Bars /\ decisions'[c].setup # Undecided
          BY <3>1 DEF Decided, Bars, Undecided, NoSetup
        <4>2. decisions'[c].setup = InHindsight(decisions'[c].next, c)
          BY <2>10, <4>1
        <4>. QED
          BY <1>1, <4>2, HindsightStays
      <3>. QED
        BY <3>1 DEF DecisionsAreFinal
    <2>. QED
      BY <1>2, <2>2, <2>6, <2>11 DEF SignalsInv
  <1>. QED
    BY <1>1, <1>6, <1>7

(* The end of a poll, and the end of a fault.                               *)
LEMMA IdlesInv == ASSUME SignalsInv, Finish \/ Recover PROVE SignalsInv'
  <1>1. poll' = [poll EXCEPT !.pc = "idle"] /\ UNCHANGED <<clock, fetch, chart, decisions>>
    BY DEF Finish, Recover
  <1>2. PollType' /\ PollsAgree'
    BY <1>1 DEF SignalsInv, PollType, PollsAgree
  <1>3. IInv' /\ DecisionsAreFinal'
    BY <1>1, DecisionsStay DEF SignalsInv, IInv, HistoryTypeOK
  <1>. QED
    BY <1>2, <1>3 DEF SignalsInv

(* Every step keeps the invariant.                                          *)
LEMMA SignalsNextInv == ASSUME SignalsInv, [SignalsNext]_signalVars PROVE SignalsInv'
  <1>1. CASE UNCHANGED signalVars
    <2>1. UNCHANGED <<clock, fetch, chart, poll, decisions>>
      BY <1>1 DEF signalVars
    <2>2. PollType' /\ PollsAgree'
      <3>1. \A f \in Fetches : HistoryFrom(f, poll.next)' = HistoryFrom(f, poll.next)
        BY <2>1 DEF HistoryFrom
      <3>. QED
        BY <2>1, <3>1 DEF SignalsInv, PollType, PollsAgree
    <2>3. IInv' /\ DecisionsAreFinal'
      BY <2>1, DecisionsStay DEF SignalsInv, IInv, HistoryTypeOK
    <2>. QED
      BY <2>2, <2>3 DEF SignalsInv
  <1>. QED
    BY <1>1, AnswerSignals, PollInv, GatheredInv, GatherFailsInv, DecideInv, IdlesInv
       DEF SignalsNext

(* In every state of the worker's polls ...                                 *)
THEOREM SignalsHold == SignalsSpec => []SignalsInv
  <1>. QED
    BY SignalsInitInv, SignalsNextInv, PTL DEF SignalsSpec

(* ... what the worker decided of a bar is what hindsight decides of it:    *)
(* whatever the market does, however late or in how many pages histories    *)
(* come, and whether the bar is processed as it closes or in a recovery.    *)
THEOREM DecisionsHold == SignalsSpec => []DecisionsAreFinal
  <1>1. SignalsInv => DecisionsAreFinal
    BY DEF SignalsInv
  <1>. QED
    BY <1>1, SignalsHold, PTL

-----------------------------------------------------------------------------
(* What a setup is worth: prices.                                           *)

(* The settings of the strategy are numbers.                                *)
LEMMA Settings ==
    /\ PriceTick \in Nat /\ 1 <= PriceTick /\ Unit \in Nat /\ 1 <= Unit
    /\ SlipUnits \in Nat /\ SlipUnits <= Unit /\ RewardUnits \in Nat /\ 1 <= RewardUnits
    /\ Span \in Nat /\ 1 <= Span /\ Lookback \in Nat
  <1>1. /\ PriceTick \in Nat /\ 1 <= PriceTick /\ Unit \in Nat /\ 1 <= Unit
        /\ Span \in Nat /\ 1 <= Span
    BY PullbackAssumption
  <1>2. RewardUnits \in Nat /\ 1 <= RewardUnits /\ Lookback \in Nat
    BY PullbackAssumption
  <1>3. SlipUnits \in 0..Unit
    BY PullbackAssumption
  <1>. QED
    BY <1>1, <1>2, <1>3

(* A quotient is the most that fits.                                        *)
LEMMA Quotient ==
    ASSUME NEW a \in Int, NEW d \in Nat, 1 <= d
    PROVE  /\ a \div d \in Int /\ (a \div d) * d <= a /\ a < (a \div d) * d + d
  <1>1. a \div d \in Int
    OBVIOUS
  <1>2. (a \div d) * d <= a
    OBVIOUS
  <1>3. a < (a \div d) * d + d
    OBVIOUS
  <1>. QED
    BY <1>1, <1>2, <1>3

(* Prices are rounded by less than a tick.                                  *)
LEMMA Rounding ==
    ASSUME NEW p \in Int
    PROVE  /\ Down(p) \in Int /\ Down(p) <= p /\ p < Down(p) + PriceTick
           /\ Up(p) \in Int /\ p <= Up(p) /\ Up(p) < p + PriceTick
  <1>1. ASSUME NEW x \in Int PROVE Down(x) \in Int /\ Down(x) <= x /\ x < Down(x) + PriceTick
    <2> DEFINE q == x \div PriceTick
    <2>1. q \in Int /\ q * PriceTick <= x /\ x < q * PriceTick + PriceTick
      BY Settings, Quotient
    <2>2. Down(x) = q * PriceTick
      BY DEF Down
    <2> HIDE DEF q
    <2>. QED
      BY <2>1, <2>2, Settings
  <1>2. -p \in Int /\ Up(p) = -Down(-p)
    BY DEF Up
  <1>3. Down(-p) \in Int /\ Down(-p) <= -p /\ -p < Down(-p) + PriceTick
    BY <1>1, <1>2
  <1>4. Down(p) \in Int /\ Down(p) <= p /\ p < Down(p) + PriceTick
    BY <1>1
  <1>. QED
    BY <1>2, <1>3, <1>4, Settings

(* A product bounds its factors.                                            *)
LEMMA Factors ==
    ASSUME NEW x \in Int, NEW y \in Int, NEW d \in Nat, 1 <= d
    PROVE  x * d <= y * d => x <= y
  <1>1. SUFFICES ASSUME y < x PROVE y * d < x * d
    OBVIOUS
  <1>2. (y + 1) * d <= x * d
    BY <1>1
  <1>3. (y + 1) * d = y * d + d
    OBVIOUS
  <1>. QED
    BY <1>2, <1>3

(* A fill is not better than its trigger.                                   *)
LEMMA Slippage ==
    ASSUME NEW p \in Nat
    PROVE  /\ AdversePrice(p, TRUE) \in Int /\ p <= AdversePrice(p, TRUE)
           /\ AdversePrice(p, FALSE) \in Int /\ AdversePrice(p, FALSE) <= p
  <1> DEFINE d == Unit * PriceTick
             more == -(p * (Unit + SlipUnits))
             less == p * (Unit - SlipUnits)
  <1>1. d \in Nat /\ 1 <= d
    <2>1. Unit * 1 <= Unit * PriceTick
      BY Settings
    <2>. QED
      BY <2>1, Settings
  <1>2. more \in Int /\ more <= (-p) * Unit
    <2>1. more = (-p) * Unit - p * SlipUnits
      BY Settings
    <2>2. p * SlipUnits \in Nat
      BY Settings
    <2>3. (-p) * Unit \in Int
      BY Settings
    <2>. QED
      BY <2>1, <2>2, <2>3
  <1>3. less \in Int /\ less <= p * Unit
    <2>1. p * (Unit - SlipUnits) = p * Unit - p * SlipUnits
      BY Settings
    <2>2. p * SlipUnits \in Nat
      BY Settings
    <2>3. p * Unit \in Int
      BY Settings
    <2>. QED
      BY <2>1, <2>2, <2>3
  <1>4. ASSUME NEW x \in Int, NEW y \in Int, x <= y * Unit
        PROVE  (x \div d) * PriceTick \in Int /\ (x \div d) * PriceTick <= y
    <2> DEFINE q == x \div d
    <2>1. q \in Int /\ q * d <= x
      BY <1>1, Quotient
    <2> HIDE DEF q
    <2>2. q * d = (q * PriceTick) * Unit
      BY <2>1, Settings
    <2>3. q * PriceTick \in Int
      BY <2>1, Settings
    <2>4. (q * PriceTick) * Unit <= y * Unit
      <3>1. y * Unit \in Int /\ (q * PriceTick) * Unit \in Int
        BY <2>3, Settings
      <3> HIDE DEF d
      <3>. QED
        BY <1>4, <2>1, <2>2, <3>1
    <2>5. q * PriceTick <= y
      BY <2>3, <2>4, Settings, Factors
    <2>. QED
      BY <2>3, <2>5 DEF q
  <1>5. (more \div d) * PriceTick \in Int /\ (more \div d) * PriceTick <= -p
    <2> HIDE DEF more, d
    <2>. QED
      BY <1>2, <1>4
  <1>6. (less \div d) * PriceTick \in Int /\ (less \div d) * PriceTick <= p
    <2> HIDE DEF less, d
    <2>. QED
      BY <1>3, <1>4
  <1> DEFINE up == (more \div d) * PriceTick
             down == (less \div d) * PriceTick
  <1>7. AdversePrice(p, TRUE) = -up /\ AdversePrice(p, FALSE) = down
    BY DEF AdversePrice
  <1>8. up \in Int /\ up <= -p /\ down \in Int /\ down <= p
    BY <1>5, <1>6
  <1> DEFINE bought == AdversePrice(p, TRUE)
             sold == AdversePrice(p, FALSE)
  <1>9. bought \in Int /\ p <= bought /\ sold \in Int /\ sold <= p
    <2>1. bought = -up /\ sold = down
      BY <1>7
    <2> HIDE DEF up, down, bought, sold
    <2>. QED
      BY <1>8, <2>1
  <1>. QED
    BY <1>9

\* A level that can be.
IsLevel(l) == l.price \in Nat

(* Among levels one is the lowest.                                          *)
LEMMA LowestLevel ==
    ASSUME NEW S, S # {}, \A l \in S : IsLevel(l)
    PROVE  Nearest(S, FALSE) \in S
  <1> DEFINE P == {l.price : l \in S}
  <1>1. P \in SUBSET Nat /\ P # {}
    BY DEF IsLevel
  <1>2. PICK p \in P : \A q \in P : p <= q
    BY <1>1, LeastBar
  <1>3. \E l \in S : \A m \in S : l.price <= m.price
    BY <1>2
  <1>4. Nearest(S, FALSE) = CHOOSE l \in S : \A m \in S : l.price <= m.price
    BY DEF Nearest
  <1>. QED
    BY <1>3, <1>4

(* The highest too, if they have a bound.                                  *)
LEMMA HighestLevel ==
    ASSUME NEW S, S # {}, \A l \in S : IsLevel(l), NEW top \in Int, \A l \in S : l.price <= top
    PROVE  Nearest(S, TRUE) \in S
  <1> DEFINE P == {top - l.price : l \in S}
  <1>1. P \in SUBSET Nat /\ P # {}
    BY DEF IsLevel
  <1>2. PICK p \in P : \A q \in P : p <= q
    BY <1>1, LeastBar
  <1>3. PICK l \in S : p = top - l.price
    BY <1>2
  <1>4. \A m \in S : m.price <= l.price
    <2> SUFFICES ASSUME NEW m \in S PROVE m.price <= l.price
      OBVIOUS
    <2>1. top - l.price <= top - m.price
      BY <1>2, <1>3
    <2>. QED
      BY <2>1 DEF IsLevel
  <1>5. Nearest(S, TRUE) = CHOOSE k \in S : \A m \in S : m.price <= k.price
    BY DEF Nearest
  <1>. QED
    BY <1>3, <1>4, <1>5

(* A long setup pays, and its stop is behind a support.                     *)
LEMMA LongSetup ==
    ASSUME NEW last, IsCandle(last), NEW levels, \A l \in levels : IsLevel(l), NEW asOf,
           Protected(TRUE, last, levels, asOf).found
    PROVE  LET s == Protected(TRUE, last, levels, asOf)
           IN  /\ s.long = TRUE
               /\ {s.entry, s.expected, s.stop, s.target} \subseteq Int
               /\ s.entry - s.stop > 0 /\ s.expected - s.entry >= 0
               /\ s.target - s.expected > 0
               /\ (s.target - s.expected) * Unit >= (s.expected - s.stop) * RewardUnits
               /\ \E l \in levels : l.support = TRUE /\ s.stop = TickBelow(l.price)
  <1> DEFINE entry == Down(last.high) + PriceTick
             expected == AdversePrice(entry, TRUE)
             protective == {l \in levels : l.support = TRUE /\ l.price < last.low}
             level == Nearest(protective, TRUE)
             stop == TickBelow(level.price)
             opposing == {l \in levels : /\ l.support # TRUE
                                         /\ l.price > expected
                                         /\ Pays(entry, expected, stop, TickBelow(l.price), TRUE)}
             goal == Nearest(opposing, FALSE)
             target == TickBelow(goal.price)
             setup == [found |-> TRUE, long |-> TRUE, entry |-> entry, expected |-> expected,
                       stop |-> stop, target |-> target, from |-> asOf, until |-> asOf + ExpiryBars]
  <1>1. protective # {} /\ opposing # {} /\ Protected(TRUE, last, levels, asOf) = setup
    BY DEF Protected, NoSetup
  <1>2. last.low \in Nat /\ last.high \in Nat /\ last.low <= last.high
    BY DEF IsCandle
  <1>3. entry \in Nat /\ last.high < entry
    BY <1>2, Rounding, Settings
  <1>4. expected \in Int /\ entry <= expected
    BY <1>3, Slippage
  <1>5. level \in protective
    <2>1. \A l \in protective : IsLevel(l)
      OBVIOUS
    <2>2. \A l \in protective : l.price <= last.low
      BY <1>2, <2>1 DEF IsLevel
    <2>3. protective # {} /\ last.low \in Int
      BY <1>1, <1>2
    <2> HIDE DEF protective
    <2>. QED
      BY <2>1, <2>2, <2>3, HighestLevel
  <1>6. goal \in opposing
    BY <1>1, LowestLevel
  <1>7. /\ stop \in Int /\ stop < level.price /\ target \in Int
        /\ level.price \in Nat /\ level.price < last.low
    <2>1. level.price \in Nat /\ level.price < last.low /\ goal.price \in Nat
      BY <1>5, <1>6 DEF IsLevel
    <2> HIDE DEF level, goal
    <2>. QED
      BY <2>1, Rounding, Settings DEF TickBelow
  <1>8. stop < entry /\ stop < expected
    <2> HIDE DEF level, stop, entry, expected
    <2>. QED
      BY <1>2, <1>3, <1>4, <1>7
  <1>9. (target - expected) * Unit >= (expected - stop) * RewardUnits
    <2>1. Pays(entry, expected, stop, target, TRUE)
      BY <1>6
    <2> HIDE DEF entry, expected, stop, target
    <2>. QED
      BY <1>4, <1>7, <1>8, <2>1 DEF Pays
  <1> HIDE DEF entry, expected, stop, target
  <1>10. target - expected > 0
    <2> DEFINE reward == target - expected
               distance == expected - stop
    <2>1. reward \in Int /\ distance \in Nat /\ 1 <= distance
      BY <1>4, <1>7, <1>8
    <2>2. reward * Unit >= distance * RewardUnits
      BY <1>9
    <2> HIDE DEF reward, distance
    <2>3. distance * RewardUnits >= 1
      BY <2>1, Settings
    <2>4. ~(reward <= 0)
      <3>1. SUFFICES ASSUME reward <= 0 PROVE FALSE
        OBVIOUS
      <3>2. reward * Unit <= 0
        BY <2>1, <3>1, Settings
      <3>. QED
        BY <2>1, <2>2, <2>3, <3>2, Settings
    <2>. QED
      BY <2>1, <2>4 DEF reward
  <1>11. \E l \in levels : l.support = TRUE /\ stop = TickBelow(l.price)
    BY <1>5 DEF stop
  <1> DEFINE s == Protected(TRUE, last, levels, asOf)
  <1>12. /\ s.long = TRUE /\ s.entry = entry /\ s.expected = expected
         /\ s.stop = stop /\ s.target = target
    <2>1. s = setup
      BY <1>1
    <2> HIDE DEF s
    <2>. QED
      BY <2>1
  <1> HIDE DEF s
  <1>13. /\ {s.entry, s.expected, s.stop, s.target} \subseteq Int
         /\ s.entry - s.stop > 0 /\ s.expected - s.entry >= 0
         /\ s.target - s.expected > 0
         /\ (s.target - s.expected) * Unit >= (s.expected - s.stop) * RewardUnits
    BY <1>3, <1>4, <1>7, <1>8, <1>9, <1>10, <1>12
  <1>. QED
    BY <1>11, <1>12, <1>13 DEF s

(* A short setup pays, and its stop is behind a resistance.                 *)
LEMMA ShortSetup ==
    ASSUME NEW last, IsCandle(last), NEW levels, \A l \in levels : IsLevel(l), NEW asOf,
           Protected(FALSE, last, levels, asOf).found
    PROVE  LET s == Protected(FALSE, last, levels, asOf)
           IN  /\ s.long = FALSE
               /\ {s.entry, s.expected, s.stop, s.target} \subseteq Int
               /\ s.stop - s.entry > 0 /\ s.entry - s.expected >= 0
               /\ s.expected - s.target > 0
               /\ (s.expected - s.target) * Unit >= (s.stop - s.expected) * RewardUnits
               /\ \E l \in levels : l.support = FALSE /\ s.stop = TickAbove(l.price)
  <1> DEFINE entry == Up(last.low) - PriceTick
             expected == AdversePrice(entry, FALSE)
             protective == {l \in levels : l.support = FALSE /\ l.price > last.high}
             level == Nearest(protective, FALSE)
             stop == TickAbove(level.price)
             opposing == {l \in levels : /\ l.support # FALSE
                                         /\ l.price < expected
                                         /\ Pays(entry, expected, stop, TickAbove(l.price), FALSE)}
             goal == Nearest(opposing, TRUE)
             target == TickAbove(goal.price)
             setup == [found |-> TRUE, long |-> FALSE, entry |-> entry, expected |-> expected,
                       stop |-> stop, target |-> target, from |-> asOf, until |-> asOf + ExpiryBars]
  <1>1. /\ protective # {} /\ opposing # {} /\ Protected(FALSE, last, levels, asOf) = setup
        /\ ~(entry <= 0)
    BY DEF Protected, NoSetup
  <1>2. last.low \in Nat /\ last.high \in Nat /\ last.low <= last.high
    BY DEF IsCandle
  <1>3. entry \in Nat /\ entry < last.low
    BY <1>1, <1>2, Rounding, Settings
  <1>4. expected \in Int /\ expected <= entry
    BY <1>3, Slippage
  <1>5. level \in protective
    <2>1. \A l \in protective : IsLevel(l)
      OBVIOUS
    <2>2. protective # {}
      BY <1>1
    <2> HIDE DEF protective
    <2>. QED
      BY <2>1, <2>2, LowestLevel
  <1>6. goal \in opposing
    <2>1. \A l \in opposing : IsLevel(l)
      OBVIOUS
    <2>2. \A l \in opposing : l.price < expected
      OBVIOUS
    <2> HIDE DEF opposing, expected
    <2>3. opposing # {} /\ expected \in Int
      BY <1>1, <1>4
    <2>4. \A l \in opposing : l.price <= expected
      BY <2>1, <2>2, <2>3 DEF IsLevel
    <2>. QED
      BY <2>1, <2>3, <2>4, HighestLevel
  <1>7. /\ stop \in Int /\ level.price < stop /\ target \in Int
        /\ level.price \in Nat /\ last.high < level.price
    <2>1. level.price \in Nat /\ last.high < level.price /\ goal.price \in Nat
      BY <1>2, <1>5, <1>6 DEF IsLevel
    <2> HIDE DEF level, goal
    <2>. QED
      BY <1>2, <2>1, Rounding, Settings DEF TickAbove
  <1>8. entry < stop /\ expected < stop
    <2> HIDE DEF level, stop, entry, expected
    <2>. QED
      BY <1>2, <1>3, <1>4, <1>7
  <1>9. (expected - target) * Unit >= (stop - expected) * RewardUnits
    <2>1. Pays(entry, expected, stop, target, FALSE)
      BY <1>6
    <2> HIDE DEF entry, expected, stop, target
    <2>. QED
      BY <1>4, <1>7, <1>8, <2>1 DEF Pays
  <1> HIDE DEF entry, expected, stop, target
  <1>10. expected - target > 0
    <2> DEFINE reward == expected - target
               distance == stop - expected
    <2>1. reward \in Int /\ distance \in Nat /\ 1 <= distance
      BY <1>4, <1>7, <1>8
    <2>2. reward * Unit >= distance * RewardUnits
      BY <1>9
    <2> HIDE DEF reward, distance
    <2>3. distance * RewardUnits >= 1
      BY <2>1, Settings
    <2>4. ~(reward <= 0)
      <3>1. SUFFICES ASSUME reward <= 0 PROVE FALSE
        OBVIOUS
      <3>2. reward * Unit <= 0
        BY <2>1, <3>1, Settings
      <3>. QED
        BY <2>1, <2>2, <2>3, <3>2, Settings
    <2>. QED
      BY <2>1, <2>4 DEF reward
  <1>11. \E l \in levels : l.support = FALSE /\ stop = TickAbove(l.price)
    BY <1>5 DEF stop
  <1> DEFINE s == Protected(FALSE, last, levels, asOf)
  <1>12. /\ s.long = FALSE /\ s.entry = entry /\ s.expected = expected
         /\ s.stop = stop /\ s.target = target
    <2>1. s = setup
      BY <1>1
    <2> HIDE DEF s
    <2>. QED
      BY <2>1
  <1> HIDE DEF s
  <1>13. /\ {s.entry, s.expected, s.stop, s.target} \subseteq Int
         /\ s.stop - s.entry > 0 /\ s.entry - s.expected >= 0
         /\ s.expected - s.target > 0
         /\ (s.expected - s.target) * Unit >= (s.stop - s.expected) * RewardUnits
    BY <1>3, <1>4, <1>7, <1>8, <1>9, <1>10, <1>12
  <1>. QED
    BY <1>11, <1>12, <1>13 DEF s

-----------------------------------------------------------------------------
(* Where a level is: candles.                                               *)

AreCandles(bars) == Len(bars) \in Nat /\ \A i \in 1..Len(bars) : IsCandle(bars[i])

(* The last candles are candles.                                            *)
LEMMA LastCandles ==
    ASSUME NEW bars, AreCandles(bars), NEW n \in Nat
    PROVE  LET w == LastOf(bars, n)
           IN  Len(w) \in Nat /\ DOMAIN w = 1..Len(w) /\ \A i \in DOMAIN w : IsCandle(w[i])
  <1> DEFINE S == {bars[i] : i \in 1..Len(bars)}
             m == IF Len(bars) > n THEN Len(bars) - n + 1 ELSE 1
             w == SubSeq(bars, m, Len(bars))
  <1>1. Len(bars) \in Nat /\ m \in Int /\ 1 <= m
    BY DEF AreCandles
  <1> HIDE DEF m
  <1>2. \A i \in m..Len(bars) : bars[i] \in S
    BY <1>1
  <1>3. w \in Seq(S) /\ Len(w) = IF m <= Len(bars) THEN Len(bars) - m + 1 ELSE 0
    <2> HIDE DEF S
    <2>. QED
      BY <1>1, <1>2
  <1>4. Len(w) \in Nat /\ DOMAIN w = 1..Len(w) /\ \A i \in DOMAIN w : w[i] \in S
    BY <1>3
  <1>5. \A c \in S : IsCandle(c)
    BY DEF AreCandles
  <1>6. LastOf(bars, n) = w
    BY DEF LastOf, m
  <1>. QED
    BY <1>4, <1>5, <1>6

\* The candles of a window in which a support, or a resistance, has held.
HoldsLow(w, price) ==
    \E i \in DOMAIN w : price = w[i].low /\ \A j \in i..Len(w) : w[j].close >= w[i].low
HoldsHigh(w, price) ==
    \E i \in DOMAIN w : price = w[i].high /\ \A j \in i..Len(w) : w[j].close <= w[i].high

(* A confirmed level has held since.                                        *)
LEMMA LevelsHold ==
    ASSUME NEW bars, AreCandles(bars), NEW l \in ConfirmedLevels(bars)
    PROVE  /\ IsLevel(l)
           /\ l.support = TRUE => HoldsLow(LastOf(bars, Lookback), l.price)
           /\ l.support = FALSE => HoldsHigh(LastOf(bars, Lookback), l.price)
  <1> DEFINE w == LastOf(bars, Lookback)
             inner == (Span + 1)..(Len(w) - Span)
             after(i) == (i + Span + 1)..Len(w)
  <1>1. Len(w) \in Nat /\ DOMAIN w = 1..Len(w) /\ \A i \in DOMAIN w : IsCandle(w[i])
    BY LastCandles, Settings
  <1>2. \/ \E i \in inner : /\ l = [support |-> TRUE, price |-> w[i].low]
                            /\ \A k \in Around(i) : w[i].low < w[k].low
                            /\ \A k \in after(i) : w[k].close >= w[i].low
        \/ \E i \in inner : /\ l = [support |-> FALSE, price |-> w[i].high]
                            /\ \A k \in Around(i) : w[i].high > w[k].high
                            /\ \A k \in after(i) : w[k].close <= w[i].high
    BY DEF ConfirmedLevels
  <1> HIDE DEF w
  <1>3. \A i \in DOMAIN w : /\ w[i].low \in Nat /\ w[i].high \in Nat /\ w[i].close \in Nat
                            /\ w[i].low <= w[i].close /\ w[i].close <= w[i].high
    BY <1>1 DEF IsCandle
  <1>4. ASSUME NEW i \in inner
        PROVE  /\ i \in DOMAIN w
               /\ \A j \in i..Len(w) :
                    j \in DOMAIN w /\ (j = i \/ j \in Around(i) \/ j \in after(i))
    BY <1>1, Settings DEF Around
  <1>5. CASE \E i \in inner : /\ l = [support |-> TRUE, price |-> w[i].low]
                              /\ \A k \in Around(i) : w[i].low < w[k].low
                              /\ \A k \in after(i) : w[k].close >= w[i].low
    <2>1. PICK i \in inner : /\ l = [support |-> TRUE, price |-> w[i].low]
                             /\ \A k \in Around(i) : w[i].low < w[k].low
                             /\ \A k \in after(i) : w[k].close >= w[i].low
      BY <1>5
    <2>2. ASSUME NEW j \in i..Len(w) PROVE w[j].close >= w[i].low
      BY <1>3, <1>4, <2>1
    <2>3. l.price = w[i].low /\ l.support = TRUE /\ w[i].low \in Nat
      BY <1>3, <1>4, <2>1
    <2>. QED
      BY <1>4, <2>2, <2>3 DEF HoldsLow, IsLevel, w
  <1>6. CASE \E i \in inner : /\ l = [support |-> FALSE, price |-> w[i].high]
                              /\ \A k \in Around(i) : w[i].high > w[k].high
                              /\ \A k \in after(i) : w[k].close <= w[i].high
    <2>1. PICK i \in inner : /\ l = [support |-> FALSE, price |-> w[i].high]
                             /\ \A k \in Around(i) : w[i].high > w[k].high
                             /\ \A k \in after(i) : w[k].close <= w[i].high
      BY <1>6
    <2>2. ASSUME NEW j \in i..Len(w) PROVE w[j].close <= w[i].high
      BY <1>3, <1>4, <2>1
    <2>3. l.price = w[i].high /\ l.support = FALSE /\ w[i].high \in Nat
      BY <1>3, <1>4, <2>1
    <2>. QED
      BY <1>4, <2>2, <2>3 DEF HoldsHigh, IsLevel, w
  <1>. QED
    BY <1>2, <1>5, <1>6

\* A setup pays, from behind a level of one of two histories.
IsSound(s, trend, entries) ==
    /\ {s.entry, s.expected, s.stop, s.target} \subseteq Int
    /\ \/ /\ s.long = TRUE
          /\ s.entry - s.stop > 0 /\ s.expected - s.entry >= 0 /\ s.target - s.expected > 0
          /\ (s.target - s.expected) * Unit >= (s.expected - s.stop) * RewardUnits
          /\ \E bars \in {trend.bars, entries.bars} : \E p \in Nat :
               s.stop = TickBelow(p) /\ HoldsLow(LastOf(bars, Lookback), p)
       \/ /\ s.long = FALSE
          /\ s.stop - s.entry > 0 /\ s.entry - s.expected >= 0 /\ s.expected - s.target > 0
          /\ (s.expected - s.target) * Unit >= (s.stop - s.expected) * RewardUnits
          /\ \E bars \in {trend.bars, entries.bars} : \E p \in Nat :
               s.stop = TickAbove(p) /\ HoldsHigh(LastOf(bars, Lookback), p)

(* A setup comes from a signal candle and the levels of both histories.     *)
LEMMA FoundBySignal ==
    ASSUME NEW trend, NEW entries, NEW asOf, Evaluate(trend, entries, asOf).found
    PROVE  LET last == entries.bars[Len(entries.bars)]
               levels == ConfirmedLevels(entries.bars) \union ConfirmedLevels(trend.bars)
           IN  /\ Warm(trend, entries)
               /\ \/ Evaluate(trend, entries, asOf) = Protected(TRUE, last, levels, asOf)
                  \/ Evaluate(trend, entries, asOf) = Protected(FALSE, last, levels, asOf)
  <1> DEFINE last == entries.bars[Len(entries.bars)]
             closes == Field(trend.bars, "close")
             fast == Average(closes, FastPeriod)
             slow == Average(closes, SlowPeriod)
             pullback == Average(Field(entries.bars, "close"), PullbackPeriod)
             buy == LongSignal(fast, slow, pullback, last)
             levels == ConfirmedLevels(entries.bars) \union ConfirmedLevels(trend.bars)
  <1>1. \A reason : NoSetup(reason).found = FALSE
    BY DEF NoSetup
  <1>2. /\ Warm(trend, entries)
        /\ Evaluate(trend, entries, asOf) = Protected(buy, last, levels, asOf)
    BY <1>1 DEF Evaluate
  <1>3. buy = TRUE \/ buy = FALSE
    BY DEF LongSignal
  <1> HIDE DEF buy
  <1>4. \/ Evaluate(trend, entries, asOf) = Protected(TRUE, last, levels, asOf)
        \/ Evaluate(trend, entries, asOf) = Protected(FALSE, last, levels, asOf)
    <2> HIDE DEF last, levels
    <2>. QED
      BY <1>2, <1>3, Zenon
  <1>. QED
    BY <1>2, <1>4

(* Whatever the strategy finds pays.                                        *)
LEMMA SetupIsSound ==
    ASSUME NEW trend, NEW entries, NEW asOf, AreCandles(trend.bars), AreCandles(entries.bars),
           Evaluate(trend, entries, asOf).found
    PROVE  IsSound(Evaluate(trend, entries, asOf), trend, entries)
  <1> DEFINE s == Evaluate(trend, entries, asOf)
             last == entries.bars[Len(entries.bars)]
             levels == ConfirmedLevels(entries.bars) \union ConfirmedLevels(trend.bars)
  <1>1. Warm(trend, entries)
    BY FoundBySignal
  <1>2. IsCandle(last)
    BY <1>1, WarmIsNotEmpty DEF AreCandles
  <1>3. \A l \in levels : IsLevel(l)
    BY LevelsHold
  <1>4. ASSUME NEW l \in levels
        PROVE  /\ l.price \in Nat
               /\ l.support = TRUE => \E bars \in {trend.bars, entries.bars} :
                                         HoldsLow(LastOf(bars, Lookback), l.price)
               /\ l.support = FALSE => \E bars \in {trend.bars, entries.bars} :
                                          HoldsHigh(LastOf(bars, Lookback), l.price)
    BY LevelsHold DEF IsLevel
  <1>5. CASE s = Protected(TRUE, last, levels, asOf)
    <2> HIDE DEF last, levels
    <2> DEFINE r == Protected(TRUE, last, levels, asOf)
    <2>1. s = r /\ r.found
      BY <1>5
    <2>2. /\ r.long = TRUE
          /\ {r.entry, r.expected, r.stop, r.target} \subseteq Int
          /\ r.entry - r.stop > 0 /\ r.expected - r.entry >= 0
          /\ r.target - r.expected > 0
          /\ (r.target - r.expected) * Unit >= (r.expected - r.stop) * RewardUnits
          /\ \E l \in levels : l.support = TRUE /\ r.stop = TickBelow(l.price)
      BY <1>2, <1>3, <2>1, LongSetup
    <2> HIDE DEF r, s
    <2>3. /\ s.long = TRUE
          /\ {s.entry, s.expected, s.stop, s.target} \subseteq Int
          /\ s.entry - s.stop > 0 /\ s.expected - s.entry >= 0
          /\ s.target - s.expected > 0
          /\ (s.target - s.expected) * Unit >= (s.expected - s.stop) * RewardUnits
          /\ \E l \in levels : l.support = TRUE /\ s.stop = TickBelow(l.price)
      BY <2>1, <2>2
    <2>4. \E bars \in {trend.bars, entries.bars} : \E p \in Nat :
             s.stop = TickBelow(p) /\ HoldsLow(LastOf(bars, Lookback), p)
      BY <1>4, <2>3
    <2>5. IsSound(s, trend, entries)
      BY <2>3, <2>4 DEF IsSound
    <2>. QED
      BY <2>5 DEF s
  <1>6. CASE s = Protected(FALSE, last, levels, asOf)
    <2> HIDE DEF last, levels
    <2> DEFINE r == Protected(FALSE, last, levels, asOf)
    <2>1. s = r /\ r.found
      BY <1>6
    <2>2. /\ r.long = FALSE
          /\ {r.entry, r.expected, r.stop, r.target} \subseteq Int
          /\ r.stop - r.entry > 0 /\ r.entry - r.expected >= 0
          /\ r.expected - r.target > 0
          /\ (r.expected - r.target) * Unit >= (r.stop - r.expected) * RewardUnits
          /\ \E l \in levels : l.support = FALSE /\ r.stop = TickAbove(l.price)
      BY <1>2, <1>3, <2>1, ShortSetup
    <2> HIDE DEF r, s
    <2>3. /\ s.long = FALSE
          /\ {s.entry, s.expected, s.stop, s.target} \subseteq Int
          /\ s.stop - s.entry > 0 /\ s.entry - s.expected >= 0
          /\ s.expected - s.target > 0
          /\ (s.expected - s.target) * Unit >= (s.stop - s.expected) * RewardUnits
          /\ \E l \in levels : l.support = FALSE /\ s.stop = TickAbove(l.price)
      BY <2>1, <2>2
    <2>4. \E bars \in {trend.bars, entries.bars} : \E p \in Nat :
             s.stop = TickAbove(p) /\ HoldsHigh(LastOf(bars, Lookback), p)
      BY <1>4, <2>3
    <2>5. IsSound(s, trend, entries)
      BY <2>3, <2>4 DEF IsSound
    <2>. QED
      BY <2>5 DEF s
  <1>. QED
    BY <1>5, <1>6, FoundBySignal

(* Of finitely many prices one is the greatest.                             *)
LEMMA GreatestPrice ==
    ASSUME NEW P \in SUBSET Nat, P # {}, IsFiniteSet(P) PROVE \E x \in P : \A y \in P : y <= x
  <1> DEFINE above(x) == {y \in P : x < y}
             R == {Cardinality(above(x)) : x \in P}
  <1>1. \A x \in P : IsFiniteSet(above(x)) /\ Cardinality(above(x)) \in Nat
    BY FS_Subset, FS_CardinalityType
  <1>2. PICK r \in R : \A q \in R : r <= q
    <2>1. R \in SUBSET Nat /\ R # {}
      BY <1>1
    <2> HIDE DEF R
    <2>. QED
      BY <2>1, LeastBar
  <1>3. PICK x \in P : r = Cardinality(above(x))
    OBVIOUS
  <1>4. ASSUME NEW y \in P, x < y PROVE FALSE
    <2>1. above(y) \in SUBSET above(x) /\ y \in above(x) /\ ~(y \in above(y))
      <3>1. \A z \in P : z \in Nat
        OBVIOUS
      <3>2. \A z \in above(y) : z \in above(x)
        BY <1>4, <3>1
      <3>3. y \in above(x)
        BY <1>4
      <3>4. ~(y \in above(y))
        BY <3>1
      <3> HIDE DEF above
      <3>. QED
        BY <3>2, <3>3, <3>4
    <2>2. IsFiniteSet(above(x)) /\ Cardinality(above(x)) \in Nat /\ Cardinality(above(y)) \in Nat
      BY <1>1
    <2>3. Cardinality(above(x)) <= Cardinality(above(y))
      BY <1>2, <1>3
    <2> HIDE DEF above
    <2>4. /\ Cardinality(above(y)) <= Cardinality(above(x))
          /\ Cardinality(above(x)) = Cardinality(above(y)) => above(x) = above(y)
      BY <2>1, <2>2, FS_Subset
    <2>. QED
      BY <2>1, <2>2, <2>3, <2>4
  <1>. QED
    BY <1>4

(* What the assumptions say of a chart.                                     *)
LEMMA ChartCandles ==
    ASSUME chart \in Charts, NEW t \in Nat, t < MaxTime
    PROVE  /\ chart[t].open \in Nat \ {0} /\ chart[t].high \in Nat \ {0}
           /\ chart[t].low \in Nat \ {0} /\ chart[t].close \in Nat \ {0}
           /\ chart[t].low <= chart[t].open /\ chart[t].open <= chart[t].high
           /\ chart[t].low <= chart[t].close /\ chart[t].close <= chart[t].high
  <1>1. t \in 0..(MaxTime - 1)
    BY Bounds
  <1>2. IsCandle(chart[t])
    BY <1>1, SignalsAssumption
  <1>. QED
    BY <1>2 DEF IsCandle

(* A trend candle is one.                                                   *)
LEMMA TrendIsCandle ==
    ASSUME chart \in Charts, NEW b \in Nat, b + TrendBars <= MaxTime
    PROVE  IsCandle(TrendCandle(b))
  <1> DEFINE e == b + TrendBars - 1
             part == b..e
             H == {chart[t].high : t \in part}
             L == {chart[t].low : t \in part}
             F == [t \in part |-> chart[t].high]
             high == CHOOSE x \in H : \A t \in part : chart[t].high <= x
             low == CHOOSE x \in L : \A t \in part : x <= chart[t].low
  <1>1. e \in Nat /\ b \in part /\ e \in part
    BY Market
  <1>2. \A t \in part : t \in Nat /\ t < MaxTime
    BY Market, Bounds
  <1>3. TrendCandle(b) = [open |-> chart[b].open, close |-> chart[e].close,
                          high |-> high, low |-> low]
    BY DEF TrendCandle
  <1> HIDE DEF e, part
  <1>4. H \in SUBSET Nat /\ L \in SUBSET Nat
    BY <1>2, ChartCandles
  <1>5. H # {} /\ L # {}
    BY <1>1
  <1>6. IsFiniteSet(H)
    <2>1. IsFiniteSet(part)
      BY <1>1, FS_Interval DEF part
    <2>2. F \in Surjection(part, H)
      BY DEF Surjection
    <2> HIDE DEF F, H
    <2>. QED
      BY <2>1, <2>2, FS_Surjection
  <1>7. high \in H /\ \A t \in part : chart[t].high <= high
    <2>1. \E x \in H : \A y \in H : y <= x
      <3> HIDE DEF H
      <3>. QED
        BY <1>4, <1>5, <1>6, GreatestPrice
    <2>2. \E x \in H : \A t \in part : chart[t].high <= x
      BY <2>1
    <2>. QED
      BY <2>2
  <1>8. low \in L /\ \A t \in part : low <= chart[t].low
    <2>1. \E x \in L : \A y \in L : x <= y
      <3> HIDE DEF L
      <3>. QED
        BY <1>4, <1>5, LeastBar
    <2>2. \E x \in L : \A t \in part : x <= chart[t].low
      BY <2>1
    <2>. QED
      BY <2>2
  <1>9. high \in Nat \ {0} /\ low \in Nat \ {0}
    BY <1>2, <1>7, <1>8, ChartCandles
  <1> HIDE DEF high, low, H, L
  <1>10. /\ chart[b].open \in Nat \ {0} /\ chart[e].close \in Nat \ {0}
         /\ low <= chart[b].open /\ chart[b].open <= high
         /\ low <= chart[e].close /\ chart[e].close <= high
    <2>1. b \in Nat /\ b < MaxTime /\ e \in Nat /\ e < MaxTime
      BY <1>1, <1>2
    <2>2. /\ chart[b].high <= high /\ low <= chart[b].low
          /\ chart[e].high <= high /\ low <= chart[e].low
      BY <1>1, <1>7, <1>8
    <2>3. /\ chart[b].open \in Nat \ {0} /\ chart[b].low \in Nat /\ chart[b].high \in Nat
          /\ chart[b].low <= chart[b].open /\ chart[b].open <= chart[b].high
      BY <2>1, ChartCandles
    <2>4. /\ chart[e].close \in Nat \ {0} /\ chart[e].low \in Nat /\ chart[e].high \in Nat
          /\ chart[e].low <= chart[e].close /\ chart[e].close <= chart[e].high
      BY <2>1, ChartCandles
    <2>. QED
      BY <1>9, <2>2, <2>3, <2>4
  <1>. QED
    BY <1>3, <1>9, <1>10 DEF IsCandle

(* The history hindsight uses is made of candles.                           *)
LEMMA WholeIsCandles ==
    ASSUME chart \in Charts, NEW f \in Fetches, NEW next \in Int, Begin <= next,
           NEW b \in Nat, b < MaxTime
    PROVE  AreCandles(WholeHistory(f, next, b).bars)
  <1> DEFINE B == GridBars(f, next, b)
             first == CHOOSE a \in B : \A c \in B : a <= c
             d == Dur[f]
             from == HistoryFrom(f, next)
             n == Cardinality(B)
             bars == [i \in 1..n |-> Candle(f, first + (i - 1) * d)]
             S == {Candle(f, first + (i - 1) * d) : i \in 1..n}
  <1>1. WholeHistory(f, next, b) = History(f, B)
    BY DEF WholeHistory, GridBars
  <1>2. d \in Nat \ {0} /\ from \in Nat /\ from % d = 0
    BY Market, HistoryBegins
  <1>3. \A c \in B : c \in Nat /\ c + d <= b /\ (c - from) % d = 0 /\ from <= c
    BY <1>2 DEF GridBars
  <1>4. \A c \in B : c % d = 0
    <2> HIDE DEF B, d, from
    <2> SUFFICES ASSUME NEW c \in B PROVE c % d = 0
      OBVIOUS
    <2> DEFINE p == (c - from) \div d
               q == from \div d
    <2>1. c \in Nat /\ c - from \in Nat /\ (c - from) % d = 0
      BY <1>2, <1>3
    <2>2. p \in Nat /\ c - from = p * d + 0
      BY <1>2, <2>1, Division
    <2>3. q \in Nat /\ from = q * d + 0
      BY <1>2, Division
    <2> HIDE DEF p, q
    <2>4. c = (p + q) * d /\ p + q \in Nat
      BY <1>2, <2>1, <2>2, <2>3
    <2>. QED
      BY <1>2, <2>4, Multiple
  <1>5. CASE B = {}
    <2>1. History(f, B).bars = <<>>
      BY <1>5 DEF History
    <2>. QED
      BY <1>1, <2>1 DEF AreCandles
  <1>6. CASE B # {}
    <2>1. History(f, B).bars = bars
      BY <1>6 DEF History
    <2>2. B \in SUBSET Nat /\ B \in SUBSET Times
      BY <1>2, <1>3, Bounds DEF Times
    <2> HIDE DEF B
    <2>3. first \in B /\ \A c \in B : first <= c
      BY <1>6, <2>2, LeastBar
    <2>4. PICK m \in B : \A c \in B : c <= m
      BY <1>6, <2>2, LastBar
    <2> HIDE DEF first, d
    <2>5. first + n * d <= m + d
      BY <1>2, <1>4, <2>2, <2>3, <2>4, BarsOfGrid
    <2>6. n \in Nat
      <3>1. IsFiniteSet(Times)
        BY FS_Interval, HistoryAssumption DEF Times
      <3>. QED
        BY <2>2, <3>1, FS_Subset, FS_CardinalityType
    <2>7. first \in Nat /\ m \in Nat /\ m + d <= b
      BY <1>3, <2>3, <2>4
    <2> HIDE DEF n
    <2>8. ASSUME NEW i \in 1..n
          PROVE  /\ first + (i - 1) * d \in Nat /\ first + (i - 1) * d + d <= b
                 /\ first + (i - 1) * d < MaxTime
      <3>1. i \in Nat /\ 1 <= i /\ i <= n
        BY <2>6, <2>8
      <3>2. i * d <= n * d
        BY <1>2, <2>6, <3>1, Cancel
      <3>3. (i - 1) * d = i * d - d /\ (i - 1) * d \in Nat /\ i * d \in Nat /\ n * d \in Nat
        BY <1>2, <2>6, <3>1
      <3>. QED
        BY <1>2, <2>5, <2>7, <3>2, <3>3, Bounds
    <2>9. ASSUME NEW i \in 1..n PROVE IsCandle(Candle(f, first + (i - 1) * d))
      <3> DEFINE t == first + (i - 1) * d
      <3>1. t \in Nat /\ t + d <= b /\ t < MaxTime
        BY <2>8
      <3> HIDE DEF t
      <3>2. CASE f = "entries"
        <4>1. t \in 0..(MaxTime - 1)
          BY <3>1, Bounds
        <4>2. IsCandle(chart[t])
          BY <4>1, SignalsAssumption
        <4>. QED
          BY <3>2, <4>2 DEF Candle, t
      <3>3. CASE f = "trend"
        <4>1. d = TrendBars
          BY <3>3, Market DEF d
        <4>2. t + TrendBars <= MaxTime
          BY <1>2, <3>1, <4>1, Bounds
        <4>3. IsCandle(TrendCandle(t))
          BY <3>1, <4>2, TrendIsCandle
        <4>. QED
          BY <3>3, <4>3 DEF Candle, t
      <3>. QED
        BY <3>2, <3>3, Market
    <2>10. Len(bars) = n /\ \A i \in 1..n : bars[i] = Candle(f, first + (i - 1) * d)
      <3>1. \A i \in 1..n : Candle(f, first + (i - 1) * d) \in S
        OBVIOUS
      <3> HIDE DEF S
      <3>2. bars \in Seq(S)
        BY <2>6, <3>1
      <3>3. DOMAIN bars = 1..Len(bars) /\ Len(bars) \in Nat
        <4> HIDE DEF bars
        <4>. QED
          BY <3>2
      <3>4. DOMAIN bars = 1..n
        OBVIOUS
      <3> DEFINE k == Len(bars)
      <3> HIDE DEF k, bars
      <3>5. /\ k \in Nat /\ 1..k = 1..n
        BY <3>3, <3>4 DEF k
      <3>6. /\ Cardinality(1..k) = IF 1 > k THEN 0 ELSE k - 1 + 1
            /\ Cardinality(1..n) = IF 1 > n THEN 0 ELSE n - 1 + 1
        BY <2>6, <3>5, FS_Interval
      <3>7. k = n
        BY <2>6, <3>5, <3>6
      <3>. QED
        BY <3>7 DEF bars, k
    <2> HIDE DEF bars
    <2>11. AreCandles(bars)
      BY <2>6, <2>9, <2>10 DEF AreCandles
    <2>. QED
      BY <1>1, <2>1, <2>11
  <1>. QED
    BY <1>5, <1>6

\* The chart is one of those assumed, and decisions name a poll of the run.
Settled ==
    /\ chart \in Charts
    /\ \A b \in Bars : decisions[b].next \in Int /\ Begin <= decisions[b].next

(* They stay so.                                                            *)
LEMMA SettledStays == ASSUME SignalsInv, Settled, [SignalsNext]_signalVars PROVE Settled'
  <1>1. Bars' = Bars
    BY DEF Bars
  <1>2. CASE UNCHANGED <<chart, decisions>>
    BY <1>1, <1>2 DEF Settled
  <1>3. CASE Decide
    <2> DEFINE c == CHOOSE e \in Due : \A d \in Due : e <= d
    <2>1. /\ UNCHANGED chart
          /\ \/ UNCHANGED decisions
             \/ decisions' = [decisions EXCEPT ![c] = [next |-> poll.next, setup |-> Found(c)]]
      BY <1>3 DEF Decide
    <2>2. poll.next \in Int /\ Begin <= poll.next /\ DOMAIN decisions = Bars
      BY DEF SignalsInv, PollType
    <2> HIDE DEF c
    <2>3. ASSUME NEW b \in Bars, NEW setup,
                 decisions' = [decisions EXCEPT ![c] = [next |-> poll.next, setup |-> setup]]
          PROVE  decisions'[b].next \in Int /\ Begin <= decisions'[b].next
      <3>1. decisions'[b].next = IF b = c THEN poll.next ELSE decisions[b].next
        BY <2>2, <2>3
      <3>. QED
        BY <2>2, <3>1 DEF Settled
    <2>. QED
      BY <1>1, <1>2, <2>1, <2>3 DEF Settled
  <1>4. CASE (Tick \/ \E f \in Fetches : Answer(f)) /\ UNCHANGED <<chart, poll, decisions>>
    BY <1>2, <1>4
  <1>5. CASE Poll \/ Gathered \/ GatherFails \/ Finish \/ Recover
    BY <1>2, <1>5 DEF Poll, Gathered, GatherFails, Finish, Recover
  <1>6. CASE UNCHANGED signalVars
    BY <1>2, <1>6 DEF signalVars
  <1>. QED
    BY <1>3, <1>4, <1>5, <1>6 DEF SignalsNext

(* Decisions that hindsight confirms are setups that pay.                   *)
LEMMA DecidedPays == ASSUME SignalsInv, Settled PROVE SetupsPay
  <1> SUFFICES ASSUME NEW b \in Decided, decisions[b].setup.found
               PROVE  LET s == decisions[b].setup
                          gain(p, q) == IF s.long THEN q - p ELSE p - q
                      IN  /\ gain(s.stop, s.entry) > 0 /\ gain(s.entry, s.expected) >= 0
                          /\ gain(s.expected, s.target) > 0
                          /\ gain(s.expected, s.target) * Unit
                               >= gain(s.stop, s.expected) * RewardUnits
                          /\ Held(s.stop, s.long, decisions[b].next, b)
    BY DEF SetupsPay
  <1> DEFINE s == decisions[b].setup
             next == decisions[b].next
             trend == WholeHistory("trend", next, b)
             entries == WholeHistory("entries", next, b)
  <1>1. b \in Nat /\ b < MaxTime /\ next \in Int /\ Begin <= next
    BY Market, Bounds DEF Decided, Bars, Settled
  <1>2. s = Evaluate(trend, entries, b)
    BY DEF SignalsInv, DecisionsAreFinal, InHindsight
  <1>3. AreCandles(trend.bars) /\ AreCandles(entries.bars)
    <2> HIDE DEF next
    <2>. QED
      BY <1>1, Market, WholeIsCandles DEF Settled
  <1>4. IsSound(s, trend, entries)
    <2>1. Evaluate(trend, entries, b).found
      BY <1>2
    <2> HIDE DEF s, trend, entries
    <2>. QED
      BY <1>2, <1>3, <2>1, SetupIsSound
  <1>5. ASSUME NEW p \in Nat, NEW bars \in {trend.bars, entries.bars},
               s.long = TRUE, s.stop = TickBelow(p), HoldsLow(LastOf(bars, Lookback), p)
        PROVE  Held(s.stop, s.long, next, b)
    <2>1. PICK f \in Fetches : bars = WholeHistory(f, next, b).bars
      BY Market
    <2>2. \E i \in DOMAIN LastOf(bars, Lookback) :
            /\ s.stop = TickBelow(LastOf(bars, Lookback)[i].low)
            /\ \A j \in i..Len(LastOf(bars, Lookback)) :
                 LastOf(bars, Lookback)[j].close >= LastOf(bars, Lookback)[i].low
      BY <1>5 DEF HoldsLow
    <2> HIDE DEF s, next, trend, entries
    <2>. QED
      BY <1>5, <2>1, <2>2 DEF Held
  <1>6. ASSUME NEW p \in Nat, NEW bars \in {trend.bars, entries.bars},
               s.long = FALSE, s.stop = TickAbove(p), HoldsHigh(LastOf(bars, Lookback), p)
        PROVE  Held(s.stop, s.long, next, b)
    <2>1. PICK f \in Fetches : bars = WholeHistory(f, next, b).bars
      BY Market
    <2>2. \E i \in DOMAIN LastOf(bars, Lookback) :
            /\ s.stop = TickAbove(LastOf(bars, Lookback)[i].high)
            /\ \A j \in i..Len(LastOf(bars, Lookback)) :
                 LastOf(bars, Lookback)[j].close <= LastOf(bars, Lookback)[i].high
      BY <1>6 DEF HoldsHigh
    <2> HIDE DEF s, next, trend, entries
    <2>. QED
      BY <1>6, <2>1, <2>2 DEF Held
  <1>7. Held(s.stop, s.long, next, b)
    <2> HIDE DEF s, next, trend, entries
    <2>. QED
      BY <1>4, <1>5, <1>6 DEF IsSound
  <1> HIDE DEF s, next, trend, entries
  <1>8. LET gain(p, q) == IF s.long THEN q - p ELSE p - q
        IN  /\ gain(s.stop, s.entry) > 0 /\ gain(s.entry, s.expected) >= 0
            /\ gain(s.expected, s.target) > 0
            /\ gain(s.expected, s.target) * Unit >= gain(s.stop, s.expected) * RewardUnits
    BY <1>4 DEF IsSound
  <1>. QED
    BY <1>7, <1>8 DEF s, next

(* ... and so every setup the worker ever acts on pays after the slippage   *)
(* of its entry, by the ratio asked for, from behind a level of the market  *)
(* that has held.                                                           *)
THEOREM SetupsHold == SignalsSpec => []SetupsPay
  <1>1. SignalsInit => Settled
    BY Market DEF SignalsInit, Settled
  <1>2. SignalsInv /\ Settled /\ [SignalsNext]_signalVars => Settled'
    BY SettledStays
  <1>3. SignalsInv /\ Settled => SetupsPay
    BY DecidedPays
  <1>. QED
    BY <1>1, <1>2, <1>3, SignalsHold, PTL DEF SignalsSpec
=============================================================================
