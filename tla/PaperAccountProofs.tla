------------------------- MODULE PaperAccountProofs -------------------------
(***************************************************************************)
(* The accounting of PaperAccount, its refinement of PaperLifecycle, and    *)
(* its comparison with the research engine in PaperResearch, for all        *)
(* prices, rates, fees, setups and quantities.                              *)
(***************************************************************************)
EXTENDS PaperResearch, TLAPS

(* Every writer of execution/paper.py turns a row into a row.               *)
LEMMA RowTypes ==
    /\ NoRow \in Row
    /\ \A start \in 0..MaxBar : CreatedRow(start) \in Row
    /\ \A row \in Row : FaultedRow(row) \in Row
    /\ \A row \in Row, action \in Actions : ControlledRow(row, action) \in Row
    /\ \A row \in Row, b \in Bars, o \in Outcomes : ProcessedRow(row, b, o) \in Row
<1>1. NoRow \in Row
  BY MaxBarAssumption DEF NoRow, Row
<1>2. ASSUME NEW start \in 0..MaxBar PROVE CreatedRow(start) \in Row
  BY <1>1 DEF CreatedRow, Row, Statuses, Processing
<1>3. ASSUME NEW row \in Row PROVE FaultedRow(row) \in Row
  BY DEF FaultedRow, Row, Statuses, Processing
<1>4. ASSUME NEW row \in Row, NEW action \in Actions PROVE ControlledRow(row, action) \in Row
  <2>1. ControlStatus(row, action) \in Statuses
    BY DEF ControlStatus, Statuses, Processing, Actions
  <2> QED BY <2>1 DEF ControlledRow, Row
<1>5. ASSUME NEW row \in Row, NEW b \in Bars, NEW o \in Outcomes
      PROVE ProcessedRow(row, b, o) \in Row
  <2>1. PositionAfter(row, b, o) \in 0..MaxBar
    BY MaxBarAssumption DEF PositionAfter, Held, Row, Bars, Outcomes
  <2>2. StatusAfter(row, b, o) \in Statuses \cup {"absent"}
    BY DEF StatusAfter, Row, Statuses, Processing
  <2>3. b \in 0..MaxBar
    BY MaxBarAssumption DEF Bars
  <2> QED BY <2>1, <2>2, <2>3 DEF ProcessedRow, Row, Outcomes
<1> QED BY <1>1, <1>2, <1>3, <1>4, <1>5

(* A row is its five fields.                                                *)
LEMMA RowFields ==
    ASSUME NEW row \in Row, NEW other \in Row,
           row.status = other.status, row.last = other.last, row.pending = other.pending,
           row.position = other.position, row.fault = other.fault
    PROVE  row = other
BY DEF Row

-----------------------------------------------------------------------------
(* No position is NoPosition, and a position was entered on a processed     *)
(* bar; a bar is only there to be processed while the run has bars left.    *)
(* A run that was not created has none of this.                             *)
PositionShape ==
    /\ account.position.quantity = 0 => account.position = NoPosition
    /\ account.position.quantity # 0 => account.position.entered \in 1..account.last
    /\ market # NoBar => account.last < MaxBar

Untraded ==
    account.status = "absent" =>
        account.last = 0 /\ account.pending = NoSetup /\ account.position = NoPosition
          /\ account.fault = FALSE

IInv ==
    /\ TypeOK
    /\ PositionShape
    /\ Untraded
    /\ CashIsExplained
    /\ LedgerExplainsCash

-----------------------------------------------------------------------------
(* The arithmetic of a bar stays within the integers.                       *)

(* The fractions of BarRules as integers.                                  *)
LEMMA UnitFacts ==
    /\ Unit \in Int /\ Unit > 0
    /\ FeeUnits \in Int /\ SlipUnits \in Int /\ LiquidationUnits \in Int /\ MaintenanceUnits \in Int
BY RulesAssumption

(* Rounding to ticks gives integers.                                       *)
LEMMA DivType == \A x \in Int : x \div Unit \in Int
BY UnitFacts

(* adverse_fill_price is a whole number of ticks.                          *)
LEMMA FillType ==
    ASSUME NEW price \in Int, NEW buy \in BOOLEAN
    PROVE  AdverseFill(price, buy) \in Int
<1>1. /\ price * (Unit + SlipUnits) + Unit - 1 \in Int
      /\ price * (Unit - SlipUnits) \in Int
  BY UnitFacts
<1> QED BY <1>1, DivType DEF AdverseFill

(* _pnl is a whole amount.                                                 *)
LEMMA PnlType ==
    ASSUME NEW position \in Position, NEW price \in Int
    PROVE  Pnl(position, price) \in Int
<1>1. position.quantity \in Int /\ position.price \in Int
  BY DEF Position
<1> QED BY <1>1, UnitFacts DEF Pnl

(* So is a fee.                                                            *)
LEMMA FeeType ==
    ASSUME NEW quantity \in Int, NEW price \in Int, NEW units \in Int
    PROVE  Fee(quantity, price, units) \in Int
BY DEF Fee

(* So is a funding payment.                                                *)
LEMMA FundingType ==
    ASSUME NEW position \in Position, NEW rate \in Int
    PROVE  FundingPayment(position, rate) \in Int
<1>1. position.quantity \in Int
  BY DEF Position
<1> QED BY <1>1 DEF FundingPayment

(* Exits, adverse extremes and entries are at whole prices.                *)
LEMMA ExitType ==
    ASSUME NEW setup \in Setup, NEW c \in Candle, NEW held \in Nat, NEW entered \in BOOLEAN
    PROVE  /\ Exit(setup, c, held, entered).price \in Int
           /\ Worst(setup, c) \in Int
           /\ EntryPrice(setup, c) \in Int
<1>1. /\ setup.stop \in Nat /\ setup.target \in Nat /\ setup.entry \in Nat
      /\ c.open \in Nat /\ c.close \in Nat /\ c.high \in Nat /\ c.low \in Nat
  BY DEF Setup, Candle
<1> QED BY <1>1 DEF Exit, StopPrice, Worst, EntryPrice, Lower, Higher

(* The stress test has an answer.                                          *)
LEMMA LiquidatedType ==
    ASSUME NEW position \in Position, NEW c \in Candle, NEW cash \in Int
    PROVE  Liquidated(position, c, cash) \in BOOLEAN
<1> DEFINE worst == Worst(position.setup, c)
           left == cash + Pnl(position, worst)
           needed == Fee(position.quantity, worst, MaintenanceUnits)
<1>1. worst \in Int /\ position.quantity \in Int
  BY DEF Worst, Position, Candle
<1>2. Pnl(position, worst) \in Int /\ needed \in Int
  <2> HIDE DEF worst
  <2>1. Pnl(position, worst) \in Int
    BY <1>1, PnlType
  <2>2. MaintenanceUnits \in Int
    BY UnitFacts
  <2>3. needed \in Int
    BY <1>1, <2>2, FeeType
  <2> QED BY <2>1, <2>3
<1>3. Liquidated(position, c, cash) = (left <= needed)
  BY DEF Liquidated
<1>4. (left <= needed) \in BOOLEAN
  <2> HIDE DEF worst, needed
  <2> QED BY <1>2
<1> HIDE DEF left, needed
<1> QED BY <1>3, <1>4

(* What a bar does to a position, seen from the accounting.                 *)
LEMMA SettledType ==
    ASSUME NEW position \in Position, NEW c \in Candle, NEW b \in Nat,
           NEW funding \in Funding, NEW cash \in Int
    PROVE  LET s == Settled(position, c, b, funding, cash)
           IN  /\ s.paid \in Int
               /\ s.fee \in Int
               /\ s.gross \in Int
               /\ s.closed \in BOOLEAN
               /\ s.liquidated \in BOOLEAN
               /\ s.liquidated => s.closed
<1> DEFINE s == Settled(position, c, b, funding, cash)
           exit == ExitOf(position, c, b)
           price == IF s.liquidated THEN Worst(position.setup, c) ELSE exit.price
<1>1. /\ position.setup \in Setup
      /\ position.quantity \in Int
      /\ position.held \in Nat
      /\ (position.entered = b) \in BOOLEAN
      /\ (~position.setup.long) \in BOOLEAN
  BY DEF Position
<1>2. funding.pays \in Int
  <2>1. CASE funding \in [at : {"open", "inside"}, pays : Rates]
    BY <2>1, AccountAssumption
  <2>2. CASE funding = [at |-> "never", pays |-> 0]
    BY <2>2
  <2> QED BY <2>1, <2>2 DEF Funding
<1>3. s.paid \in Int
  <2>1. s.paid = Paid(position, c, b, funding, cash)
    BY DEF Settled
  <2>2. FundingPayment(position, funding.pays) \in Int
    BY <1>2, FundingType
  <2> QED BY <2>1, <2>2 DEF Paid, Lower
<1>4. s.liquidated \in BOOLEAN /\ s.closed \in BOOLEAN /\ (s.liquidated => s.closed)
  <2>1. s.liquidated = Liquidated(position, c, cash + Paid(position, c, b, funding, cash))
    BY DEF Settled
  <2>2. s.closed = (s.liquidated \/ exit.reason # "none")
    BY DEF Settled
  <2>3. s.liquidated \in BOOLEAN
    BY <1>3, <2>1, LiquidatedType DEF Settled
  <2>4. s.closed \in BOOLEAN
    BY <2>2, Zenon
  <2> QED BY <2>2, <2>3, <2>4
<1>5. price \in Int
  BY <1>1, ExitType DEF ExitOf
<1>6. ExitFill(position, price) \in Int
  BY <1>1, <1>5, FillType DEF ExitFill
<1>7. s.gross \in Int
  <2>1. s.gross = Gross(position, price)
    BY DEF Settled
  <2> QED BY <2>1, <1>6, PnlType DEF Gross
<1>8. s.fee \in Int
  <2>1. s.fee = ExitFee(position, price, s.liquidated)
    BY DEF Settled
  <2>2. FeeUnits + (IF s.liquidated THEN LiquidationUnits ELSE 0) \in Int
    BY UnitFacts
  <2> QED BY <2>1, <2>2, <1>1, <1>6, FeeType DEF ExitFee
<1> QED BY <1>3, <1>4, <1>7, <1>8

-----------------------------------------------------------------------------
(* The parts of a bar, as process_paper_bar names them.                     *)

ThisBar == account.last + 1
Entering(offer) == Enters(account, market.candle, ThisBar, offer)
Through(offer) == Holding(account, market.candle, ThisBar, offer)
IsOpen(offer) == Through(offer).quantity # 0
CashBefore(offer) == IF Entering(offer) THEN account.cash - Through(offer).fee ELSE account.cash
Untouched == [paid |-> 0, liquidated |-> FALSE, closed |-> FALSE, fee |-> 0, gross |-> 0]
Outcome(offer) ==
    IF IsOpen(offer)
    THEN Settled(Through(offer), market.candle, ThisBar, market.funding, CashBefore(offer))
    ELSE Untouched
PositionOf(offer) ==
    IF IsOpen(offer) THEN PositionAfterBar(Through(offer), Outcome(offer)) ELSE NoPosition
CashOf(offer) == CashAfter(CashBefore(offer), Through(offer), Outcome(offer))
EquityOf(offer) == CashOf(offer) + Pnl(PositionOf(offer), market.candle.close)

(* Bar, in these terms.                                                     *)
LEMMA BarEffect ==
    ASSUME NEW offer, Bar(offer)
    PROVE  /\ market # NoBar
           /\ account.status \in Processing
           /\ market' = NoBar
           /\ account' =
                [status |-> IF Outcome(offer).liquidated THEN "faulted"
                            ELSE IF account.status = "stopping" /\ PositionOf(offer).quantity = 0
                            THEN "stopped" ELSE account.status,
                 last |-> ThisBar,
                 cash |-> CashOf(offer),
                 realized |-> account.realized + (IF Outcome(offer).closed
                                THEN NetOf(Through(offer), Outcome(offer)) ELSE 0),
                 equity |-> EquityOf(offer),
                 peak |-> Higher(account.peak, EquityOf(offer)),
                 pending |-> PendingAfterBar(account, market.candle, ThisBar, offer),
                 position |-> PositionOf(offer),
                 fault |-> Outcome(offer).liquidated]
           /\ events' = events \cup {ThisBar}
           /\ ledger' = [d \in Bars |-> IF IsOpen(offer) /\ d = Through(offer).entered
                                        THEN IF Outcome(offer).closed THEN "closed" ELSE "open"
                                        ELSE ledger[d]]
           /\ booked' =
                [gross |-> booked.gross + (IF Outcome(offer).closed
                             THEN Outcome(offer).gross ELSE 0),
                 fees |-> booked.fees + (IF Outcome(offer).closed
                             THEN Through(offer).fee + Outcome(offer).fee ELSE 0),
                 funding |-> booked.funding + (IF Outcome(offer).closed
                             THEN Through(offer).funding + Outcome(offer).paid ELSE 0),
                 commissions |-> booked.commissions
                             + (IF Entering(offer) THEN Through(offer).fee ELSE 0)
                             + (IF Outcome(offer).closed THEN Outcome(offer).fee ELSE 0)]
BY DEF Bar, ThisBar, Entering, Through, IsOpen, CashBefore, Untouched, Outcome, PositionOf,
       CashOf, EquityOf

(* What the strategy can find, seen from the entry.                         *)
LEMMA OfferType ==
    ASSUME NEW offer \in Offer
    PROVE  /\ offer.found \in Setup
           /\ offer.quantity \in Nat
<1>1. NoSetup \in Setup
  BY DEF NoSetup, Setup
<1>2. /\ Setups \subseteq Setup
      /\ Quantities \subseteq Nat
  BY AccountAssumption
<1>3. NoOffer.found \in Setup /\ NoOffer.quantity \in Nat
  BY <1>1 DEF NoOffer
<1> QED BY <1>1, <1>2, <1>3 DEF Offer, NoOffer

(* The setup looked at, pending or found, is a setup.                      *)
LEMMA ConsideredType ==
    ASSUME TypeOK, NEW offer \in Offer
    PROVE  Considered(account, ThisBar, offer) \in Setup
<1>1. NoSetup \in Setup
  BY DEF NoSetup, Setup
<1>2. account.pending \in Setup /\ ThisBar \in Nat /\ ThisBar + Expiry \in Nat
  BY AccountAssumption, MaxBarAssumption DEF TypeOK, Account, ThisBar
<1>3. offer.found \in Setup
  BY OfferType
<1>4. [offer.found EXCEPT !.from = ThisBar, !.until = ThisBar + Expiry] \in Setup
  BY <1>2, <1>3 DEF Setup
<1> QED BY <1>1, <1>2, <1>3, <1>4 DEF Considered

(* The bar is one the run has not had, and its parts have their types.      *)
LEMMA BarTypes ==
    ASSUME IInv, market # NoBar
    PROVE  /\ market.candle \in Candle
           /\ market.funding \in Funding
           /\ ThisBar \in Bars
           /\ account.position \in Position
           /\ account.position.entered < ThisBar
<1>1. NoBar.candle \in Candle /\ Candles \subseteq Candle
  BY AccountAssumption DEF NoBar, Candle
<1>2. market.candle \in Candle /\ market.funding \in Funding
  BY <1>1 DEF IInv, TypeOK
<1>3. account.last \in 0..MaxBar /\ account.last < MaxBar /\ account.position \in Position
  BY DEF IInv, TypeOK, PositionShape, Account
<1>4. ThisBar \in Bars
  BY <1>3, MaxBarAssumption DEF ThisBar, Bars
<1>5. account.position.entered < ThisBar
  <2>1. CASE account.position.quantity = 0
    BY <2>1, <1>3 DEF IInv, PositionShape, NoPosition, ThisBar
  <2>2. CASE account.position.quantity # 0
    BY <2>2, <1>3 DEF IInv, PositionShape, ThisBar
  <2> QED BY <2>1, <2>2
<1> QED BY <1>2, <1>3, <1>4, <1>5


(* A position entered on the bar is one of this bar that has paid nothing.  *)
LEMMA FilledType ==
    ASSUME IInv, NEW offer \in Offer, market # NoBar
    PROVE  /\ Filled(account, market.candle, ThisBar, offer) \in Position
           /\ Filled(account, market.candle, ThisBar, offer).entered = ThisBar
           /\ Filled(account, market.candle, ThisBar, offer).funding = 0
           /\ Filled(account, market.candle, ThisBar, offer).quantity = offer.quantity
<1> DEFINE setup == Considered(account, ThisBar, offer)
           price == AdverseFill(EntryPrice(setup, market.candle), setup.long)
           fee == Fee(offer.quantity, price, FeeUnits)
<1>1. setup \in Setup
  BY ConsideredType DEF IInv
<1>2. setup.long \in BOOLEAN /\ EntryPrice(setup, market.candle) \in Int
  <2> HIDE DEF setup
  <2>1. market.candle \in Candle
    BY BarTypes
  <2>2. setup.long \in BOOLEAN
    BY <1>1 DEF Setup
  <2> QED BY <1>1, <2>1, <2>2, ExitType
<1>3. price \in Int
  <2> HIDE DEF setup
  <2> QED BY <1>2, FillType
<1>4. fee \in Int
  <2> HIDE DEF price
  <2>1. offer.quantity \in Int /\ FeeUnits \in Int
    BY OfferType, UnitFacts
  <2> QED BY <1>3, <2>1, FeeType
<1>5. Filled(account, market.candle, ThisBar, offer)
        = [setup |-> setup, quantity |-> offer.quantity, price |-> price, fee |-> fee,
           entered |-> ThisBar, held |-> 0, funding |-> 0]
  BY DEF Filled
<1>6. offer.quantity \in Nat /\ ThisBar \in 0..MaxBar
  BY OfferType, BarTypes, MaxBarAssumption DEF Bars
<1> HIDE DEF setup, price, fee
<1> QED BY <1>1, <1>3, <1>4, <1>5, <1>6 DEF Position

(* The position held through the bar: the one there was, or a new one.      *)
LEMMA ThroughType ==
    ASSUME IInv, NEW offer \in Offer, market # NoBar
    PROVE  /\ Through(offer) \in Position
           /\ IsOpen(offer) => Through(offer).entered \in 1..ThisBar
           /\ Entering(offer) => /\ IsOpen(offer)
                                 /\ Through(offer).entered = ThisBar
                                 /\ Through(offer).funding = 0
                                 /\ account.status = "running"
                                 /\ account.position = NoPosition
           /\ ~Entering(offer) => /\ IsOpen(offer) <=> account.position.quantity # 0
                                  /\ Through(offer)
                                       = [account.position EXCEPT !.held = @ + 1]
<1> DEFINE filled == Filled(account, market.candle, ThisBar, offer)
<1>1. /\ filled \in Position
      /\ filled.entered = ThisBar
      /\ filled.funding = 0
      /\ filled.quantity = offer.quantity
  BY FilledType
<1>2. account.position \in Position /\ ThisBar \in Nat /\ ThisBar >= 1
  BY BarTypes DEF Bars
<1>3. CASE Entering(offer)
  <2>1. Through(offer) = [filled EXCEPT !.held = @ + 1]
    BY <1>3 DEF Entering, Through, Holding
  <2>2. offer.quantity # 0 /\ account.status = "running" /\ account.position.quantity = 0
    <3>1. StatusOf(account, market.candle, ThisBar, offer) = "triggered" /\ offer.quantity # 0
      BY <1>3 DEF Entering, Enters
    <3>2. Looks(account)
      BY <3>1 DEF StatusOf
    <3> QED BY <3>1, <3>2 DEF Looks
  <2>3. account.position = NoPosition
    BY <2>2 DEF IInv, PositionShape
  <2> HIDE DEF filled
  <2>4. /\ Through(offer) \in Position
        /\ Through(offer).entered = ThisBar
        /\ Through(offer).funding = 0
        /\ Through(offer).quantity # 0
    BY <1>1, <2>1, <2>2 DEF Position
  <2> QED BY <1>2, <1>3, <2>2, <2>3, <2>4 DEF IsOpen
<1>4. CASE ~Entering(offer)
  <2>1. Through(offer) = [account.position EXCEPT !.held = @ + 1]
    BY <1>4 DEF Entering, Through, Holding
  <2>2. /\ Through(offer) \in Position
        /\ Through(offer).quantity = account.position.quantity
        /\ Through(offer).entered = account.position.entered
    BY <1>2, <2>1 DEF Position
  <2>3. IsOpen(offer) <=> account.position.quantity # 0
    BY <2>2 DEF IsOpen
  <2>4. IsOpen(offer) => account.position.entered \in 1..ThisBar
    <3>1. account.last \in Nat
      BY MaxBarAssumption DEF IInv, TypeOK, Account
    <3> QED BY <1>2, <2>3, <3>1 DEF IInv, PositionShape, ThisBar
  <2> QED BY <1>4, <2>1, <2>2, <2>3, <2>4
<1> QED BY <1>3, <1>4

(* What the bar makes of it.                                                *)
LEMMA OutcomeType ==
    ASSUME IInv, NEW offer \in Offer, market # NoBar
    PROVE  /\ Outcome(offer).paid \in Int
           /\ Outcome(offer).fee \in Int
           /\ Outcome(offer).gross \in Int
           /\ Outcome(offer).closed \in BOOLEAN
           /\ Outcome(offer).liquidated \in BOOLEAN
           /\ Outcome(offer).liquidated => Outcome(offer).closed
           /\ Outcome(offer).closed => IsOpen(offer)
           /\ ~IsOpen(offer) => Outcome(offer).paid = 0
           /\ CashBefore(offer) \in Int
           /\ PositionOf(offer) \in Position
           /\ CashOf(offer) \in Int
           /\ EquityOf(offer) \in Int
<1>1. /\ Through(offer) \in Position
      /\ Through(offer).fee \in Int
      /\ account.cash \in Int
  <2>1. Through(offer) \in Position
    BY ThroughType
  <2> QED BY <2>1 DEF IInv, TypeOK, Account, Position
<1>2. CashBefore(offer) \in Int
  BY <1>1 DEF CashBefore
<1>3. /\ market.candle \in Candle
      /\ market.funding \in Funding
      /\ ThisBar \in Nat
  BY BarTypes DEF Bars
<1>4. /\ Outcome(offer).paid \in Int
      /\ Outcome(offer).fee \in Int
      /\ Outcome(offer).gross \in Int
      /\ Outcome(offer).closed \in BOOLEAN
      /\ Outcome(offer).liquidated \in BOOLEAN
      /\ Outcome(offer).liquidated => Outcome(offer).closed
      /\ Outcome(offer).closed => IsOpen(offer)
      /\ ~IsOpen(offer) => Outcome(offer).paid = 0
  <2>1. CASE IsOpen(offer)
    <3>1. Outcome(offer) = Settled(Through(offer), market.candle, ThisBar, market.funding,
                                   CashBefore(offer))
      BY <2>1 DEF Outcome
    <3> QED BY <1>1, <1>2, <1>3, <2>1, <3>1, SettledType
  <2>2. CASE ~IsOpen(offer)
    BY <2>2 DEF Outcome, Untouched
  <2> QED BY <2>1, <2>2
<1>5. NoPosition \in Position
  BY MaxBarAssumption DEF NoPosition, NoSetup, Position, Setup
<1>6. [Through(offer) EXCEPT !.funding = @ + Outcome(offer).paid] \in Position
  BY <1>1, <1>4 DEF Position
<1>7. PositionOf(offer) \in Position
  BY <1>5, <1>6 DEF PositionOf, PositionAfterBar
<1>8. CashOf(offer) \in Int
  BY <1>2, <1>4 DEF CashOf, CashAfter
<1>9. EquityOf(offer) \in Int
  <2>1. market.candle.close \in Int
    BY <1>3 DEF Candle
  <2>2. Pnl(PositionOf(offer), market.candle.close) \in Int
    BY <1>7, <2>1, PnlType
  <2> QED BY <1>8, <2>2 DEF EquityOf
<1> QED BY <1>2, <1>4, <1>7, <1>8, <1>9


(* The position after the bar is the one held through it, or none.          *)
LEMMA PositionKept ==
    ASSUME IInv, NEW offer \in Offer, market # NoBar
    PROVE  /\ IsOpen(offer) /\ ~Outcome(offer).closed
                => /\ PositionOf(offer).quantity # 0
                   /\ PositionOf(offer).entered = Through(offer).entered
                   /\ PositionOf(offer).fee = Through(offer).fee
                   /\ PositionOf(offer).funding = Through(offer).funding + Outcome(offer).paid
           /\ ~IsOpen(offer) \/ Outcome(offer).closed => PositionOf(offer) = NoPosition
<1>1. Through(offer) \in Position
  BY ThroughType
<1>2. CASE IsOpen(offer) /\ ~Outcome(offer).closed
  <2>1. PositionOf(offer) = [Through(offer) EXCEPT !.funding = @ + Outcome(offer).paid]
    BY <1>2 DEF PositionOf, PositionAfterBar
  <2> QED BY <1>1, <1>2, <2>1 DEF IsOpen, Position
<1>3. CASE ~IsOpen(offer) \/ Outcome(offer).closed
  BY <1>3 DEF PositionOf, PositionAfterBar
<1> QED BY <1>2, <1>3

-----------------------------------------------------------------------------
(* Every step keeps the accounts.                                           *)

(* A run starts with its balance and nothing booked.                        *)
LEMMA InitIInv == Init => IInv
<1> SUFFICES ASSUME Init PROVE IInv
  OBVIOUS
<1>1. TypeOK
  <2>1. NoBar \in [candle : Candles \cup {NoBar.candle}, funding : Funding]
    BY DEF NoBar, Funding
  <2>2. NoAccount \in Account
    BY AccountAssumption, MaxBarAssumption
    DEF NoAccount, Account, NoPosition, Position, NoSetup, Setup
  <2> QED BY <2>1, <2>2 DEF Init, TypeOK
<1>2. PositionShape
  BY DEF Init, PositionShape, NoAccount, NoPosition
<1>3. CashIsExplained /\ LedgerExplainsCash
  BY AccountAssumption DEF Init, CashIsExplained, LedgerExplainsCash, NoAccount, NoPosition
<1>4. Untraded
  BY DEF Init, Untraded, NoAccount
<1> QED BY <1>1, <1>2, <1>3, <1>4 DEF IInv

(* What creating, controlling and faulting a run leave alone.               *)
LEMMA MoneyKept ==
    ASSUME IInv, account' \in Account,
           account'.cash = account.cash, account'.realized = account.realized,
           account'.position = account.position, account'.last = account.last,
           account'.status # "absent",
           UNCHANGED <<market, events, ledger, booked>>
    PROVE  IInv'
BY DEF IInv, TypeOK, PositionShape, Untraded, CashIsExplained, LedgerExplainsCash

(* process_paper_bar keeps the accounts: one step per conjunct of IInv.    *)
LEMMA BarIInv ==
    ASSUME IInv, NEW offer \in Offer, Bar(offer)
    PROVE  IInv'
<1>1. market # NoBar
  BY BarEffect
<1>2. TypeOK'
  <2>1. market' \in [candle : Candles \cup {NoBar.candle}, funding : Funding]
    BY BarEffect DEF NoBar, Funding
  <2>2. account' \in Account
    <3>1. NoSetup \in Setup
      BY DEF NoSetup, Setup
    <3>2. PendingAfterBar(account, market.candle, ThisBar, offer) \in Setup
      BY <3>1, ConsideredType DEF PendingAfterBar, IInv, TypeOK, Account
    <3>3. NetOf(Through(offer), Outcome(offer)) \in Int
      <4>1. Through(offer).fee \in Int /\ Through(offer).funding \in Int
        BY <1>1, ThroughType DEF Position
      <4> QED BY <1>1, <4>1, OutcomeType DEF NetOf
    <3>4. Higher(account.peak, EquityOf(offer)) \in Int
      BY <1>1, OutcomeType DEF Higher, IInv, TypeOK, Account
    <3>5. ThisBar \in 0..MaxBar
      BY <1>1, BarTypes, MaxBarAssumption DEF Bars
    <3>6. account.realized + (IF Outcome(offer).closed
                              THEN NetOf(Through(offer), Outcome(offer)) ELSE 0) \in Int
      BY <3>3 DEF IInv, TypeOK, Account
    <3>7. account.status \in Statuses \cup {"absent"} /\ "faulted" \in Statuses
            /\ "stopped" \in Statuses
      BY DEF IInv, TypeOK, Account, Statuses
    <3>8. /\ PositionOf(offer) \in Position
          /\ CashOf(offer) \in Int
          /\ EquityOf(offer) \in Int
          /\ Outcome(offer).liquidated \in BOOLEAN
      BY <1>1, OutcomeType
    <3> QED BY <3>2, <3>4, <3>5, <3>6, <3>7, <3>8, BarEffect DEF Account
  <2>3. events' \subseteq Bars
    BY <1>1, BarEffect, BarTypes DEF IInv, TypeOK
  <2>4. ledger' \in [Bars -> {"none", "open", "closed"}]
    BY BarEffect DEF IInv, TypeOK
  <2>5. booked' \in [gross : Int, fees : Int, funding : Int, commissions : Int]
    <3>1. Through(offer).fee \in Int /\ Through(offer).funding \in Int
      BY <1>1, ThroughType DEF Position
    <3> QED BY <1>1, <3>1, OutcomeType, BarEffect DEF IInv, TypeOK
  <2> QED BY <2>1, <2>2, <2>3, <2>4, <2>5 DEF TypeOK
<1>3. PositionShape'
  <2>1. account'.position = PositionOf(offer) /\ account'.last = ThisBar /\ market' = NoBar
    BY BarEffect
  <2>2. CASE IsOpen(offer) /\ ~Outcome(offer).closed
    BY <1>1, <2>1, <2>2, PositionKept, ThroughType DEF PositionShape
  <2>3. CASE ~IsOpen(offer) \/ Outcome(offer).closed
    BY <1>1, <2>1, <2>3, PositionKept DEF PositionShape, NoPosition
  <2> QED BY <2>2, <2>3
<1>4. CashIsExplained' /\ LedgerExplainsCash'
  <2> DEFINE T == Through(offer)
             s == Outcome(offer)
  <2>1. /\ account.cash = StartCash + account.realized
                            + account.position.funding - account.position.fee
        /\ account.cash = StartCash + booked.gross - booked.commissions + booked.funding
                            + account.position.funding
    BY DEF IInv, CashIsExplained, LedgerExplainsCash
  <2>2. /\ account.cash \in Int /\ account.realized \in Int /\ StartCash \in Int
        /\ account.position.funding \in Int /\ account.position.fee \in Int
        /\ booked.gross \in Int /\ booked.commissions \in Int /\ booked.funding \in Int
        /\ T.fee \in Int /\ T.funding \in Int
        /\ s.paid \in Int /\ s.gross \in Int /\ s.fee \in Int
    BY <1>1, ThroughType, OutcomeType, AccountAssumption DEF IInv, TypeOK, Account, Position
  <2>3. /\ account'.cash = CashBefore(offer) + s.paid + (IF s.closed THEN s.gross - s.fee ELSE 0)
        /\ account'.realized = account.realized
             + (IF s.closed THEN s.gross - T.fee - s.fee + T.funding + s.paid ELSE 0)
        /\ account'.position = PositionOf(offer)
        /\ booked'.gross = booked.gross + (IF s.closed THEN s.gross ELSE 0)
        /\ booked'.funding = booked.funding + (IF s.closed THEN T.funding + s.paid ELSE 0)
        /\ booked'.commissions = booked.commissions + (IF Entering(offer) THEN T.fee ELSE 0)
                                                    + (IF s.closed THEN s.fee ELSE 0)
    BY BarEffect DEF CashOf, CashAfter, NetOf
  <2>4. /\ IsOpen(offer) /\ ~s.closed => /\ PositionOf(offer).fee = T.fee
                                         /\ PositionOf(offer).funding = T.funding + s.paid
        /\ ~IsOpen(offer) \/ s.closed => /\ PositionOf(offer).fee = 0
                                         /\ PositionOf(offer).funding = 0
    BY <1>1, PositionKept DEF NoPosition
  <2>5. /\ s.closed => IsOpen(offer)
        /\ ~IsOpen(offer) => s.paid = 0
    BY <1>1, OutcomeType
  <2>6. CASE Entering(offer)
    <3>1. /\ IsOpen(offer)
          /\ T.funding = 0
          /\ account.position.funding = 0
          /\ account.position.fee = 0
      BY <1>1, <2>6, ThroughType DEF NoPosition
    <3>2. CashBefore(offer) = account.cash - T.fee
      BY <2>6 DEF CashBefore
    <3> HIDE DEF T, s
    <3>3. CASE s.closed
      BY <2>1, <2>2, <2>3, <2>4, <2>5, <2>6, <3>1, <3>2, <3>3
      DEF CashIsExplained, LedgerExplainsCash
    <3>4. CASE ~s.closed
      BY <2>1, <2>2, <2>3, <2>4, <2>5, <2>6, <3>1, <3>2, <3>4
      DEF CashIsExplained, LedgerExplainsCash
    <3> QED BY <3>3, <3>4
  <2>7. CASE ~Entering(offer)
    <3>1. /\ T.funding = account.position.funding
          /\ T.fee = account.position.fee
          /\ IsOpen(offer) <=> account.position.quantity # 0
      BY <1>1, <2>7, ThroughType, BarTypes DEF Position
    <3>2. CashBefore(offer) = account.cash
      BY <2>7 DEF CashBefore
    <3>3. ~IsOpen(offer) => account.position.fee = 0 /\ account.position.funding = 0
      BY <3>1 DEF IInv, PositionShape, NoPosition
    <3> HIDE DEF T, s
    <3>4. CASE s.closed
      BY <2>1, <2>2, <2>3, <2>4, <2>5, <2>7, <3>1, <3>2, <3>4
      DEF CashIsExplained, LedgerExplainsCash
    <3>5. CASE ~s.closed /\ IsOpen(offer)
      BY <2>1, <2>2, <2>3, <2>4, <2>7, <3>1, <3>2, <3>5
      DEF CashIsExplained, LedgerExplainsCash
    <3>6. CASE ~IsOpen(offer)
      BY <2>1, <2>2, <2>3, <2>4, <2>5, <2>7, <3>2, <3>3, <3>6
      DEF CashIsExplained, LedgerExplainsCash
    <3> QED BY <3>4, <3>5, <3>6
  <2> QED BY <2>6, <2>7
<1>5. Untraded'
  BY BarEffect DEF Untraded, Processing
<1> QED BY <1>2, <1>3, <1>4, <1>5 DEF IInv


(* create_paper_run keeps the accounts.                                    *)
LEMMA CreateIInv == IInv /\ Create => IInv'
<1> SUFFICES ASSUME IInv, Create PROVE IInv'
  OBVIOUS
<1>1. account' = [account EXCEPT !.status = "paused"] /\ account \in Account
  BY DEF Create, IInv, TypeOK
<1>2. account' \in Account
  BY <1>1 DEF Account, Statuses, Processing
<1> QED BY <1>1, <1>2, MoneyKept DEF Create, Account

(* control_paper_run keeps the accounts.                                   *)
LEMMA ControlIInv ==
    ASSUME IInv, NEW action \in Actions, Control(action)
    PROVE  IInv'
<1>1. /\ account' = [account EXCEPT !.status = ControlStatus(RowOf(account), action),
                                    !.fault = action # "recover" /\ @,
                                    !.pending = NoSetup]
      /\ account \in Account
  BY DEF Control, IInv, TypeOK
<1>2. ControlStatus(RowOf(account), action) \in Statuses
  BY DEF ControlStatus, Statuses, Processing
<1>3. NoSetup \in Setup
  BY DEF NoSetup, Setup
<1>4. (action # "recover" /\ account.fault) \in BOOLEAN
  OBVIOUS
<1>5. account' \in Account
  BY <1>1, <1>2, <1>3, <1>4 DEF Account
<1>6. account'.status # "absent"
  BY <1>1, <1>2 DEF Account, Statuses, Processing
<1> QED BY <1>1, <1>5, <1>6, MoneyKept DEF Control, Account

(* fault_paper_run keeps the accounts.                                     *)
LEMMA FaultIInv == IInv /\ Fault => IInv'
<1> SUFFICES ASSUME IInv, Fault PROVE IInv'
  OBVIOUS
<1>1. /\ account' = [account EXCEPT !.status = "faulted", !.fault = TRUE, !.pending = NoSetup]
      /\ account \in Account
  BY DEF Fault, IInv, TypeOK
<1>2. NoSetup \in Setup
  BY DEF NoSetup, Setup
<1>3. account' \in Account /\ account'.status # "absent"
  BY <1>1, <1>2 DEF Account, Statuses
<1> QED BY <1>1, <1>3, MoneyKept DEF Fault, Account

(* The market keeps the accounts.                                          *)
LEMMA CloseBarIInv ==
    ASSUME IInv, NEW c \in Candles, NEW funding \in Funding, CloseBar(c, funding)
    PROVE  IInv'
BY DEF CloseBar, IInv, TypeOK, PositionShape, Untraded, CashIsExplained, LedgerExplainsCash

(* A bar is processed with one of the inputs it can have.                   *)
LEMMA BarOffer ==
    ASSUME NEW offer \in IF Looks(account) THEN Offer ELSE {NoOffer}
    PROVE  offer \in Offer
<1>1. NoOffer \in Offer
  BY DEF NoOffer, Offer
<1> QED BY <1>1

(* Every step keeps the accounts: one case per action of Next.             *)
LEMMA NextIInv == IInv /\ [Next]_vars => IInv'
<1> SUFFICES ASSUME IInv, [Next]_vars PROVE IInv'
  OBVIOUS
<1>1. CASE Create
  BY <1>1, CreateIInv
<1>2. CASE \E action \in Actions : Control(action)
  BY <1>2, ControlIInv
<1>3. CASE Fault
  BY <1>3, FaultIInv
<1>4. CASE \E c \in Candles, funding \in Funding : CloseBar(c, funding)
  BY <1>4, CloseBarIInv
<1>5. CASE \E offer \in IF Looks(account) THEN Offer ELSE {NoOffer} : Bar(offer)
  BY <1>5, BarOffer, BarIInv
<1>6. CASE UNCHANGED vars
  BY <1>6 DEF vars, IInv, TypeOK, PositionShape, Untraded, CashIsExplained, LedgerExplainsCash
<1> QED BY <1>1, <1>2, <1>3, <1>4, <1>5, <1>6 DEF Next

(* The invariant of every behavior, for all prices, fees and quantities.    *)
THEOREM Invariance == Spec => []IInv
BY InitIInv, NextIInv, PTL DEF Spec

(* TypeOK: the amounts stay whole numbers of ticks / Unit, the checkpoint   *)
(* and the entry bars stay within the bars there are.                       *)
THEOREM TypeCorrect == Spec => []TypeOK
<1>1. IInv => TypeOK
  BY DEF IInv
<1> QED BY Invariance, <1>1, PTL

(* CashIsExplained: over any sequence of entries, funding, exits and        *)
(* liquidations, the cash of the run is its balance, its realized result    *)
(* and what the open position has paid.                                     *)
THEOREM CashExplained == Spec => []CashIsExplained
<1>1. IInv => CashIsExplained
  BY DEF IInv
<1> QED BY Invariance, <1>1, PTL

(* LedgerExplainsCash: so do the trades and the fills of the ledger.        *)
THEOREM LedgerExplained == Spec => []LedgerExplainsCash
<1>1. IInv => LedgerExplainsCash
  BY DEF IInv
<1> QED BY Invariance, <1>1, PTL


-----------------------------------------------------------------------------
(* Funding and the stress test.                                             *)

(* The steps on which the checkpoint or the funding moves.                  *)
LEMMA OnlyBars ==
    ASSUME IInv, [Next]_vars,
           account'.last # account.last \/ FundingSoFar' # FundingSoFar
    PROVE  \E offer \in Offer : Bar(offer)
<1>1. ~(UNCHANGED vars)
  BY DEF vars, FundingSoFar
<1>2. ~Create
  BY DEF Create, FundingSoFar, IInv, TypeOK, Account
<1>3. ~ \E action \in Actions : Control(action)
  BY DEF Control, FundingSoFar, IInv, TypeOK, Account
<1>4. ~Fault
  BY DEF Fault, FundingSoFar, IInv, TypeOK, Account
<1>5. ~ \E c \in Candles, funding \in Funding : CloseBar(c, funding)
  BY DEF CloseBar, FundingSoFar
<1>6. \E offer \in IF Looks(account) THEN Offer ELSE {NoOffer} : Bar(offer)
  BY <1>1, <1>2, <1>3, <1>4, <1>5 DEF Next
<1> QED BY <1>6, BarOffer

(* A bar moves the funding of the run by what it settles.                   *)
LEMMA FundingMoves ==
    ASSUME IInv, NEW offer \in Offer, Bar(offer)
    PROVE  FundingSoFar' = FundingSoFar + Outcome(offer).paid
<1>1. market # NoBar
  BY BarEffect
<1>2. /\ booked.funding \in Int
      /\ account.position.funding \in Int
      /\ Through(offer).funding \in Int
      /\ Outcome(offer).paid \in Int
  BY <1>1, ThroughType, OutcomeType DEF IInv, TypeOK, Account, Position
<1>3. /\ booked'.funding = booked.funding + (IF Outcome(offer).closed
                             THEN Through(offer).funding + Outcome(offer).paid ELSE 0)
      /\ account'.position = PositionOf(offer)
  BY BarEffect
<1>4. IsOpen(offer) => Through(offer).funding = account.position.funding
  BY <1>1, ThroughType, BarTypes DEF NoPosition, Position
<1>5. ~IsOpen(offer) => account.position.funding = 0
  BY <1>1, ThroughType DEF NoPosition, IInv, PositionShape
<1>6. CASE Outcome(offer).closed
  <2>1. IsOpen(offer) /\ PositionOf(offer).funding = 0
    BY <1>1, <1>6, OutcomeType, PositionKept DEF NoPosition
  <2> QED BY <1>2, <1>3, <1>4, <1>6, <2>1 DEF FundingSoFar
<1>7. CASE ~Outcome(offer).closed /\ IsOpen(offer)
  <2>1. PositionOf(offer).funding = Through(offer).funding + Outcome(offer).paid
    BY <1>1, <1>7, PositionKept
  <2> QED BY <1>2, <1>3, <1>4, <1>7, <2>1 DEF FundingSoFar
<1>8. CASE ~Outcome(offer).closed /\ ~IsOpen(offer)
  <2>1. PositionOf(offer).funding = 0 /\ Outcome(offer).paid = 0
    BY <1>1, <1>8, PositionKept, OutcomeType DEF NoPosition
  <2> QED BY <1>2, <1>3, <1>5, <1>8, <2>1 DEF FundingSoFar
<1> QED BY <1>6, <1>7, <1>8

(* The stress test is monotone in the cash: who fails it fails it with less.*)
LEMMA LessCash ==
    ASSUME NEW position \in Position, NEW c \in Candle, NEW cash \in Int, NEW more \in Int,
           cash <= more, Liquidated(position, c, more)
    PROVE  Liquidated(position, c, cash)
<1> DEFINE worst == Worst(position.setup, c)
           pnl == Pnl(position, worst)
           needed == Fee(position.quantity, worst, MaintenanceUnits)
<1>1. worst \in Int /\ position.quantity \in Int
  BY DEF Worst, Position, Candle
<1>2. pnl \in Int /\ needed \in Int
  <2> HIDE DEF worst
  <2>1. pnl \in Int
    BY <1>1, PnlType
  <2>2. MaintenanceUnits \in Int
    BY UnitFacts
  <2>3. needed \in Int
    BY <1>1, <2>2, FeeType
  <2> QED BY <2>1, <2>3
<1>3. more + pnl <= needed
  BY DEF Liquidated
<1>4. cash + pnl <= needed
  <2> HIDE DEF pnl, needed
  <2> QED BY <1>2, <1>3
<1> QED BY <1>4 DEF Liquidated

(* A position held before the bar, on it.                                   *)
LEMMA HeldBefore ==
    ASSUME IInv, NEW offer \in Offer, Bar(offer), account.position.quantity # 0
    PROVE  /\ ~Entering(offer)
           /\ IsOpen(offer)
           /\ Through(offer) = [account.position EXCEPT !.held = @ + 1]
           /\ Through(offer).setup = account.position.setup
           /\ Through(offer).entered # ThisBar
           /\ CashBefore(offer) = account.cash
           /\ \A cash : Liquidated(Through(offer), market.candle, cash)
                          = Liquidated(account.position, market.candle, cash)
           /\ Outcome(offer) = Settled(Through(offer), market.candle, ThisBar, market.funding,
                                       account.cash)
<1>1. market # NoBar
  BY BarEffect
<1>2. ~Entering(offer)
  BY <1>1, ThroughType DEF NoPosition
<1>3. IsOpen(offer) /\ Through(offer) = [account.position EXCEPT !.held = @ + 1]
  BY <1>1, <1>2, ThroughType
<1>4. /\ Through(offer).setup = account.position.setup
      /\ Through(offer).quantity = account.position.quantity
      /\ Through(offer).price = account.position.price
      /\ Through(offer).entered = account.position.entered
  BY <1>1, <1>3, BarTypes DEF Position
<1>5. Through(offer).entered # ThisBar
  BY <1>1, <1>4, BarTypes DEF Position, Bars
<1>6. CashBefore(offer) = account.cash
  BY <1>2 DEF CashBefore
<1>7. \A cash : Liquidated(Through(offer), market.candle, cash)
                  = Liquidated(account.position, market.candle, cash)
  BY <1>4 DEF Liquidated, Pnl
<1>8. Outcome(offer) = Settled(Through(offer), market.candle, ThisBar, market.funding,
                               account.cash)
  BY <1>3, <1>6 DEF Outcome
<1> QED BY <1>2, <1>3, <1>4, <1>5, <1>6, <1>7, <1>8


(* CreditsNeverSave: the credit of a bar that fails the stress test without *)
(* it is in doubt, and so omitted; what remains of the funding is a debit,  *)
(* and with less cash the test fails all the more.                          *)
LEMMA StressHolds ==
    ASSUME IInv, [Next]_vars, account'.last # account.last, account.position.quantity # 0,
           Liquidated(account.position, market.candle, account.cash)
    PROVE  account'.status = "faulted" /\ account'.position = NoPosition
<1>1. PICK offer \in Offer : Bar(offer)
  BY OnlyBars
<1>2. market # NoBar
  BY <1>1, BarEffect
<1> DEFINE T == Through(offer)
           c == market.candle
           paid == Paid(T, c, ThisBar, market.funding, account.cash)
<1>3. T \in Position /\ c \in Candle /\ account.cash \in Int
  BY <1>2, ThroughType, BarTypes DEF IInv, TypeOK, Account
<1>4. Liquidated(T, c, account.cash)
  BY <1>1, HeldBefore
<1>5. /\ Outcome(offer).paid = paid
      /\ Outcome(offer).liquidated = Liquidated(T, c, account.cash + paid)
      /\ Outcome(offer).paid \in Int
  BY <1>1, <1>2, HeldBefore, OutcomeType DEF Settled
<1>6. paid <= 0
  <2>1. Ambiguous(T, c, ThisBar, account.cash)
    BY <1>4 DEF Ambiguous
  <2>2. paid = 0 \/ paid = Lower(0, FundingPayment(T, market.funding.pays))
    BY <2>1 DEF Paid
  <2> QED BY <1>5, <2>2 DEF Lower
<1>7. Liquidated(T, c, account.cash + paid)
  <2> HIDE DEF T, c, paid
  <2>1. account.cash + paid <= account.cash /\ account.cash + paid \in Int
    BY <1>3, <1>5, <1>6
  <2> QED BY <1>3, <1>4, <2>1, LessCash
<1>8. Outcome(offer).liquidated /\ Outcome(offer).closed
  BY <1>2, <1>5, <1>7, OutcomeType
<1> QED BY <1>1, <1>2, <1>8, BarEffect, PositionKept

(* NoCreditInDoubt: a bar that credits funding is not an ambiguous one.     *)
LEMMA CreditIsCertain ==
    ASSUME IInv, [Next]_vars, FundingSoFar' > FundingSoFar
    PROVE  /\ account.position.quantity # 0
           /\ ~StopHit(account.position.setup, market.candle)
           /\ ~TargetHit(account.position.setup, market.candle)
           /\ account'.status # "faulted"
<1>1. FundingSoFar \in Int
  BY DEF FundingSoFar, IInv, TypeOK, Account, Position
<1>2. FundingSoFar' # FundingSoFar
  BY <1>1
<1>3. PICK offer \in Offer : Bar(offer)
  BY <1>2, OnlyBars
<1>4. market # NoBar
  BY <1>3, BarEffect
<1>5. Outcome(offer).paid \in Int /\ Outcome(offer).paid > 0 /\ IsOpen(offer)
  BY <1>1, <1>3, <1>4, FundingMoves, OutcomeType
<1> DEFINE T == Through(offer)
           c == market.candle
           cash == CashBefore(offer)
<1>6. /\ T \in Position /\ c \in Candle /\ cash \in Int
      /\ Outcome(offer) = Settled(T, c, ThisBar, market.funding, cash)
  BY <1>4, <1>5, ThroughType, BarTypes, OutcomeType DEF Outcome
<1>7. ~Ambiguous(T, c, ThisBar, cash)
  <2>1. Outcome(offer).paid = Paid(T, c, ThisBar, market.funding, cash)
    BY <1>6 DEF Settled
  <2>2. SUFFICES ASSUME Ambiguous(T, c, ThisBar, cash) PROVE FALSE
    OBVIOUS
  <2>3. \/ Outcome(offer).paid = 0
        \/ Outcome(offer).paid = Lower(0, FundingPayment(T, market.funding.pays))
    BY <2>1, <2>2 DEF Paid
  <2> QED BY <1>5, <2>3 DEF Lower
<1>8. T.entered # ThisBar /\ ExitOf(T, c, ThisBar).reason \notin {"stop", "target"}
      /\ ~Liquidated(T, c, cash)
  BY <1>7 DEF Ambiguous
<1>9. account.position.quantity # 0 /\ T.setup = account.position.setup
  <2>1. ~Entering(offer)
    BY <1>4, <1>8, ThroughType
  <2>2. account.position.quantity # 0
    BY <1>4, <1>5, <2>1, ThroughType
  <2> QED BY <1>3, <2>2, HeldBefore
<1>10. ~StopHit(T.setup, c) /\ ~TargetHit(T.setup, c)
  BY <1>8 DEF ExitOf, Exit
<1>11. ~Outcome(offer).liquidated
  <2>1. SUFFICES ASSUME Outcome(offer).liquidated PROVE FALSE
    OBVIOUS
  <2>2. Liquidated(T, c, cash + Outcome(offer).paid)
    BY <1>6, <2>1 DEF Settled
  <2>3. cash <= cash + Outcome(offer).paid /\ cash + Outcome(offer).paid \in Int
    BY <1>5, <1>6
  <2> HIDE DEF T, c, cash
  <2> QED BY <1>6, <1>8, <2>2, <2>3, LessCash
<1>12. account'.status # "faulted"
  BY <1>3, <1>11, BarEffect DEF Processing
<1> QED BY <1>9, <1>10, <1>12

(* CreditsNeverSave, of every behavior and for every rate.                  *)
THEOREM StressFirst == Spec => CreditsNeverSave
<1>1. IInv /\ [Next]_vars
        => [account'.last # account.last /\ account.position.quantity # 0
              /\ Liquidated(account.position, market.candle, account.cash)
            => account'.status = "faulted" /\ account'.position = NoPosition]_vars
  BY StressHolds
<1> QED BY Invariance, <1>1, PTL DEF Spec, CreditsNeverSave

(* NoCreditInDoubt, of every behavior and for every rate.                   *)
THEOREM CreditsAreCertain == Spec => NoCreditInDoubt
<1>1. IInv /\ [Next]_vars
        => [FundingSoFar' > FundingSoFar
              => /\ account.position.quantity # 0
                 /\ ~StopHit(account.position.setup, market.candle)
                 /\ ~TargetHit(account.position.setup, market.candle)
                 /\ account'.status # "faulted"]_vars
  BY CreditIsCertain
<1> QED BY Invariance, <1>1, PTL DEF Spec, NoCreditInDoubt


-----------------------------------------------------------------------------
(* The stop comes first.                                                    *)

(* Rounding down to ticks loses less than a tick.                          *)
LEMMA DivFacts ==
    ASSUME NEW x \in Int
    PROVE  /\ x \div Unit \in Int
           /\ Unit * (x \div Unit) <= x
           /\ x < Unit * (x \div Unit) + Unit
BY UnitFacts

(* Rounding arithmetic: less than one unit over is not over.               *)
LEMMA Cancel ==
    ASSUME NEW u \in Int, u > 0, NEW x \in Int, NEW y \in Int, u * x < u * y + u
    PROVE  x <= y
<1>1. SUFFICES ASSUME x >= y + 1 PROVE FALSE
  OBVIOUS
<1>2. u * (x - (y + 1)) >= 0
  BY <1>1
<1>3. u * (x - (y + 1)) = u * x - u * y - u
  OBVIOUS
<1>4. u * x \in Int /\ u * y \in Int
  OBVIOUS
<1> QED BY <1>2, <1>3, <1>4

(* A common factor that is not negative keeps the order.                   *)
LEMMA Scale ==
    ASSUME NEW k \in Int, k >= 0, NEW x \in Int, NEW y \in Int, x <= y
    PROVE  k * x <= k * y
OBVIOUS

(* An adverse fill is no better than the price it was asked for.            *)
LEMMA FillsAreAdverse ==
    ASSUME NEW price \in Nat
    PROVE  /\ AdverseFill(price, TRUE) >= price
           /\ AdverseFill(price, FALSE) <= price
<1>1. /\ Unit \in Int /\ Unit > 0
      /\ SlipUnits \in Int /\ SlipUnits >= 0
  BY RulesAssumption
<1>2. AdverseFill(price, TRUE) >= price
  <2> DEFINE x == price * (Unit + SlipUnits) + Unit - 1
             y == x \div Unit
  <2>1. x \in Int /\ x >= Unit * price + Unit - 1
    <3>1. price * (Unit + SlipUnits) = Unit * price + price * SlipUnits
      BY <1>1
    <3>2. price * SlipUnits >= 0
      BY <1>1
    <3> QED BY <1>1, <3>1, <3>2
  <2>2. y \in Int /\ x < Unit * y + Unit
    <3> HIDE DEF x
    <3> QED BY <2>1, DivFacts
  <2>3. Unit * price < Unit * y + Unit
    <3> HIDE DEF x, y
    <3>1. Unit * price \in Int /\ Unit * y \in Int
      BY <1>1, <2>2
    <3>2. x + 1 >= Unit * price + Unit
      BY <1>1, <2>1, <3>1
    <3> QED BY <1>1, <2>1, <2>2, <3>1, <3>2
  <2>4. price <= y
    <3> HIDE DEF y
    <3> QED BY <1>1, <2>2, <2>3, Cancel
  <2> QED BY <2>2, <2>4 DEF AdverseFill
<1>3. AdverseFill(price, FALSE) <= price
  <2> DEFINE x == price * (Unit - SlipUnits)
             y == x \div Unit
  <2>1. x \in Int /\ x <= Unit * price
    <3>1. x = Unit * price - price * SlipUnits
      BY <1>1
    <3>2. price * SlipUnits >= 0 /\ price * SlipUnits \in Int /\ Unit * price \in Int
      BY <1>1
    <3> HIDE DEF x
    <3> QED BY <3>1, <3>2
  <2>2. y \in Int /\ Unit * y <= x
    <3> HIDE DEF x
    <3> QED BY <2>1, DivFacts
  <2>3. Unit * y < Unit * price + Unit
    <3> HIDE DEF x, y
    <3>1. Unit * price \in Int /\ Unit * y \in Int
      BY <1>1, <2>2
    <3> QED BY <1>1, <2>1, <2>2, <3>1
  <2>4. y <= price
    <3> HIDE DEF y
    <3> QED BY <1>1, <2>2, <2>3, Cancel
  <2> QED BY <2>2, <2>4 DEF AdverseFill
<1> QED BY <1>2, <1>3

(* The result of a position at a worse price is no better.                  *)
LEMMA PnlMonotone ==
    ASSUME NEW position \in Position, NEW x \in Int, NEW y \in Int,
           IF position.setup.long THEN x <= y ELSE x >= y
    PROVE  Pnl(position, x) <= Pnl(position, y)
<1> DEFINE k == Unit * position.quantity
<1>1. position.quantity \in Nat /\ position.price \in Int /\ position.setup.long \in BOOLEAN
  BY DEF Position, Setup
<1>2. k \in Int /\ k >= 0
  BY <1>1, UnitFacts
<1>3. CASE position.setup.long
  <2>1. /\ Pnl(position, x) = k * (x - position.price)
        /\ Pnl(position, y) = k * (y - position.price)
    BY <1>3 DEF Pnl
  <2> HIDE DEF k
  <2>2. x - position.price <= y - position.price
        /\ x - position.price \in Int /\ y - position.price \in Int
    BY <1>1, <1>3
  <2> QED BY <1>2, <2>1, <2>2, Scale
<1>4. CASE ~position.setup.long
  <2>1. /\ Pnl(position, x) = k * (position.price - x)
        /\ Pnl(position, y) = k * (position.price - y)
    BY <1>4 DEF Pnl
  <2> HIDE DEF k
  <2>2. position.price - x <= position.price - y
        /\ position.price - x \in Int /\ position.price - y \in Int
    BY <1>1, <1>4
  <2> QED BY <1>2, <2>1, <2>2, Scale
<1> QED BY <1>1, <1>3, <1>4


(* A position from an earlier bar leaves on a bar that reaches its stop, at *)
(* a price no better than the stop.                                         *)
LEMMA StopTaken ==
    ASSUME IInv, [Next]_vars, account'.last # account.last, account.position.quantity # 0,
           StopHit(account.position.setup, market.candle)
    PROVE  /\ account'.position = NoPosition
           /\ booked'.gross - booked.gross
                <= Pnl(account.position, account.position.setup.stop)
<1>1. PICK offer \in Offer : Bar(offer)
  BY OnlyBars
<1>2. market # NoBar
  BY <1>1, BarEffect
<1> DEFINE T == Through(offer)
           c == market.candle
           setup == account.position.setup
           long == setup.long
           asked == IF Outcome(offer).liquidated THEN Worst(setup, c)
                    ELSE StopPrice(setup, c, FALSE)
           fill == AdverseFill(asked, ~long)
<1>3. /\ account.position \in Position /\ setup \in Setup /\ c \in Candle
      /\ long \in BOOLEAN /\ setup.stop \in Nat
  BY <1>2, BarTypes DEF Position, Setup
<1>4. ExitOf(T, c, ThisBar) = [reason |-> "stop", price |-> StopPrice(setup, c, FALSE)]
  <2>1. T.setup = setup /\ (T.entered = ThisBar) = FALSE
    BY <1>1, HeldBefore
  <2> HIDE DEF T, c, setup
  <2>2. StopHit(setup, c)
    BY DEF setup, c
  <2> QED BY <2>1, <2>2 DEF ExitOf, Exit
<1>5. /\ Outcome(offer).closed
      /\ Outcome(offer).gross = Gross(T, asked)
  <2>1. Outcome(offer) = Settled(T, c, ThisBar, market.funding, account.cash)
    BY <1>1, HeldBefore
  <2>2. T.setup = setup
    BY <1>1, HeldBefore
  <2>3. Outcome(offer).closed
    <3>1. ExitOf(T, c, ThisBar).reason # "none"
      BY <1>4
    <3> DEFINE s == Settled(T, c, ThisBar, market.funding, account.cash)
    <3>2. s.closed = (s.liquidated \/ ExitOf(T, c, ThisBar).reason # "none")
      BY DEF Settled
    <3>3. s.closed \in BOOLEAN /\ s.liquidated \in BOOLEAN
      BY <1>2, <2>1, OutcomeType
    <3>4. s.closed
      <4> HIDE DEF s, T, c
      <4> QED BY <3>1, <3>2, <3>3
    <3> QED BY <2>1, <3>4
  <2>4. Outcome(offer).gross = Gross(T, IF Outcome(offer).liquidated THEN Worst(T.setup, c)
                                        ELSE ExitOf(T, c, ThisBar).price)
    BY <2>1 DEF Settled
  <2> HIDE DEF T, c, setup
  <2> QED BY <1>4, <2>2, <2>3, <2>4
<1>6. Gross(T, asked) = Pnl(account.position, fill)
  <2>1. /\ T.setup = setup
        /\ T.quantity = account.position.quantity
        /\ T.price = account.position.price
    BY <1>1, <1>3, HeldBefore DEF Position
  <2> HIDE DEF T, asked
  <2> QED BY <2>1 DEF Gross, ExitFill, Pnl
<1>7. asked \in Nat /\ IF long THEN asked <= setup.stop ELSE asked >= setup.stop
  <2>1. /\ c.low \in Nat /\ c.high \in Nat /\ c.open \in Nat
        /\ IF long THEN c.low <= setup.stop ELSE c.high >= setup.stop
    BY <1>3 DEF Candle, StopHit
  <2> HIDE DEF c, setup
  <2> QED BY <1>3, <2>1 DEF Worst, StopPrice, Lower, Higher
<1>8. fill \in Int /\ IF long THEN fill <= setup.stop ELSE fill >= setup.stop
  <2>1. CASE long
    <3>1. fill = AdverseFill(asked, FALSE)
      BY <2>1
    <3> HIDE DEF asked, setup, fill
    <3>2. AdverseFill(asked, FALSE) \in Int /\ AdverseFill(asked, FALSE) <= asked
      <4>1. asked \in Nat /\ asked \in Int /\ FALSE \in BOOLEAN
        BY <1>7
      <4>2. AdverseFill(asked, FALSE) \in Int
        BY <4>1, FillType
      <4>3. AdverseFill(asked, FALSE) <= asked
        BY <4>1, FillsAreAdverse
      <4> QED BY <4>2, <4>3
    <3>3. fill \in Int /\ fill <= asked
      BY <3>1, <3>2
    <3> QED BY <1>3, <1>7, <2>1, <3>3
  <2>2. CASE ~long
    <3>1. fill = AdverseFill(asked, TRUE)
      BY <2>2
    <3> HIDE DEF asked, setup, fill
    <3>2. AdverseFill(asked, TRUE) \in Int /\ AdverseFill(asked, TRUE) >= asked
      <4>1. asked \in Nat /\ asked \in Int /\ TRUE \in BOOLEAN
        BY <1>7
      <4>2. AdverseFill(asked, TRUE) \in Int
        BY <4>1, FillType
      <4>3. AdverseFill(asked, TRUE) >= asked
        BY <4>1, FillsAreAdverse
      <4> QED BY <4>2, <4>3
    <3>3. fill \in Int /\ fill >= asked
      BY <3>1, <3>2
    <3> QED BY <1>3, <1>7, <2>2, <3>3
  <2> QED BY <1>3, <2>1, <2>2
<1>9. Pnl(account.position, fill) <= Pnl(account.position, setup.stop)
  <2> HIDE DEF fill
  <2> QED BY <1>3, <1>8, PnlMonotone
<1>10. booked'.gross = booked.gross + Outcome(offer).gross
  <2>1. booked'.gross = booked.gross + (IF Outcome(offer).closed
                                        THEN Outcome(offer).gross ELSE 0)
    BY <1>1, BarEffect
  <2>2. Outcome(offer).closed
    BY <1>5
  <2> HIDE DEF T, c, asked, fill
  <2> QED BY <2>1, <2>2
<1>11. booked.gross \in Int /\ Outcome(offer).gross \in Int
  BY <1>2, OutcomeType DEF IInv, TypeOK
<1>12. account'.position = NoPosition
  BY <1>1, <1>2, <1>5, BarEffect, PositionKept
<1>13. booked'.gross - booked.gross = Pnl(account.position, fill)
  <2> HIDE DEF T, asked, fill
  <2> QED BY <1>5, <1>6, <1>10, <1>11
<1> QED BY <1>9, <1>12, <1>13

(* StopsComeFirst, of every behavior and for every candle.                  *)
THEOREM StopsAreTaken == Spec => StopsComeFirst
<1>1. IInv /\ [Next]_vars
        => [account'.last # account.last /\ account.position.quantity # 0
              /\ StopHit(account.position.setup, market.candle)
            => /\ account'.position = NoPosition
               /\ booked'.gross - booked.gross
                    <= Pnl(account.position, account.position.setup.stop)]_vars
  BY StopTaken
<1> QED BY Invariance, <1>1, PTL DEF Spec, StopsComeFirst


-----------------------------------------------------------------------------
(* The accounts implement the lifecycle.                                    *)

(* PaperLifecycle reads the operators of PaperRow as PaperWorker does.      *)
LEMMA SameRows ==
    /\ LC!NoRow = NoRow
    /\ LC!Bars = Bars
    /\ LC!Outcomes = Outcomes
    /\ LC!Processing = Processing
    /\ LC!Actions = Actions
    /\ \A row : LC!HoldsSlot(row) <=> HoldsSlot(row)
    /\ \A start : LC!CreatedRow(start) = CreatedRow(start)
    /\ \A row, action : LC!ControlAllowed(row, action) <=> ControlAllowed(row, action)
    /\ \A row, action : LC!ControlledRow(row, action) = ControlledRow(row, action)
    /\ \A row : LC!FaultedRow(row) = FaultedRow(row)
    /\ \A row, b : LC!IsNextBar(row, b) <=> IsNextBar(row, b)
    /\ \A row, o, late : LC!Possible(row, o, late) <=> Possible(row, o, late)
    /\ \A row, b, o : LC!ProcessedRow(row, b, o) = ProcessedRow(row, b, o)
<1>1. LC!Processing = Processing /\ LC!Statuses = Statuses
  BY DEF Processing, LC!Processing, Statuses, LC!Statuses
<1>2. \A row : LC!LooksForEntry(row) <=> LooksForEntry(row)
  BY DEF LC!LooksForEntry, LooksForEntry
<1>3. \A row, b, o : LC!PositionAfter(row, b, o) = PositionAfter(row, b, o)
  BY DEF LC!PositionAfter, PositionAfter, LC!Held, Held
<1>4. \A row, b, o : LC!StatusAfter(row, b, o) = StatusAfter(row, b, o)
  BY <1>3 DEF LC!StatusAfter, StatusAfter
<1>5. /\ LC!NoRow = NoRow
      /\ LC!Bars = Bars
      /\ LC!Outcomes = Outcomes
      /\ LC!Actions = Actions
  BY DEF LC!NoRow, NoRow, LC!Bars, Bars, LC!Outcomes, Outcomes, LC!Actions, Actions
<1>6. \A row : LC!HoldsSlot(row) <=> HoldsSlot(row)
  BY DEF LC!HoldsSlot, HoldsSlot
<1>7. \A start : LC!CreatedRow(start) = CreatedRow(start)
  BY <1>5 DEF LC!CreatedRow, CreatedRow
<1>8. \A row, action : LC!ControlAllowed(row, action) <=> ControlAllowed(row, action)
  BY <1>1 DEF LC!ControlAllowed, ControlAllowed
<1>9. \A row, action : LC!ControlStatus(row, action) = ControlStatus(row, action)
  BY DEF LC!ControlStatus, ControlStatus
<1>10. \A row, action : LC!ControlledRow(row, action) = ControlledRow(row, action)
  BY <1>9 DEF LC!ControlledRow, ControlledRow
<1>11. \A row : LC!FaultedRow(row) = FaultedRow(row)
  BY <1>1 DEF LC!FaultedRow, FaultedRow
<1>12. \A row, b : LC!IsNextBar(row, b) <=> IsNextBar(row, b)
  BY DEF LC!IsNextBar, IsNextBar
<1>13. \A row, o, late : LC!Possible(row, o, late) <=> Possible(row, o, late)
  BY <1>2 DEF LC!Possible, Possible
<1>14. \A row, b, o : LC!ProcessedRow(row, b, o) = ProcessedRow(row, b, o)
  BY <1>2, <1>3, <1>4 DEF LC!ProcessedRow, ProcessedRow
<1> QED BY <1>1, <1>5, <1>6, <1>7, <1>8, <1>10, <1>11, <1>12, <1>13, <1>14


(* The outcome, in the sense of PaperRow, a bar of the accounts has.        *)
OutcomeOf(offer) ==
    [enter |-> IF Entering(offer) THEN TRUE ELSE FALSE,
     pend |-> IF Looks(account) THEN PendingAfterBar(account, market.candle, ThisBar, offer)
                                       # NoSetup
              ELSE FALSE,
     exit |-> IF Outcome(offer).liquidated THEN "liquidation"
              ELSE IF Outcome(offer).closed THEN "exit" ELSE "none"]

(* An open position is one with an entry bar.                               *)
LEMMA EntryBars ==
    ASSUME IInv
    PROVE  /\ account.position.quantity = 0 <=> account.position.entered = 0
           /\ Looks(account) <=> LooksForEntry(RowOf(account))
<1>1. account.last \in Nat
  BY MaxBarAssumption DEF IInv, TypeOK, Account
<1>2. account.position.quantity = 0 => account.position.entered = 0
  BY DEF IInv, PositionShape, NoPosition
<1>3. account.position.quantity # 0 => account.position.entered # 0
  BY <1>1 DEF IInv, PositionShape
<1> QED BY <1>2, <1>3 DEF Looks, LooksForEntry, RowOf

(* That outcome is one the lifecycle allows in the state of the run.       *)
LEMMA OutcomePossible ==
    ASSUME IInv, NEW offer \in Offer, Bar(offer)
    PROVE  /\ OutcomeOf(offer) \in Outcomes
           /\ Possible(RowOf(account), OutcomeOf(offer), FALSE)
<1>1. market # NoBar
  BY BarEffect
<1>2. OutcomeOf(offer) \in Outcomes
  BY DEF OutcomeOf, Outcomes
<1>3. OutcomeOf(offer).enter => LooksForEntry(RowOf(account))
  BY <1>1, ThroughType DEF OutcomeOf, LooksForEntry, RowOf, NoPosition
<1>4. OutcomeOf(offer).pend => LooksForEntry(RowOf(account)) /\ ~OutcomeOf(offer).enter
  <2>1. SUFFICES ASSUME OutcomeOf(offer).pend
                 PROVE  LooksForEntry(RowOf(account)) /\ ~OutcomeOf(offer).enter
    OBVIOUS
  <2>2. Looks(account)
    BY <2>1 DEF OutcomeOf
  <2>3. PendingAfterBar(account, market.candle, ThisBar, offer) # NoSetup
    BY <2>1, <2>2 DEF OutcomeOf
  <2>4. StatusOf(account, market.candle, ThisBar, offer) = "pending"
    BY <2>2, <2>3 DEF PendingAfterBar
  <2>5. ~Entering(offer)
    BY <2>4 DEF Entering, Enters
  <2> QED BY <2>2, <2>5, EntryBars DEF OutcomeOf
<1>5. OutcomeOf(offer).exit # "none" => RowOf(account).position # 0 \/ OutcomeOf(offer).enter
  <2>1. SUFFICES ASSUME OutcomeOf(offer).exit # "none", ~OutcomeOf(offer).enter
                 PROVE  RowOf(account).position # 0
    OBVIOUS
  <2>2. Outcome(offer).closed /\ ~Entering(offer)
    BY <1>1, <2>1, OutcomeType DEF OutcomeOf
  <2>3. account.position.quantity # 0
    BY <1>1, <2>2, OutcomeType, ThroughType
  <2> QED BY <2>3, EntryBars DEF RowOf
<1> QED BY <1>2, <1>3, <1>4, <1>5 DEF Possible

(* The row and the ledger after a bar are those of that outcome.            *)
LEMMA BarImplements ==
    ASSUME IInv, NEW offer \in Offer, Bar(offer)
    PROVE  /\ RowOf(account)' = ProcessedRow(RowOf(account), ThisBar, OutcomeOf(offer))
           /\ ledger' = [c \in Bars |->
                           IF c # Held(RowOf(account), ThisBar, OutcomeOf(offer)) THEN ledger[c]
                           ELSE IF OutcomeOf(offer).exit = "none" THEN "open" ELSE "closed"]
<1> DEFINE row == RowOf(account)
           o == OutcomeOf(offer)
<1>1. market # NoBar
  BY BarEffect
<1>2. /\ Outcome(offer).liquidated => Outcome(offer).closed
      /\ Outcome(offer).closed => IsOpen(offer)
      /\ Outcome(offer).liquidated \in BOOLEAN
  BY <1>1, OutcomeType
<1>3. /\ o.exit = "none" <=> ~Outcome(offer).closed
      /\ o.exit = "liquidation" <=> Outcome(offer).liquidated
      /\ o.enter <=> Entering(offer)
  BY <1>2 DEF OutcomeOf
<1>4. ThisBar \in Bars /\ ThisBar # 0 /\ 0 \notin Bars
  BY <1>1, BarTypes DEF Bars
<1>5. /\ IsOpen(offer) => Held(row, ThisBar, o) = Through(offer).entered
                          /\ Held(row, ThisBar, o) # 0
      /\ ~IsOpen(offer) => Held(row, ThisBar, o) = 0
  <2>1. CASE Entering(offer)
    BY <1>1, <1>3, <1>4, <2>1, ThroughType DEF Held
  <2>2. CASE ~Entering(offer)
    <3>1. Held(row, ThisBar, o) = account.position.entered
      BY <1>3, <2>2 DEF Held, RowOf
    <3>2. Through(offer).entered = account.position.entered
      BY <1>1, <2>2, ThroughType, BarTypes DEF Position
    <3> QED BY <1>1, <2>2, <3>1, <3>2, ThroughType, EntryBars
  <2> QED BY <2>1, <2>2
<1>6. PositionOf(offer).entered = PositionAfter(row, ThisBar, o)
  <2>1. CASE IsOpen(offer) /\ ~Outcome(offer).closed
    BY <1>1, <1>3, <1>5, <2>1, PositionKept DEF PositionAfter
  <2>2. CASE Outcome(offer).closed
    BY <1>1, <1>3, <2>2, PositionKept DEF PositionAfter, NoPosition
  <2>3. CASE ~IsOpen(offer)
    BY <1>1, <1>2, <1>3, <1>5, <2>3, PositionKept DEF PositionAfter, NoPosition
  <2> QED BY <2>1, <2>2, <2>3
<1>7. PositionOf(offer).quantity = 0 <=> PositionAfter(row, ThisBar, o) = 0
  <2>1. CASE IsOpen(offer) /\ ~Outcome(offer).closed
    BY <1>1, <1>3, <1>5, <2>1, PositionKept DEF PositionAfter
  <2>2. CASE ~IsOpen(offer) \/ Outcome(offer).closed
    BY <1>1, <1>6, <2>2, PositionKept DEF NoPosition
  <2> QED BY <2>1, <2>2
<1>8. ledger' = [c \in Bars |-> IF c # Held(row, ThisBar, o) THEN ledger[c]
                                ELSE IF o.exit = "none" THEN "open" ELSE "closed"]
  <2>1. ledger' = [d \in Bars |-> IF IsOpen(offer) /\ d = Through(offer).entered
                                  THEN IF Outcome(offer).closed THEN "closed" ELSE "open"
                                  ELSE ledger[d]]
    BY BarEffect
  <2> HIDE DEF row, o
  <2>2. CASE IsOpen(offer)
    BY <1>3, <1>5, <2>1, <2>2
  <2>3. CASE ~IsOpen(offer)
    BY <1>4, <1>5, <2>1, <2>3
  <2> QED BY <2>2, <2>3
<1>9. account'.status = StatusAfter(row, ThisBar, o)
  <2>1. account'.status = IF Outcome(offer).liquidated THEN "faulted"
                          ELSE IF account.status = "stopping" /\ PositionOf(offer).quantity = 0
                          THEN "stopped" ELSE account.status
    BY BarEffect
  <2>2. row.status = account.status
    BY DEF RowOf
  <2> HIDE DEF row, o
  <2> QED BY <1>3, <1>7, <2>1, <2>2 DEF StatusAfter
<1>10. (account'.pending # NoSetup) = IF LooksForEntry(row) THEN o.pend ELSE row.pending
  <2>1. account'.pending = PendingAfterBar(account, market.candle, ThisBar, offer)
    BY BarEffect
  <2>2. CASE Looks(account)
    <3>1. o.pend = (PendingAfterBar(account, market.candle, ThisBar, offer) # NoSetup)
      BY <2>2 DEF OutcomeOf
    <3>2. LooksForEntry(row)
      BY <2>2, EntryBars
    <3> HIDE DEF row, o
    <3> QED BY <2>1, <3>1, <3>2
  <2>3. CASE ~Looks(account)
    <3>1. PendingAfterBar(account, market.candle, ThisBar, offer) = account.pending
      BY <2>3 DEF PendingAfterBar
    <3>2. ~LooksForEntry(row) /\ row.pending = (account.pending # NoSetup)
      BY <2>3, EntryBars DEF RowOf
    <3> HIDE DEF row, o
    <3> QED BY <2>1, <3>1, <3>2
  <2> QED BY <2>2, <2>3
<1>11. account'.fault = (o.exit = "liquidation")
  <2>1. account'.fault = Outcome(offer).liquidated
    BY BarEffect
  <2> HIDE DEF o
  <2> QED BY <1>2, <1>3, <2>1
<1>12. account'.last = ThisBar /\ account'.position.entered = PositionAfter(row, ThisBar, o)
  BY <1>6, BarEffect
<1>13. RowOf(account)' = [status |-> account'.status, last |-> account'.last,
                          pending |-> account'.pending # NoSetup,
                          position |-> account'.position.entered, fault |-> account'.fault]
  BY DEF RowOf
<1>14. RowOf(account)' = ProcessedRow(row, ThisBar, o)
  <2> HIDE DEF row, o
  <2> QED BY <1>9, <1>10, <1>11, <1>12, <1>13 DEF ProcessedRow
<1> QED BY <1>8, <1>14


(* The row of an account is one of paper_runs.                              *)
LEMMA RowOfType ==
    ASSUME NEW a \in Account
    PROVE  RowOf(a) \in Row
<1>1. a.position.entered \in 0..MaxBar
  BY DEF Account, Position
<1> QED BY <1>1 DEF Account, RowOf, Row

(* Every step of the accounts is one of PaperLifecycle, or changes nothing  *)
(* it sees.                                                                 *)
LEMMA StepImplements ==
    ASSUME IInv, [Next]_vars
    PROVE  LC!Next \/ UNCHANGED LC!vars
<1>1. ASSUME UNCHANGED <<account, events, ledger>> PROVE UNCHANGED LC!vars
  BY <1>1 DEF LC!vars, RowOf
<1>2. CASE UNCHANGED vars \/ \E c \in Candles, funding \in Funding : CloseBar(c, funding)
  BY <1>1, <1>2 DEF vars, CloseBar
<1>3. CASE Create
  <2>1. RowOf(account).status = "absent" /\ ~HoldsSlot(RowOf(account))
    BY <1>3 DEF Create, RowOf, HoldsSlot
  <2>2. RowOf(account)' = CreatedRow(0)
    <3>1. /\ account' = [account EXCEPT !.status = "paused"]
          /\ account \in Account
          /\ account.last = 0 /\ account.pending = NoSetup /\ account.position = NoPosition
          /\ account.fault = FALSE
      BY <1>3 DEF Create, IInv, TypeOK, Untraded
    <3>2. /\ account'.status = "paused" /\ account'.last = 0 /\ account'.pending = NoSetup
          /\ account'.position.entered = 0 /\ account'.fault = FALSE
      BY <3>1 DEF Account, NoPosition
    <3>3. /\ RowOf(account)' \in Row /\ CreatedRow(0) \in Row
      <4>1. account' \in Account
        BY <1>3, CreateIInv DEF IInv, TypeOK
      <4>2. RowOf(account)' = RowOf(account')
        BY DEF RowOf
      <4> QED BY <4>1, <4>2, RowOfType, RowTypes, MaxBarAssumption
    <3>4. /\ CreatedRow(0).status = "paused" /\ CreatedRow(0).last = 0
          /\ CreatedRow(0).pending = FALSE /\ CreatedRow(0).position = 0
          /\ CreatedRow(0).fault = FALSE
      <4>1. NoRow \in Row
        BY RowTypes
      <4>2. CreatedRow(0) = [NoRow EXCEPT !.status = "paused", !.last = 0]
        BY DEF CreatedRow
      <4>3. NoRow.pending = FALSE /\ NoRow.position = 0 /\ NoRow.fault = FALSE
        BY DEF NoRow
      <4> QED BY <4>1, <4>2, <4>3 DEF Row
    <3> QED BY <3>2, <3>3, <3>4, RowFields DEF RowOf
  <2>3. LC!Create("run", 0)
    BY <1>3, <2>1, <2>2, SameRows DEF Create, LC!Create
  <2>4. 0 \in 0..MaxBar
    BY MaxBarAssumption
  <2> QED BY <2>3, <2>4 DEF LC!Next
<1>4. ASSUME NEW action \in Actions, Control(action) PROVE LC!Next
  <2>1. ControlAllowed(RowOf(account), action)
    BY <1>4 DEF Control
  <2>2. RowOf(account)' = ControlledRow(RowOf(account), action)
    <3>1. account \in Account
      BY DEF IInv, TypeOK
    <3>2. account' = [account EXCEPT
                        !.status = ControlStatus(RowOf(account), action),
                        !.fault = action # "recover" /\ @, !.pending = NoSetup]
      BY <1>4 DEF Control
    <3>3. /\ account'.status = ControlStatus(RowOf(account), action)
          /\ account'.fault = (action # "recover" /\ account.fault)
          /\ account'.pending = NoSetup
          /\ account'.last = account.last
          /\ account'.position = account.position
      BY <3>1, <3>2 DEF Account
    <3>4. /\ RowOf(account) \in Row
          /\ RowOf(account)' \in Row
      <4>1. account' \in Account
        BY <1>4, ControlIInv DEF IInv, TypeOK
      <4>2. RowOf(account)' = RowOf(account')
        BY DEF RowOf
      <4> QED BY <3>1, <4>1, <4>2, RowOfType
    <3>5. /\ ControlledRow(RowOf(account), action) \in Row
          /\ ControlledRow(RowOf(account), action)
               = [RowOf(account) EXCEPT !.status = ControlStatus(RowOf(account), action),
                                        !.fault = action # "recover" /\ @, !.pending = FALSE]
      BY <1>4, <3>4, RowTypes DEF ControlledRow
    <3>6. LET row == ControlledRow(RowOf(account), action)
          IN  /\ row.status = ControlStatus(RowOf(account), action)
              /\ row.fault = (action # "recover" /\ RowOf(account).fault)
              /\ row.pending = FALSE
              /\ row.last = RowOf(account).last
              /\ row.position = RowOf(account).position
      BY <3>4, <3>5 DEF Row
    <3>7. /\ RowOf(account)'.status = account'.status
          /\ RowOf(account)'.fault = account'.fault
          /\ RowOf(account)'.pending = (account'.pending # NoSetup)
          /\ RowOf(account)'.last = account'.last
          /\ RowOf(account)'.position = account'.position.entered
          /\ RowOf(account).fault = account.fault
          /\ RowOf(account).last = account.last
          /\ RowOf(account).position = account.position.entered
      BY DEF RowOf
    <3>8. /\ RowOf(account)'.status = ControlledRow(RowOf(account), action).status
          /\ RowOf(account)'.last = ControlledRow(RowOf(account), action).last
          /\ RowOf(account)'.position = ControlledRow(RowOf(account), action).position
      BY <3>3, <3>6, <3>7
    <3>9. RowOf(account)'.pending = ControlledRow(RowOf(account), action).pending
      BY <3>3, <3>6, <3>7
    <3>10. RowOf(account)'.fault = ControlledRow(RowOf(account), action).fault
      BY <3>3, <3>6, <3>7
    <3> QED BY <3>4, <3>5, <3>8, <3>9, <3>10, RowFields
  <2>3. LC!Control("run", action)
    BY <1>4, <2>1, <2>2, SameRows DEF Control, LC!Control
  <2> QED BY <2>3, SameRows DEF LC!Next
<1>5. CASE Fault
  <2>1. RowOf(account).status \in Processing
    BY <1>5 DEF Fault, RowOf
  <2>2. RowOf(account)' = FaultedRow(RowOf(account))
    <3>1. account \in Account
      BY DEF IInv, TypeOK
    <3> QED BY <1>5, <2>1, <3>1 DEF Fault, RowOf, FaultedRow, Account
  <2>3. LC!Fault("run")
    BY <1>5, <2>1, <2>2, SameRows DEF Fault, LC!Fault
  <2> QED BY <2>3 DEF LC!Next
<1>6. ASSUME NEW offer \in Offer, Bar(offer) PROVE LC!Next
  <2> DEFINE o == OutcomeOf(offer)
             row == RowOf(account)
  <2>1. /\ o \in Outcomes
        /\ Possible(row, o, FALSE)
        /\ ThisBar \in Bars
        /\ row.status \in Processing
    BY <1>6, OutcomePossible, BarTypes, BarEffect DEF RowOf
  <2>2. IsNextBar(row, ThisBar)
    BY DEF IsNextBar, RowOf, ThisBar
  <2>3. /\ row' = ProcessedRow(row, ThisBar, o)
        /\ events' = events \cup {ThisBar}
        /\ ledger' = LC!LedgerAfter(ledger, row, ThisBar, o)
    <3>1. LC!Held(row, ThisBar, o) = Held(row, ThisBar, o)
      BY DEF LC!Held, Held
    <3> QED BY <1>6, <3>1, BarImplements, BarEffect, SameRows DEF LC!LedgerAfter
  <2>4. LC!Process("run", ThisBar, o)
    <3>1. row' = RowOf(account)'
      OBVIOUS
    <3> HIDE DEF o
    <3> QED BY <2>1, <2>2, <2>3, SameRows DEF LC!Process
  <2> QED BY <2>1, <2>4, SameRows DEF LC!Next
<1> QED BY <1>2, <1>3, <1>4, <1>5, <1>6, BarOffer DEF Next

(* Lifecycle: whatever the prices, the rates and the fees, a bar has one of *)
(* the outcomes the lifecycle allows, so that those PaperWorker chooses     *)
(* from contain every one the arithmetic can produce.                       *)
THEOREM Implements == Spec => Lifecycle
<1>1. Init => LC!Init
  <2>1. SUFFICES ASSUME Init PROVE LC!Init
    OBVIOUS
  <2>2. RowOf(account) = NoRow
    BY <2>1 DEF Init, NoAccount, NoPosition, RowOf, NoRow
  <2>3. events = {} /\ ledger = [b \in Bars |-> "none"]
    BY <2>1 DEF Init
  <2> QED BY <2>2, <2>3, SameRows DEF LC!Init, LC!NoPositions
<1>2. IInv /\ [Next]_vars => [LC!Next]_LC!vars
  BY StepImplements
<1> QED BY <1>1, <1>2, Invariance, PTL DEF Spec, LC!Spec, Lifecycle

-----------------------------------------------------------------------------
(* The research engine on the same bars.                                    *)

(* The rules both read a bar by are the same, and so is what is nothing.    *)
LEMMA SameRules ==
    /\ \A s, c, held, entered :
         Research!Exit(s, c, held, entered) = Exit(s, c, held, entered)
    /\ \A s, c, b : Research!EntryStatus(s, c, b) = EntryStatus(s, c, b)
    /\ \A s, c : /\ Research!EntryPrice(s, c) = EntryPrice(s, c)
                 /\ Research!Worst(s, c) = Worst(s, c)
    /\ \A p, b : Research!AdverseFill(p, b) = AdverseFill(p, b)
    /\ \A q, p, u : Research!Fee(q, p, u) = Fee(q, p, u)
    /\ \A p, x : /\ Research!Pnl(p, x) = Pnl(p, x)
                 /\ Research!Gross(p, x) = Gross(p, x)
                 /\ Research!FundingPayment(p, x) = FundingPayment(p, x)
    /\ \A p, x, l : Research!ExitFee(p, x, l) = ExitFee(p, x, l)
    /\ \A p, c, x : Research!Liquidated(p, c, x) = Liquidated(p, c, x)
    /\ \A x, y : Research!Lower(x, y) = Lower(x, y) /\ Research!Higher(x, y) = Higher(x, y)
    /\ Research!NoOpen = NoPosition
    /\ Research!NoBar = NoBar
BY Zenon DEF Research!Exit, Exit, Research!EntryStatus, EntryStatus, Research!EntryPrice,
       EntryPrice, Research!Worst, Worst, Research!AdverseFill, AdverseFill, Research!Fee, Fee,
       Research!Pnl, Pnl, Research!Gross, Gross, Research!FundingPayment, FundingPayment,
       Research!ExitFee, ExitFee, Research!ExitFill, ExitFill, Research!Liquidated, Liquidated,
       Research!Lower, Lower, Research!Higher, Higher, Research!StopHit, StopHit,
       Research!TargetHit, TargetHit, Research!StopPrice, StopPrice, Research!Triggered,
       Triggered, Research!NoOpen, NoPosition, Research!NoBar, NoBar

(* Two positions that are the same but for the funding they have paid.      *)
SameTrade(p, q) ==
    /\ p.setup = q.setup
    /\ p.quantity = q.quantity
    /\ p.price = q.price
    /\ p.fee = q.fee
    /\ p.entered = q.entered
    /\ p.held = q.held

(* The rules do not look at that funding.                                   *)
LEMMA Twins ==
    ASSUME NEW p, NEW q, SameTrade(p, q)
    PROVE  /\ \A x : /\ Pnl(p, x) = Pnl(q, x)
                     /\ Gross(p, x) = Gross(q, x)
                     /\ FundingPayment(p, x) = FundingPayment(q, x)
           /\ \A x, l : ExitFee(p, x, l) = ExitFee(q, x, l)
           /\ \A c, x : Liquidated(p, c, x) = Liquidated(q, c, x)
           /\ \A c, b : ExitOf(p, c, b) = ExitOf(q, c, b)
BY DEF SameTrade, Pnl, Gross, ExitFill, FundingPayment, ExitFee, Liquidated, ExitOf

(* What SameBook says of the two positions.                                 *)
LEMMA ButForFunding ==
    ASSUME NEW p \in Position, NEW q \in Position, SameTrade(p, q)
    PROVE  [p EXCEPT !.funding = 0] = [q EXCEPT !.funding = 0]
BY DEF Position, SameTrade

-----------------------------------------------------------------------------
(* One iteration of the loop, in the terms of the bar above.                *)

Opening == Research!OpeningPayment(market.funding)
Opens(offer) == Research!Opens(market.candle, sim.bar + 1, offer)
Carried == [sim.open EXCEPT !.funding = @ + Opening]
SimThrough(offer) ==
    [(IF Opens(offer) THEN Research!Opened(market.candle, sim.bar + 1, offer) ELSE Carried)
        EXCEPT !.held = @ + 1]
SimIsOpen(offer) == SimThrough(offer).quantity # 0
SimCash(offer) == sim.cash + Opening - (IF Opens(offer) THEN SimThrough(offer).fee ELSE 0)
SimOutcome(offer) ==
    IF SimIsOpen(offer)
    THEN Research!Through(SimThrough(offer), market.candle, sim.bar + 1, market.funding,
                          SimCash(offer))
    ELSE Untouched
SimPosition(offer) ==
    IF SimIsOpen(offer) /\ ~SimOutcome(offer).closed
    THEN [SimThrough(offer) EXCEPT !.funding = @ + SimOutcome(offer).paid] ELSE NoPosition
SimCashAfter(offer) ==
    SimCash(offer) + SimOutcome(offer).paid
      + (IF SimOutcome(offer).closed THEN SimOutcome(offer).gross - SimOutcome(offer).fee ELSE 0)
SimEquity(offer) == SimCashAfter(offer) + Pnl(SimPosition(offer), market.candle.close)
Marked == sim.cash + Opening + Pnl(Carried, market.candle.open)

(* Research!Iterate, in these terms, of an engine that has not run dry.     *)
LEMMA IterateEffect ==
    ASSUME NEW offer, Research!Iterate(offer), Research!Occupied \/ ~(sim.cash <= 0)
    PROVE  /\ ~sim.halted
           /\ sim' =
                [bar |-> sim.bar + 1,
                 cash |-> SimCashAfter(offer),
                 peak |-> Higher(Higher(sim.peak, Marked), SimEquity(offer)),
                 equity |-> SimEquity(offer),
                 realized |-> sim.realized
                    + (IF SimOutcome(offer).closed
                       THEN SimOutcome(offer).gross - SimThrough(offer).fee
                              - SimOutcome(offer).fee + SimThrough(offer).funding
                              + SimOutcome(offer).paid
                       ELSE 0),
                 pending |-> Research!PendingAfter(market.candle, sim.bar + 1, offer),
                 open |-> SimPosition(offer),
                 halted |-> SimOutcome(offer).liquidated \/ SimCashAfter(offer) <= 0]
<1> DEFINE r ==
             [bar |-> sim.bar + 1,
              cash |-> SimCashAfter(offer),
              peak |-> Higher(Higher(sim.peak, Marked), SimEquity(offer)),
              equity |-> SimEquity(offer),
              realized |-> sim.realized
                 + (IF SimOutcome(offer).closed
                    THEN SimOutcome(offer).gross - SimThrough(offer).fee
                           - SimOutcome(offer).fee + SimThrough(offer).funding
                           + SimOutcome(offer).paid
                    ELSE 0),
              pending |-> Research!PendingAfter(market.candle, sim.bar + 1, offer),
              open |-> SimPosition(offer),
              halted |-> SimOutcome(offer).liquidated \/ SimCashAfter(offer) <= 0]
<1>1. /\ ~sim.halted
      /\ IF ~Research!Occupied /\ sim.cash <= 0 THEN sim' = [sim EXCEPT !.halted = TRUE]
         ELSE sim' = r
  BY Zenon DEF Research!Iterate, Opening, Opens, Carried, SimThrough, SimIsOpen, SimCash,
       SimOutcome, SimPosition, SimCashAfter, SimEquity, Marked, Untouched, Research!Higher,
       Higher, Research!Lower, Lower, Research!Pnl, Pnl, Research!NoOpen, NoPosition
<1> HIDE DEF r
<1>2. sim' = r
  BY <1>1
<1> QED BY <1>1, <1>2 DEF r

(* A rate is a whole amount.                                                *)
LEMMA FundingRate ==
    ASSUME NEW funding \in Funding
    PROVE  /\ funding.pays \in Int
           /\ funding.at \in {"open", "inside", "never"}
<1>1. CASE funding \in [at : {"open", "inside"}, pays : Rates]
  BY <1>1, AccountAssumption
<1>2. CASE funding = [at |-> "never", pays |-> 0]
  BY <1>2
<1> QED BY <1>1, <1>2 DEF Funding

-----------------------------------------------------------------------------
(* What holds of a run beside the research engine: they are at the same     *)
(* bar; until the run is liquidated they wait for the same setup and hold   *)
(* the same trade, the run with no more cash; and a research engine that    *)
(* stopped with cash left was liquidated, and the run with it.              *)
Sim == [bar : 0..MaxBar, cash : Int, peak : Int, equity : Int, realized : Int,
        pending : Setup, open : Position, halted : BOOLEAN]

Joined ==
    /\ sim \in Sim
    /\ InStep
    /\ account.status \in {"absent", "paused", "running", "faulted"}
    /\ account.status \in {"absent", "paused"} => account.pending = NoSetup /\ market = NoBar
    /\ sim.halted /\ sim.cash > 0 => account.status = "faulted"
    /\ ~sim.halted => sim.cash > 0
    /\ account.status # "faulted" =>
         /\ account.pending = sim.pending
         /\ SameTrade(account.position, sim.open)
         /\ account.cash <= sim.cash
         /\ account.equity <= sim.equity

JointIInv == IInv /\ (sim = Alone \/ Joined)

(* A bar both process: the run is running, and looks for an entry exactly   *)
(* when the research engine does.                                           *)
LEMMA BothLook ==
    ASSUME IInv, Joined, account.status \in Processing, market # NoBar
    PROVE  /\ account.status = "running"
           /\ sim.bar + 1 = ThisBar
           /\ account.pending = sim.pending
           /\ SameTrade(account.position, sim.open)
           /\ account.cash <= sim.cash
           /\ Looks(account) <=> ~Research!Occupied
<1>1. account.status = "running" /\ sim.bar = account.last
  BY DEF Joined, InStep, Processing
<1>2. SameTrade(account.position, sim.open)
  BY <1>1 DEF Joined
<1> QED BY <1>1, <1>2 DEF Joined, ThisBar, Looks, Research!Occupied, SameTrade

(* Both consider the same setup, at the same price, and make the same of it.*)
LEMMA SameConsidered ==
    ASSUME IInv, Joined, account.status \in Processing, market # NoBar, NEW offer
    PROVE  /\ Research!Considered(ThisBar, offer) = Considered(account, ThisBar, offer)
           /\ Research!EntryOf(market.candle, ThisBar, offer)
                = StatusOf(account, market.candle, ThisBar, offer)
           /\ Research!Opened(market.candle, ThisBar, offer)
                = Filled(account, market.candle, ThisBar, offer)
           /\ Research!PendingAfter(market.candle, ThisBar, offer)
                = PendingAfterBar(account, market.candle, ThisBar, offer)
<1>1. Research!Considered(ThisBar, offer) = Considered(account, ThisBar, offer)
  BY BothLook DEF Research!Considered, Considered
<1>2. Research!EntryOf(market.candle, ThisBar, offer)
        = StatusOf(account, market.candle, ThisBar, offer)
  BY <1>1, BothLook, SameRules DEF Research!EntryOf, StatusOf
<1>3. Research!Opened(market.candle, ThisBar, offer)
        = Filled(account, market.candle, ThisBar, offer)
  BY <1>1, SameRules DEF Research!Opened, Filled
<1>4. Research!PendingAfter(market.candle, ThisBar, offer)
        = PendingAfterBar(account, market.candle, ThisBar, offer)
  BY <1>1, <1>2, BothLook DEF Research!PendingAfter, PendingAfterBar
<1> QED BY <1>1, <1>2, <1>3, <1>4

(* The position through the bar is the same trade.                          *)
LEMMA SameThrough ==
    ASSUME IInv, Joined, account.status \in Processing, market # NoBar,
           NEW offer \in Offer, SameEntry(offer)
    PROVE  /\ Entering(offer) <=> Opens(offer)
           /\ SimThrough(offer) \in Position
           /\ SameTrade(Through(offer), SimThrough(offer))
           /\ IsOpen(offer) <=> SimIsOpen(offer)
           /\ Opening \in Int
           /\ SimCash(offer) \in Int
           /\ Entering(offer) => Opening = 0
           /\ CashBefore(offer) + Opening <= SimCash(offer)
<1>1. Entering(offer) <=> Opens(offer)
  BY BothLook DEF SameEntry, Entering, Opens, ThisBar
<1>2. /\ sim.open \in Position
      /\ sim.cash \in Int
      /\ account.cash \in Int
      /\ account.cash <= sim.cash
      /\ SameTrade(account.position, sim.open)
      /\ account.position \in Position
  BY BothLook, BarTypes DEF Joined, Sim, IInv, TypeOK, Account
<1>3. Opening \in Int
  <2>1. market.funding \in Funding
    BY BarTypes
  <2>2. market.funding.pays \in Int
    BY <2>1, FundingRate
  <2>3. FundingPayment(sim.open, market.funding.pays) \in Int
    BY <1>2, <2>2, FundingType
  <2> QED BY <2>3, SameRules DEF Opening, Research!OpeningPayment
<1>4. Carried \in Position /\ SameTrade(account.position, Carried)
  BY <1>2, <1>3 DEF Carried, Position, SameTrade
<1>5. CASE Entering(offer)
  <2> DEFINE filled == Filled(account, market.candle, ThisBar, offer)
  <2>1. filled \in Position
    BY FilledType
  <2>2. Research!Opened(market.candle, sim.bar + 1, offer) = filled
    BY BothLook, SameConsidered
  <2>3. /\ Through(offer) = [filled EXCEPT !.held = @ + 1]
        /\ SimThrough(offer) = [filled EXCEPT !.held = @ + 1]
    BY <1>1, <1>5, <2>2 DEF Entering, Through, Holding, SimThrough
  <2> HIDE DEF filled
  <2>4. /\ SimThrough(offer) \in Position
        /\ SameTrade(Through(offer), SimThrough(offer))
        /\ Through(offer).fee = SimThrough(offer).fee
        /\ SimThrough(offer).fee \in Int
    BY <2>1, <2>3 DEF Position, SameTrade
  <2>5. Opening = 0
    <3>1. Looks(account)
      BY <1>5 DEF Entering, Enters, StatusOf
    <3> QED BY <3>1, BothLook DEF Opening, Research!OpeningPayment
  <2>6. /\ CashBefore(offer) = account.cash - SimThrough(offer).fee
        /\ SimCash(offer) = sim.cash + Opening - SimThrough(offer).fee
    BY <1>1, <1>5, <2>4 DEF CashBefore, SimCash
  <2> QED BY <1>1, <1>2, <1>3, <2>4, <2>5, <2>6 DEF IsOpen, SimIsOpen, SameTrade
<1>6. CASE ~Entering(offer)
  <2>1. /\ Through(offer) = [account.position EXCEPT !.held = @ + 1]
        /\ SimThrough(offer) = [Carried EXCEPT !.held = @ + 1]
    BY <1>1, <1>6 DEF Entering, Through, Holding, SimThrough
  <2>2. /\ SimThrough(offer) \in Position
        /\ SameTrade(Through(offer), SimThrough(offer))
    BY <1>2, <1>4, <2>1 DEF Position, SameTrade
  <2>3. CashBefore(offer) = account.cash /\ SimCash(offer) = sim.cash + Opening - 0
    BY <1>1, <1>6 DEF CashBefore, SimCash
  <2> QED BY <1>1, <1>2, <1>3, <1>6, <2>2, <2>3 DEF IsOpen, SimIsOpen, SameTrade
<1> QED BY <1>5, <1>6

(* What the research engine settles of the trade of the run.                *)
SimAmount(offer) ==
    IF market.funding.at = "inside" THEN FundingPayment(Through(offer), market.funding.pays) ELSE 0
SimAmbiguous(offer) ==
    \/ Through(offer).entered = ThisBar
    \/ ExitOf(Through(offer), market.candle, ThisBar).reason \in {"stop", "target"}
    \/ Liquidated(Through(offer), market.candle, SimCash(offer))
PriceOf(offer, liquidated) ==
    IF liquidated THEN Worst(Through(offer).setup, market.candle)
    ELSE ExitOf(Through(offer), market.candle, ThisBar).price

(* Research!Through of the trade, told of the trade of the run.             *)
LEMMA SimSettled ==
    ASSUME IInv, Joined, account.status \in Processing, market # NoBar,
           NEW offer \in Offer, SameEntry(offer), IsOpen(offer)
    PROVE  LET t == SimOutcome(offer)
           IN  /\ t.paid = IF SimAmbiguous(offer) THEN Lower(0, SimAmount(offer))
                           ELSE SimAmount(offer)
               /\ t.liquidated = Liquidated(Through(offer), market.candle,
                                            SimCash(offer) + t.paid)
               /\ t.closed = (t.liquidated
                                \/ ExitOf(Through(offer), market.candle, ThisBar).reason # "none")
               /\ t.fee = ExitFee(Through(offer), PriceOf(offer, t.liquidated), t.liquidated)
               /\ t.gross = Gross(Through(offer), PriceOf(offer, t.liquidated))
<1> DEFINE p == Through(offer)
           q == SimThrough(offer)
           c == market.candle
           cash == SimCash(offer)
           t == Research!Through(q, c, ThisBar, market.funding, cash)
<1>1. SameTrade(p, q) /\ SimIsOpen(offer)
  BY SameThrough
<1>2. SimOutcome(offer) = t
  BY <1>1, BothLook DEF SimOutcome
<1>3. /\ Research!Exit(q.setup, c, q.held, q.entered = ThisBar) = ExitOf(p, c, ThisBar)
      /\ q.entered = p.entered
      /\ Research!FundingPayment(q, market.funding.pays)
           = FundingPayment(p, market.funding.pays)
      /\ Research!Worst(q.setup, c) = Worst(p.setup, c)
  <2>1. /\ Research!Exit(q.setup, c, q.held, q.entered = ThisBar) = ExitOf(q, c, ThisBar)
        /\ Research!FundingPayment(q, market.funding.pays)
             = FundingPayment(q, market.funding.pays)
        /\ Research!Worst(q.setup, c) = Worst(q.setup, c)
    BY SameRules DEF ExitOf
  <2>2. /\ ExitOf(q, c, ThisBar) = ExitOf(p, c, ThisBar)
        /\ FundingPayment(q, market.funding.pays) = FundingPayment(p, market.funding.pays)
    BY <1>1, Twins
  <2>3. q.entered = p.entered /\ q.setup = p.setup
    BY <1>1 DEF SameTrade
  <2> HIDE DEF p, q, c
  <2> QED BY <2>1, <2>2, <2>3
<1>4. /\ \A x : Research!Liquidated(q, c, x) = Liquidated(p, c, x)
      /\ \A x, l : Research!ExitFee(q, x, l) = ExitFee(p, x, l)
      /\ \A x : Research!Gross(q, x) = Gross(p, x)
  BY <1>1, SameRules, Twins
<1>5. \A x : Research!Lower(0, x) = Lower(0, x)
  BY SameRules
<1>6. /\ t.paid = IF \/ q.entered = ThisBar
                     \/ Research!Exit(q.setup, c, q.held, q.entered = ThisBar).reason
                          \in {"stop", "target"}
                     \/ Research!Liquidated(q, c, cash)
                  THEN Research!Lower(0, IF market.funding.at = "inside"
                              THEN Research!FundingPayment(q, market.funding.pays) ELSE 0)
                  ELSE IF market.funding.at = "inside"
                       THEN Research!FundingPayment(q, market.funding.pays) ELSE 0
      /\ t.liquidated = Research!Liquidated(q, c, cash + t.paid)
      /\ t.closed = (t.liquidated
           \/ Research!Exit(q.setup, c, q.held, q.entered = ThisBar).reason # "none")
      /\ t.fee = Research!ExitFee(q, IF t.liquidated THEN Research!Worst(q.setup, c)
                    ELSE Research!Exit(q.setup, c, q.held, q.entered = ThisBar).price,
                    t.liquidated)
      /\ t.gross = Research!Gross(q, IF t.liquidated THEN Research!Worst(q.setup, c)
                    ELSE Research!Exit(q.setup, c, q.held, q.entered = ThisBar).price)
  BY DEF Research!Through
<1> HIDE DEF t
<1>7. t.paid = IF SimAmbiguous(offer) THEN Lower(0, SimAmount(offer)) ELSE SimAmount(offer)
  BY <1>3, <1>4, <1>5, <1>6 DEF SimAmbiguous, SimAmount
<1>8. /\ t.liquidated = Liquidated(p, c, cash + t.paid)
      /\ t.closed = (t.liquidated \/ ExitOf(p, c, ThisBar).reason # "none")
  BY <1>3, <1>4, <1>6
<1>9. /\ t.fee = ExitFee(p, PriceOf(offer, t.liquidated), t.liquidated)
      /\ t.gross = Gross(p, PriceOf(offer, t.liquidated))
  BY <1>3, <1>4, <1>6 DEF PriceOf
<1> QED BY <1>2, <1>7, <1>8, <1>9

(* What the run does to it.                                                 *)
LEMMA RunSettled ==
    ASSUME NEW offer, IsOpen(offer)
    PROVE  LET s == Outcome(offer)
           IN  /\ s.paid = Paid(Through(offer), market.candle, ThisBar, market.funding,
                                CashBefore(offer))
               /\ s.liquidated = Liquidated(Through(offer), market.candle,
                                            CashBefore(offer) + s.paid)
               /\ s.closed = (s.liquidated
                                \/ ExitOf(Through(offer), market.candle, ThisBar).reason # "none")
               /\ s.fee = ExitFee(Through(offer), PriceOf(offer, s.liquidated), s.liquidated)
               /\ s.gross = Gross(Through(offer), PriceOf(offer, s.liquidated))
BY DEF Outcome, Settled, PriceOf

(* The types of both.                                                       *)
LEMMA SettledAmounts ==
    ASSUME IInv, Joined, account.status \in Processing, market # NoBar,
           NEW offer \in Offer, SameEntry(offer), IsOpen(offer)
    PROVE  /\ SimAmount(offer) \in Int
           /\ \A l \in BOOLEAN : /\ PriceOf(offer, l) \in Int
                                 /\ ExitFee(Through(offer), PriceOf(offer, l), l) \in Int
                                 /\ Gross(Through(offer), PriceOf(offer, l)) \in Int
           /\ SimOutcome(offer).paid \in Int
           /\ SimOutcome(offer).liquidated \in BOOLEAN
           /\ SimOutcome(offer).closed \in BOOLEAN
           /\ SimOutcome(offer).fee \in Int
           /\ SimOutcome(offer).gross \in Int
<1>1. /\ Through(offer) \in Position
      /\ market.candle \in Candle
      /\ market.funding.pays \in Int
      /\ SimCash(offer) \in Int
  BY ThroughType, BarTypes, FundingRate, SameThrough
<1>2. SimAmount(offer) \in Int
  <2>1. FundingPayment(Through(offer), market.funding.pays) \in Int
    BY <1>1, FundingType
  <2> QED BY <2>1 DEF SimAmount
<1>3. ASSUME NEW l \in BOOLEAN
      PROVE  /\ PriceOf(offer, l) \in Int
             /\ ExitFee(Through(offer), PriceOf(offer, l), l) \in Int
             /\ Gross(Through(offer), PriceOf(offer, l)) \in Int
  <2>1. PriceOf(offer, l) \in Int
    <3>1. /\ Through(offer).setup \in Setup
          /\ Through(offer).held \in Nat
          /\ (Through(offer).entered = ThisBar) \in BOOLEAN
      BY <1>1 DEF Position
    <3> QED BY <1>1, <3>1, ExitType DEF PriceOf, ExitOf
  <2>2. ExitFill(Through(offer), PriceOf(offer, l)) \in Int
    <3>1. (~Through(offer).setup.long) \in BOOLEAN
      OBVIOUS
    <3> QED BY <2>1, <3>1, FillType DEF ExitFill
  <2>3. ExitFee(Through(offer), PriceOf(offer, l), l) \in Int
    <3>1. FeeUnits + (IF l THEN LiquidationUnits ELSE 0) \in Int
      BY UnitFacts
    <3>2. Through(offer).quantity \in Int
      BY <1>1 DEF Position
    <3> QED BY <2>2, <3>1, <3>2, FeeType DEF ExitFee
  <2>4. Gross(Through(offer), PriceOf(offer, l)) \in Int
    BY <1>1, <2>2, PnlType DEF Gross
  <2> QED BY <2>1, <2>3, <2>4
<1>4. SimOutcome(offer).paid \in Int
  BY <1>2, SimSettled DEF Lower
<1>5. SimOutcome(offer).liquidated \in BOOLEAN
  <2>1. SimCash(offer) + SimOutcome(offer).paid \in Int
    BY <1>1, <1>4
  <2>2. SimOutcome(offer).liquidated
          = Liquidated(Through(offer), market.candle, SimCash(offer) + SimOutcome(offer).paid)
    BY SimSettled
  <2> QED BY <1>1, <2>1, <2>2, LiquidatedType
<1>6. SimOutcome(offer).closed \in BOOLEAN
  <2>1. SimOutcome(offer).closed
          = (SimOutcome(offer).liquidated
               \/ ExitOf(Through(offer), market.candle, ThisBar).reason # "none")
    BY SimSettled
  <2> QED BY <2>1, Zenon
<1>7. SimOutcome(offer).fee \in Int /\ SimOutcome(offer).gross \in Int
  BY <1>3, <1>5, SimSettled
<1> QED BY <1>2, <1>3, <1>4, <1>5, <1>6, <1>7

(* The run is paid no more, and is liquidated if the research engine is.    *)
LEMMA NoMorePaid ==
    ASSUME IInv, Joined, account.status \in Processing, market # NoBar,
           NEW offer \in Offer, SameEntry(offer), IsOpen(offer)
    PROVE  /\ CashBefore(offer) + Outcome(offer).paid
                <= SimCash(offer) + SimOutcome(offer).paid
           /\ SimOutcome(offer).liquidated => Outcome(offer).liquidated
<1> DEFINE p == Through(offer)
           c == market.candle
           cash == CashBefore(offer)
           more == SimCash(offer)
           paid == Outcome(offer).paid
           got == SimOutcome(offer).paid
           amount == FundingPayment(p, market.funding.pays)
           doubt == Ambiguous(p, c, ThisBar, cash)
           at == market.funding.at
<1>1. /\ p \in Position /\ c \in Candle /\ cash \in Int /\ more \in Int
      /\ paid \in Int /\ got \in Int /\ amount \in Int /\ Opening \in Int
      /\ cash + Opening <= more
      /\ at \in {"open", "inside", "never"}
  <2>1. p \in Position /\ market.funding.pays \in Int /\ at \in {"open", "inside", "never"}
    BY ThroughType, BarTypes, FundingRate
  <2>2. amount \in Int
    BY <2>1, FundingType
  <2> QED BY <2>1, <2>2, ThroughType, BarTypes, OutcomeType, SameThrough, SettledAmounts
<1>2. paid = IF at = "never" \/ (at = "open" /\ p.entered = ThisBar) THEN 0
             ELSE IF doubt THEN Lower(0, amount) ELSE amount
  BY RunSettled DEF Paid
<1>3. got = IF SimAmbiguous(offer) THEN Lower(0, SimAmount(offer)) ELSE SimAmount(offer)
  BY SimSettled
<1>4. SimAmount(offer) = IF at = "inside" THEN amount ELSE 0
  BY DEF SimAmount
<1>5. Opening = IF at = "open" /\ p.entered # ThisBar THEN amount ELSE 0
  <2>1. Opening = IF Research!Occupied /\ at = "open"
                  THEN FundingPayment(sim.open, market.funding.pays) ELSE 0
    BY SameRules DEF Opening, Research!OpeningPayment
  <2>2. FundingPayment(sim.open, market.funding.pays)
          = FundingPayment(account.position, market.funding.pays)
    BY BothLook, Twins
  <2>3. CASE Entering(offer)
    <3>1. p.entered = ThisBar
      BY <2>3, ThroughType
    <3>2. Opening = 0
      BY <2>3, SameThrough
    <3> HIDE DEF p, at, amount
    <3> QED BY <3>1, <3>2
  <2>4. CASE ~Entering(offer)
    <3>1. account.position.quantity # 0 /\ p = [account.position EXCEPT !.held = @ + 1]
      BY <2>4, ThroughType
    <3>2. /\ account.position \in Position
          /\ account.position.entered < ThisBar
          /\ ThisBar \in Int
      BY BarTypes DEF Bars
    <3>3. p.entered = account.position.entered /\ p.entered # ThisBar
      BY <3>1, <3>2 DEF Position
    <3>4. amount = FundingPayment(account.position, market.funding.pays)
      BY <3>1, <3>2 DEF FundingPayment, Position
    <3>5. Research!Occupied
      BY <3>1, BothLook DEF Looks
    <3> HIDE DEF p, at, amount
    <3> QED BY <2>1, <2>2, <3>3, <3>4, <3>5
  <2> QED BY <2>3, <2>4
<1>6. at = "inside" /\ SimAmbiguous(offer) => doubt
  <2>1. ASSUME at = "inside", Liquidated(p, c, more) PROVE Liquidated(p, c, cash)
    <3>1. cash <= more
      <4> HIDE DEF p, c, cash, more, paid, got, amount, at
      <4> QED BY <1>1, <1>5, <2>1
    <3> HIDE DEF p, c, cash, more
    <3> QED BY <1>1, <2>1, <3>1, LessCash
  <2> QED BY <2>1 DEF SimAmbiguous, Ambiguous
<1>7. cash + paid <= more + got
  <2> HIDE DEF p, c, cash, more, paid, got, amount, doubt, at
  <2>1. CASE at = "never"
    BY <1>1, <1>2, <1>3, <1>4, <1>5, <2>1 DEF Lower
  <2>2. CASE at = "open"
    BY <1>1, <1>2, <1>3, <1>4, <1>5, <2>2 DEF Lower
  <2>3. CASE at = "inside"
    BY <1>1, <1>2, <1>3, <1>4, <1>5, <1>6, <2>3 DEF Lower
  <2> QED BY <1>1, <2>1, <2>2, <2>3
<1>8. SimOutcome(offer).liquidated => Outcome(offer).liquidated
  <2>1. /\ SimOutcome(offer).liquidated = Liquidated(p, c, more + got)
        /\ Outcome(offer).liquidated = Liquidated(p, c, cash + paid)
    BY SimSettled, RunSettled
  <2>2. Liquidated(p, c, more + got) => Liquidated(p, c, cash + paid)
    <3> HIDE DEF p, c, cash, more, paid, got
    <3>1. cash + paid \in Int /\ more + got \in Int
      BY <1>1
    <3> QED BY <1>1, <1>7, <3>1, LessCash
  <2> QED BY <2>1, <2>2
<1> QED BY <1>7, <1>8

-----------------------------------------------------------------------------
(* Leaving at the worst price of a bar.                                     *)

(* A fill is a price, and a better price has no worse fill.                 *)
LEMMA FillsKeepOrder ==
    ASSUME NEW x \in Nat, NEW y \in Nat, x <= y, NEW buy \in BOOLEAN
    PROVE  /\ AdverseFill(x, buy) \in Nat
           /\ AdverseFill(y, buy) \in Nat
           /\ AdverseFill(x, buy) <= AdverseFill(y, buy)
<1> DEFINE up(p) == p * (Unit + SlipUnits) + Unit - 1
           down(p) == p * (Unit - SlipUnits)
<1>1. /\ Unit \in Nat /\ Unit > 0 /\ SlipUnits \in Nat
      /\ Unit - SlipUnits \in Nat /\ Unit + SlipUnits \in Nat
  BY RulesAssumption
<1>2. \A p \in Nat : up(p) \in Nat /\ down(p) \in Nat
  BY <1>1
<1>3. up(x) <= up(y) /\ down(x) <= down(y)
  <2>1. \A k \in Nat : x * k <= y * k
    OBVIOUS
  <2> QED BY <1>1, <2>1
<1>4. ASSUME NEW a \in Nat, NEW b \in Nat, a <= b PROVE a \div Unit <= b \div Unit
  <2> DEFINE d == a \div Unit  e == b \div Unit
  <2>1. d \in Int /\ Unit * d <= a
    BY DivFacts
  <2>2. e \in Int /\ b < Unit * e + Unit
    BY DivFacts
  <2>3. Unit \in Int /\ Unit * d \in Int /\ Unit * e \in Int
    BY <1>1, <2>1, <2>2
  <2> HIDE DEF d, e
  <2>4. Unit * d < Unit * e + Unit
    BY <1>4, <2>1, <2>2, <2>3
  <2>5. d <= e
    BY <1>1, <2>1, <2>2, <2>3, <2>4, Cancel
  <2> QED BY <2>5 DEF d, e
<1>5. ASSUME NEW a \in Nat PROVE a \div Unit \in Nat
  BY <1>1
<1>6. \A p \in Nat : AdverseFill(p, buy) = IF buy THEN up(p) \div Unit ELSE down(p) \div Unit
  BY DEF AdverseFill
<1> HIDE DEF up, down
<1> QED BY <1>2, <1>3, <1>4, <1>5, <1>6

(* Leaving at a better price leaves no less, fees included; a liquidation   *)
(* charges one more.                                                        *)
LEMMA WorseLeavesLess ==
    ASSUME NEW p \in Position, NEW x \in Nat, NEW y \in Nat,
           IF p.setup.long THEN x <= y ELSE y <= x
    PROVE  Gross(p, x) - ExitFee(p, x, TRUE) <= Gross(p, y) - ExitFee(p, y, FALSE)
<1> DEFINE buy == ~p.setup.long
           f == AdverseFill(x, buy)
           g == AdverseFill(y, buy)
           q == p.quantity
           entry == p.price
           F == FeeUnits
           L == LiquidationUnits
           uf == Unit * q * f
           ug == Unit * q * g
           ue == Unit * q * entry
           ff == q * f * F
           fg == q * g * F
           fl == q * f * L
           feeX == ExitFee(p, x, TRUE)
           feeY == ExitFee(p, y, FALSE)
<1>1. q \in Nat /\ entry \in Int /\ p.setup.long \in BOOLEAN /\ buy \in BOOLEAN
  BY DEF Position, Setup
<1>2. Unit \in Nat /\ F \in Nat /\ L \in Nat /\ Unit - F \in Nat
  BY RulesAssumption
<1>3. f \in Nat /\ g \in Nat /\ IF p.setup.long THEN f <= g ELSE g <= f
  BY <1>1, FillsKeepOrder
<1>4. /\ Gross(p, x) = Unit * q * (IF p.setup.long THEN f - entry ELSE entry - f)
      /\ Gross(p, y) = Unit * q * (IF p.setup.long THEN g - entry ELSE entry - g)
  BY DEF Gross, Pnl, ExitFill
<1>5. /\ feeX = q * f * (F + L)
      /\ feeY = q * g * (F + 0)
  BY DEF ExitFee, Fee, ExitFill
<1> HIDE DEF buy, f, g, q, entry, F, L, feeX, feeY
<1>6. /\ uf \in Int /\ ug \in Int /\ ue \in Int /\ ff \in Int /\ fg \in Int
      /\ fl \in Nat
  BY <1>1, <1>2, <1>3
<1>7. feeX = ff + fl /\ feeY = fg
  BY <1>1, <1>2, <1>3, <1>5
<1>8. ASSUME p.setup.long PROVE Gross(p, x) - feeX <= Gross(p, y) - feeY
  <2>1. Gross(p, x) = uf - ue /\ Gross(p, y) = ug - ue
    BY <1>1, <1>2, <1>3, <1>4, <1>8
  <2>2. uf - ff <= ug - fg
    <3>1. PICK d \in Nat : g = f + d
      <4>1. g - f \in Nat /\ g = f + (g - f)
        BY <1>3, <1>8
      <4> QED BY <4>1
    <3> DEFINE k == Unit - F
    <3>2. k \in Nat /\ Unit = F + k
      BY <1>2
    <3> HIDE DEF k
    <3>3. q * d * k \in Nat
      BY <1>1, <3>2
    <3>4. (ug - fg) - (uf - ff) = q * d * k
      BY <1>1, <1>2, <1>3, <3>1, <3>2
    <3> HIDE DEF uf, ug, ff, fg
    <3> QED BY <1>6, <3>3, <3>4
  <2> HIDE DEF uf, ug, ue, ff, fg, fl
  <2> QED BY <1>6, <1>7, <2>1, <2>2
<1>9. ASSUME ~p.setup.long PROVE Gross(p, x) - feeX <= Gross(p, y) - feeY
  <2>1. Gross(p, x) = ue - uf /\ Gross(p, y) = ue - ug
    BY <1>1, <1>2, <1>3, <1>4, <1>9
  <2>2. ug + fg <= uf + ff
    <3>1. PICK d \in Nat : f = g + d
      <4>1. f - g \in Nat /\ f = g + (f - g)
        BY <1>3, <1>9
      <4> QED BY <4>1
    <3>2. Unit * q * d \in Nat /\ q * d * F \in Nat
      BY <1>1, <1>2
    <3>3. uf + ff = ug + fg + (Unit * q * d + q * d * F)
      BY <1>1, <1>2, <1>3, <3>1
    <3>4. ug + fg \in Int
      BY <1>6
    <3> QED BY <3>2, <3>3, <3>4
  <2> HIDE DEF uf, ug, ue, ff, fg, fl
  <2> QED BY <1>6, <1>7, <2>1, <2>2
<1>10. Gross(p, x) - feeX <= Gross(p, y) - feeY
  BY <1>1, <1>8, <1>9
<1> QED BY <1>10 DEF feeX, feeY

(* So does staying, until the position is worth less than that.             *)
LEMMA WorseThanHeld ==
    ASSUME NEW p \in Position, NEW x \in Nat, NEW y \in Nat,
           IF p.setup.long THEN x <= y ELSE y <= x
    PROVE  Gross(p, x) - ExitFee(p, x, TRUE) <= Pnl(p, y)
<1> DEFINE buy == ~p.setup.long
           f == AdverseFill(x, buy)
           fee == ExitFee(p, x, TRUE)
<1>1. p.setup.long \in BOOLEAN /\ buy \in BOOLEAN /\ p.quantity \in Nat
  BY DEF Position, Setup
<1>2. f \in Nat
  BY <1>1, FillsKeepOrder
<1>3. IF p.setup.long THEN f <= y ELSE f >= y
  <2> DEFINE sold == AdverseFill(x, FALSE)
             bought == AdverseFill(x, TRUE)
  <2>1. sold <= x /\ bought >= x
    BY FillsAreAdverse
  <2>2. f = IF p.setup.long THEN sold ELSE bought
    BY Zenon DEF AdverseFill
  <2> HIDE DEF f, sold, bought
  <2> QED BY <1>1, <1>2, <2>1, <2>2
<1>4. Gross(p, x) = Pnl(p, f)
  BY DEF Gross, ExitFill
<1>5. fee = p.quantity * f * (FeeUnits + LiquidationUnits)
  BY DEF ExitFee, Fee, ExitFill
<1> HIDE DEF f, buy, fee
<1>6. fee \in Nat
  <2>1. FeeUnits + LiquidationUnits \in Nat
    BY RulesAssumption
  <2> QED BY <1>1, <1>2, <1>5, <2>1
<1>7. Pnl(p, f) <= Pnl(p, y) /\ Pnl(p, f) \in Int /\ Pnl(p, y) \in Int
  <2>1. f \in Int /\ y \in Int
    BY <1>2
  <2>2. Pnl(p, f) \in Int /\ Pnl(p, y) \in Int
    BY <2>1, PnlType
  <2>3. Pnl(p, f) <= Pnl(p, y)
    BY <1>3, <2>1, PnlMonotone
  <2> QED BY <2>2, <2>3
<1>8. Gross(p, x) - fee <= Pnl(p, y)
  BY <1>4, <1>6, <1>7
<1> QED BY <1>8 DEF fee

(* A bar opens and closes between its extremes.                             *)
LEMMA CandleSpan ==
    ASSUME IInv, market # NoBar
    PROVE  /\ market.candle.low <= market.candle.open
           /\ market.candle.low <= market.candle.close
           /\ market.candle.open <= market.candle.high
           /\ market.candle.close <= market.candle.high
<1>1. market.candle \in Candle /\ market.candle \in Candles \cup {NoBar.candle}
  BY BarTypes DEF IInv, TypeOK
<1>2. CASE market.candle = NoBar.candle
  BY <1>2 DEF NoBar
<1>3. CASE market.candle \in Candles
  <2>1. Validated(market.candle)
    BY <1>3, AccountAssumption
  <2> QED BY <1>1, <2>1 DEF Validated, Lower, Higher, Candle
<1> QED BY <1>1, <1>2, <1>3

(* No position is worth nothing.                                            *)
LEMMA NothingHeld ==
    ASSUME NEW price \in Int
    PROVE  Pnl(NoPosition, price) = 0
<1>1. Unit * 0 * (0 - price) = 0
  BY UnitFacts
<1> QED BY <1>1 DEF Pnl, NoPosition, NoSetup

-----------------------------------------------------------------------------
(* A bar of both.                                                           *)

(* The amounts of the research engine are whole amounts.                    *)
LEMMA SimTypes ==
    ASSUME IInv, Joined, account.status \in Processing, market # NoBar,
           NEW offer \in Offer, SameEntry(offer)
    PROVE  /\ SimOutcome(offer).paid \in Int
           /\ SimOutcome(offer).fee \in Int
           /\ SimOutcome(offer).gross \in Int
           /\ SimOutcome(offer).closed \in BOOLEAN
           /\ SimOutcome(offer).liquidated \in BOOLEAN
           /\ SimPosition(offer) \in Position
           /\ SimCashAfter(offer) \in Int
           /\ SimEquity(offer) \in Int
           /\ Marked \in Int
<1>1. /\ SimOutcome(offer).paid \in Int
      /\ SimOutcome(offer).fee \in Int
      /\ SimOutcome(offer).gross \in Int
      /\ SimOutcome(offer).closed \in BOOLEAN
      /\ SimOutcome(offer).liquidated \in BOOLEAN
  <2>1. CASE IsOpen(offer)
    BY <2>1, SettledAmounts
  <2>2. CASE ~IsOpen(offer)
    <3>1. SimOutcome(offer) = Untouched
      BY <2>2, SameThrough DEF SimOutcome
    <3> QED BY <3>1 DEF Untouched
  <2> QED BY <2>1, <2>2
<1>2. SimThrough(offer) \in Position /\ SimCash(offer) \in Int /\ Opening \in Int
  BY SameThrough
<1>3. NoPosition \in Position
  BY MaxBarAssumption DEF NoPosition, NoSetup, Position, Setup
<1>4. SimPosition(offer) \in Position
  <2>1. [SimThrough(offer) EXCEPT !.funding = @ + SimOutcome(offer).paid] \in Position
    BY <1>1, <1>2 DEF Position
  <2> QED BY <1>3, <2>1 DEF SimPosition
<1>5. SimCashAfter(offer) \in Int
  BY <1>1, <1>2 DEF SimCashAfter
<1>6. market.candle.close \in Int /\ market.candle.open \in Int
  BY BarTypes DEF Candle
<1>7. SimEquity(offer) \in Int
  <2>1. Pnl(SimPosition(offer), market.candle.close) \in Int
    BY <1>4, <1>6, PnlType
  <2> QED BY <1>5, <2>1 DEF SimEquity
<1>8. Marked \in Int
  <2>1. sim.open \in Position /\ sim.cash \in Int
    BY DEF Joined, Sim
  <2>2. Carried \in Position
    BY <1>2, <2>1 DEF Carried, Position
  <2>3. Pnl(Carried, market.candle.open) \in Int
    BY <1>6, <2>2, PnlType
  <2> QED BY <1>2, <2>1, <2>3 DEF Marked
<1> QED BY <1>1, <1>4, <1>5, <1>7, <1>8

(* When the bar liquidates both or neither, both end it with the same trade,*)
(* the run with no more cash and no more equity.                            *)
LEMMA SameEnd ==
    ASSUME IInv, Joined, account.status \in Processing, market # NoBar,
           NEW offer \in Offer, SameEntry(offer),
           Outcome(offer).liquidated = SimOutcome(offer).liquidated
    PROVE  /\ SameTrade(PositionOf(offer), SimPosition(offer))
           /\ CashOf(offer) <= SimCashAfter(offer)
           /\ EquityOf(offer) <= SimEquity(offer)
<1> DEFINE s == Outcome(offer)
           t == SimOutcome(offer)
           cash == CashBefore(offer)
           more == SimCash(offer)
<1>1. /\ s.paid \in Int /\ s.fee \in Int /\ s.gross \in Int /\ s.closed \in BOOLEAN
      /\ t.paid \in Int /\ cash \in Int /\ more \in Int
      /\ CashOf(offer) \in Int /\ SimCashAfter(offer) \in Int
  BY OutcomeType, SimTypes, SameThrough
<1>2. s.fee = t.fee /\ s.gross = t.gross /\ s.closed = t.closed
      /\ cash + s.paid <= more + t.paid
  <2>1. CASE IsOpen(offer)
    BY <2>1, RunSettled, SimSettled, NoMorePaid
  <2>2. CASE ~IsOpen(offer)
    <3>1. s = Untouched /\ t = Untouched
      BY <2>2, SameThrough DEF Outcome, SimOutcome
    <3>2. ~Entering(offer) /\ ~Opens(offer)
      BY <2>2, ThroughType, SameThrough
    <3>3. cash = account.cash /\ more = sim.cash + Opening - 0
      BY <3>2 DEF CashBefore, SimCash
    <3>4. Opening = 0
      <4>1. account.position.quantity = 0
        BY <2>2, <3>2, ThroughType
      <4>2. ~Research!Occupied
        BY <4>1, BothLook DEF Looks
      <4> QED BY <4>2 DEF Opening, Research!OpeningPayment
    <3>5. account.cash <= sim.cash /\ account.cash \in Int /\ sim.cash \in Int
      BY BothLook DEF Joined, Sim, IInv, TypeOK, Account
    <3> HIDE DEF s, t, cash, more
    <3> QED BY <3>1, <3>3, <3>4, <3>5 DEF Untouched
  <2> QED BY <2>1, <2>2
<1>3. CashOf(offer) <= SimCashAfter(offer)
  <2>1. /\ CashOf(offer) = cash + s.paid + (IF s.closed THEN s.gross - s.fee ELSE 0)
        /\ SimCashAfter(offer) = more + t.paid + (IF t.closed THEN t.gross - t.fee ELSE 0)
    BY DEF CashOf, CashAfter, SimCashAfter
  <2> HIDE DEF s, t, cash, more
  <2> QED BY <1>1, <1>2, <2>1
<1>4. SameTrade(PositionOf(offer), SimPosition(offer))
  <2>1. SimIsOpen(offer) <=> IsOpen(offer)
    BY SameThrough
  <2>2. CASE IsOpen(offer) /\ ~s.closed
    <3>1. /\ PositionOf(offer) = [Through(offer) EXCEPT !.funding = @ + s.paid]
          /\ SimPosition(offer) = [SimThrough(offer) EXCEPT !.funding = @ + t.paid]
      BY <1>2, <2>1, <2>2 DEF PositionOf, PositionAfterBar, SimPosition
    <3>2. /\ Through(offer) \in Position /\ SimThrough(offer) \in Position
          /\ SameTrade(Through(offer), SimThrough(offer))
      BY ThroughType, SameThrough
    <3> HIDE DEF s, t
    <3> QED BY <3>1, <3>2 DEF SameTrade, Position
  <2>3. CASE ~IsOpen(offer) \/ s.closed
    <3>1. PositionOf(offer) = NoPosition /\ SimPosition(offer) = NoPosition
      BY <1>2, <2>1, <2>3 DEF PositionOf, PositionAfterBar, SimPosition
    <3> QED BY <3>1 DEF SameTrade
  <2> QED BY <2>2, <2>3
<1>5. EquityOf(offer) <= SimEquity(offer)
  <2>1. Pnl(PositionOf(offer), market.candle.close) = Pnl(SimPosition(offer), market.candle.close)
    BY <1>4, Twins
  <2>2. Pnl(PositionOf(offer), market.candle.close) \in Int
    <3>1. PositionOf(offer) \in Position /\ market.candle.close \in Int
      BY OutcomeType, BarTypes DEF Candle
    <3> QED BY <3>1, PnlType
  <2> QED BY <1>1, <1>3, <2>1, <2>2 DEF EquityOf, SimEquity
<1> QED BY <1>3, <1>4, <1>5

(* When it liquidates the run alone, at the worst price of a bar that        *)
(* reaches back to the target, the run ends it with no more equity either.  *)
LEMMA LiquidatedAlone ==
    ASSUME IInv, Joined, account.status \in Processing, market # NoBar,
           NEW offer \in Offer, SameEntry(offer),
           Outcome(offer).liquidated, ~SimOutcome(offer).liquidated,
           Reaches(Through(offer).setup)
    PROVE  EquityOf(offer) <= SimEquity(offer)
<1> DEFINE s == Outcome(offer)
           t == SimOutcome(offer)
           cash == CashBefore(offer)
           more == SimCash(offer)
           p == Through(offer)
           c == market.candle
           exit == ExitOf(p, c, ThisBar)
           worst == Worst(p.setup, c)
           feeW == ExitFee(p, worst, TRUE)
           feeX == ExitFee(p, exit.price, FALSE)
           value == Pnl(p, c.close)
<1>1. s.closed /\ IsOpen(offer)
  BY OutcomeType
<1>2. /\ s.paid \in Int /\ s.fee \in Int /\ s.gross \in Int
      /\ t.paid \in Int /\ t.fee \in Int /\ t.gross \in Int
      /\ cash \in Int /\ more \in Int
      /\ cash + s.paid <= more + t.paid
      /\ p \in Position /\ c \in Candle
  BY <1>1, OutcomeType, SimTypes, SameThrough, NoMorePaid, ThroughType, BarTypes
<1>3. /\ s.fee = feeW /\ s.gross = Gross(p, worst)
      /\ t.fee = feeX /\ t.gross = Gross(p, exit.price)
      /\ t.closed = (exit.reason # "none")
  <2>1. s.liquidated = TRUE /\ t.liquidated = FALSE
    BY OutcomeType, SimTypes
  <2>2. /\ s.fee = ExitFee(p, PriceOf(offer, s.liquidated), s.liquidated)
        /\ s.gross = Gross(p, PriceOf(offer, s.liquidated))
        /\ t.fee = ExitFee(p, PriceOf(offer, t.liquidated), t.liquidated)
        /\ t.gross = Gross(p, PriceOf(offer, t.liquidated))
        /\ t.closed = (t.liquidated \/ exit.reason # "none")
    BY <1>1, RunSettled, SimSettled
  <2>3. PriceOf(offer, s.liquidated) = worst /\ PriceOf(offer, t.liquidated) = exit.price
    BY <2>1 DEF PriceOf
  <2>4. t.closed = (exit.reason # "none")
    BY <2>1, <2>2
  <2>5. s.fee = feeW /\ t.fee = feeX
    <3> DEFINE yes == TRUE  no == FALSE
    <3>1. s.liquidated = yes /\ t.liquidated = no
      BY <2>1
    <3> HIDE DEF p, c, worst, exit, s, t, yes, no
    <3>2. s.fee = ExitFee(p, worst, yes) /\ t.fee = ExitFee(p, exit.price, no)
      BY <2>2, <2>3, <3>1
    <3> QED BY <3>2 DEF yes, no
  <2> HIDE DEF p, c, worst, exit, s, t, feeW, feeX
  <2> QED BY <2>2, <2>3, <2>4, <2>5
<1>4. /\ worst \in Nat /\ c.close \in Nat /\ p.setup \in Setup /\ p.setup.long \in BOOLEAN
      /\ IF p.setup.long THEN worst <= c.close ELSE c.close <= worst
  <2>1. /\ c.low \in Nat /\ c.high \in Nat /\ c.close \in Nat
        /\ c.low <= c.close /\ c.close <= c.high
    BY <1>2, CandleSpan DEF Candle
  <2>2. p.setup \in Setup /\ p.setup.long \in BOOLEAN
    BY <1>2 DEF Position, Setup
  <2> HIDE DEF p, c
  <2> QED BY <2>1, <2>2 DEF Worst
<1>5. exit.reason # "none"
        => /\ exit.price \in Nat
           /\ IF p.setup.long THEN worst <= exit.price ELSE exit.price <= worst
  <2>1. /\ c.low \in Nat /\ c.high \in Nat /\ c.close \in Nat /\ c.open \in Nat
        /\ c.low <= c.close /\ c.close <= c.high /\ c.low <= c.open /\ c.open <= c.high
    BY <1>2, CandleSpan DEF Candle
  <2>2. p.setup.stop \in Nat /\ p.setup.target \in Nat
    BY <1>4 DEF Setup
  <2>3. IF p.setup.long THEN c.low <= p.setup.target ELSE c.high >= p.setup.target
    BY DEF Reaches
  <2> DEFINE entered == p.entered = ThisBar
  <2>4. exit = Exit(p.setup, c, p.held, entered)
    BY DEF ExitOf
  <2> HIDE DEF p, c, exit, entered
  <2>5. CASE StopHit(p.setup, c)
    <3>1. exit.price = StopPrice(p.setup, c, entered)
      BY <2>4, <2>5 DEF Exit
    <3> QED BY <1>4, <2>1, <2>2, <2>5, <3>1 DEF StopPrice, StopHit, Worst, Lower, Higher
  <2>6. CASE ~StopHit(p.setup, c) /\ TargetHit(p.setup, c)
    <3>1. exit.price = p.setup.target
      BY <2>4, <2>6 DEF Exit
    <3> QED BY <1>4, <2>1, <2>2, <2>3, <3>1 DEF Worst
  <2>7. CASE ~StopHit(p.setup, c) /\ ~TargetHit(p.setup, c)
    <3>1. exit.reason # "none" => exit.price = c.close
      BY <2>4, <2>7 DEF Exit
    <3> QED BY <1>4, <2>1, <3>1
  <2> QED BY <2>5, <2>6, <2>7
<1>6. EquityOf(offer) = cash + s.paid + (s.gross - s.fee)
  <2>1. PositionOf(offer) = NoPosition
    BY <1>1, PositionKept
  <2>2. Pnl(PositionOf(offer), c.close) = 0
    BY <1>4, <2>1, NothingHeld
  <2>3. CashOf(offer) = cash + s.paid + (s.gross - s.fee)
    BY <1>1 DEF CashOf, CashAfter
  <2>4. CashOf(offer) \in Int
    BY OutcomeType
  <2> QED BY <2>2, <2>3, <2>4 DEF EquityOf
<1>7. CASE exit.reason # "none"
  <2>1. SimEquity(offer) = more + t.paid + (t.gross - t.fee)
    <3>1. t.closed
      BY <1>3, <1>7
    <3>2. SimPosition(offer) = NoPosition
      BY <3>1 DEF SimPosition
    <3>3. Pnl(SimPosition(offer), c.close) = 0
      BY <1>4, <3>2, NothingHeld
    <3>4. SimCashAfter(offer) = more + t.paid + (t.gross - t.fee)
      BY <3>1 DEF SimCashAfter
    <3>5. SimCashAfter(offer) \in Int
      BY SimTypes
    <3> QED BY <3>3, <3>4, <3>5 DEF SimEquity
  <2>2. s.gross - s.fee <= t.gross - t.fee
    <3>1. exit.price \in Nat
          /\ IF p.setup.long THEN worst <= exit.price ELSE exit.price <= worst
      BY <1>5, <1>7
    <3> DEFINE w == worst  x == exit.price
    <3>2. Gross(p, w) - ExitFee(p, w, TRUE) <= Gross(p, x) - ExitFee(p, x, FALSE)
      <4> HIDE DEF w, x, p
      <4>1. w \in Nat /\ x \in Nat /\ IF p.setup.long THEN w <= x ELSE x <= w
        BY <1>4, <3>1 DEF w, x
      <4>2. p \in Position
        BY <1>2
      <4> QED BY <4>1, <4>2, WorseLeavesLess
    <3>3. Gross(p, worst) - feeW <= Gross(p, exit.price) - feeX
      BY <3>2
    <3> HIDE DEF s, t, p, worst, exit, feeW, feeX
    <3> QED BY <1>3, <3>3
  <2> HIDE DEF s, t, cash, more
  <2> QED BY <1>2, <1>6, <2>1, <2>2
<1>8. CASE exit.reason = "none"
  <2>1. ~t.closed /\ SimIsOpen(offer)
    BY <1>1, <1>3, <1>8, SameThrough
  <2>2. SimPosition(offer) = [SimThrough(offer) EXCEPT !.funding = @ + t.paid]
    BY <2>1 DEF SimPosition
  <2>3. SameTrade(SimPosition(offer), p)
    <3>1. SimThrough(offer) \in Position /\ SameTrade(p, SimThrough(offer))
      BY SameThrough
    <3> HIDE DEF p, t
    <3> QED BY <2>2, <3>1 DEF SameTrade, Position
  <2>4. SimEquity(offer) = more + t.paid + value
    <3>1. Pnl(SimPosition(offer), c.close) = value
      BY <2>3, Twins
    <3>2. SimCashAfter(offer) = more + t.paid + 0
      BY <2>1 DEF SimCashAfter
    <3>3. SimCashAfter(offer) = more + t.paid
      <4> HIDE DEF more, t
      <4> QED BY <1>2, <3>2
    <3> QED BY <3>1, <3>3 DEF SimEquity
  <2>5. s.gross - s.fee <= value
    <3> DEFINE w == worst  x == c.close
    <3>1. Gross(p, w) - ExitFee(p, w, TRUE) <= Pnl(p, x)
      <4> HIDE DEF w, x, p
      <4>1. w \in Nat /\ x \in Nat /\ IF p.setup.long THEN w <= x ELSE x <= w
        BY <1>4 DEF w, x
      <4>2. p \in Position
        BY <1>2
      <4> QED BY <4>1, <4>2, WorseThanHeld
    <3>2. Gross(p, worst) - feeW <= value
      BY <3>1
    <3> HIDE DEF s, p, worst, feeW, value
    <3> QED BY <1>3, <3>2
  <2>6. value \in Int
    <3>1. c.close \in Int
      BY <1>4
    <3> QED BY <1>2, <3>1, PnlType
  <2> HIDE DEF s, t, cash, more, value
  <2> QED BY <1>2, <1>6, <2>4, <2>5, <2>6
<1> QED BY <1>7, <1>8

(* The setup of the position of the bar is one the bar was told of.         *)
LEMMA SetupOfBar ==
    ASSUME IInv, market # NoBar, NEW offer \in Offer, IsOpen(offer),
           \A setup \in SetupsOfBar : Reaches(setup)
    PROVE  Reaches(Through(offer).setup)
<1>1. CASE Entering(offer)
  <2> DEFINE setup == Considered(account, ThisBar, offer)
  <2>1. /\ Looks(account)
        /\ setup # NoSetup
    BY <1>1 DEF Entering, Enters, StatusOf
  <2>2. Through(offer).setup = setup
    <3> DEFINE filled == Filled(account, market.candle, ThisBar, offer)
    <3>1. filled \in Position /\ Through(offer) = [filled EXCEPT !.held = @ + 1]
      BY <1>1, FilledType DEF Entering, Through, Holding
    <3>2. filled.setup = setup
      BY DEF Filled
    <3> HIDE DEF filled
    <3> QED BY <3>1, <3>2 DEF Position
  <2>3. SetupsOfBar = Setups \cup {account.pending}
    BY <2>1 DEF SetupsOfBar, Looks
  <2>4. \/ setup = account.pending
        \/ setup = [offer.found EXCEPT !.from = ThisBar, !.until = ThisBar + Expiry]
           /\ offer.found # NoSetup
    BY <2>1 DEF Considered
  <2>5. offer.found \in Setups \cup {NoSetup} /\ offer.found \in Setup
    BY OfferType DEF Offer, NoOffer
  <2>6. CASE setup = account.pending
    BY <2>2, <2>3, <2>6
  <2>7. CASE setup = [offer.found EXCEPT !.from = ThisBar, !.until = ThisBar + Expiry]
             /\ offer.found # NoSetup
    <3>1. Reaches(offer.found)
      BY <2>3, <2>5, <2>7
    <3>2. setup.long = offer.found.long /\ setup.target = offer.found.target
      BY <2>5, <2>7 DEF Setup
    <3> HIDE DEF setup
    <3>3. Reaches(setup)
      BY <3>1, <3>2 DEF Reaches
    <3> QED BY <2>2, <3>3
  <2> QED BY <2>4, <2>6, <2>7
<1>2. CASE ~Entering(offer)
  <2>1. /\ account.position.quantity # 0
        /\ Through(offer) = [account.position EXCEPT !.held = @ + 1]
        /\ account.position \in Position
    BY <1>2, ThroughType, BarTypes
  <2>2. Through(offer).setup = account.position.setup
    BY <2>1 DEF Position
  <2> QED BY <2>1, <2>2 DEF SetupsOfBar
<1> QED BY <1>1, <1>2

(* A bar keeps them together.                                               *)
LEMMA BarJoined ==
    ASSUME IInv, Joined, NEW offer \in Offer, SameEntry(offer), Bar(offer),
           Research!Iterate(offer)
    PROVE  /\ Joined'
           /\ account'.status # "faulted" \/ (\A setup \in SetupsOfBar : Reaches(setup))
                => account'.equity <= sim'.equity
<1> DEFINE s == Outcome(offer)
           t == SimOutcome(offer)
<1>1. /\ market # NoBar /\ account.status \in Processing /\ market' = NoBar
      /\ account'.last = ThisBar
      /\ account'.cash = CashOf(offer)
      /\ account'.equity = EquityOf(offer)
      /\ account'.pending = PendingAfterBar(account, market.candle, ThisBar, offer)
      /\ account'.position = PositionOf(offer)
      /\ account'.status = IF s.liquidated THEN "faulted"
                           ELSE IF account.status = "stopping" /\ PositionOf(offer).quantity = 0
                           THEN "stopped" ELSE account.status
  BY BarEffect
<1>2. account.status = "running" /\ sim.bar + 1 = ThisBar
  BY <1>1, BothLook
<1>3. account'.status = IF s.liquidated THEN "faulted" ELSE "running"
  BY <1>1, <1>2
<1>4. /\ t.liquidated \in BOOLEAN /\ s.liquidated \in BOOLEAN
      /\ SimPosition(offer) \in Position
      /\ SimCashAfter(offer) \in Int /\ SimEquity(offer) \in Int
  BY <1>1, SimTypes, OutcomeType
<1>5. /\ ~sim.halted
      /\ sim'.bar = ThisBar
      /\ sim'.cash = SimCashAfter(offer)
      /\ sim'.equity = SimEquity(offer)
      /\ sim'.pending = Research!PendingAfter(market.candle, ThisBar, offer)
      /\ sim'.open = SimPosition(offer)
      /\ sim'.halted = (t.liquidated \/ SimCashAfter(offer) <= 0)
      /\ sim' \in Sim
  <2>1. ~sim.halted /\ sim.cash \in Int
    BY DEF Research!Iterate, Joined, Sim
  <2>2. ~(sim.cash <= 0)
    BY <2>1 DEF Joined
  <2> DEFINE
       peak == Higher(Higher(sim.peak, Marked), SimEquity(offer))
       realized == sim.realized
                    + (IF SimOutcome(offer).closed
                       THEN SimOutcome(offer).gross - SimThrough(offer).fee
                              - SimOutcome(offer).fee + SimThrough(offer).funding
                              + SimOutcome(offer).paid
                       ELSE 0)
       pending == Research!PendingAfter(market.candle, sim.bar + 1, offer)
       halted == t.liquidated \/ SimCashAfter(offer) <= 0
  <2>3. sim' = [bar |-> sim.bar + 1, cash |-> SimCashAfter(offer), peak |-> peak,
                equity |-> SimEquity(offer), realized |-> realized, pending |-> pending,
                open |-> SimPosition(offer), halted |-> halted]
    BY <2>2, IterateEffect
  <2>4. peak \in Int
    <3>1. sim.peak \in Int /\ Marked \in Int /\ SimEquity(offer) \in Int
      BY <1>1, SimTypes DEF Joined, Sim
    <3> QED BY <3>1 DEF Higher
  <2>5. realized \in Int
    <3>1. /\ sim.realized \in Int
          /\ SimOutcome(offer).gross \in Int /\ SimOutcome(offer).fee \in Int
          /\ SimOutcome(offer).paid \in Int
      BY <1>1, SimTypes DEF Joined, Sim
    <3>2. SimThrough(offer).fee \in Int /\ SimThrough(offer).funding \in Int
      BY <1>1, SameThrough DEF Position
    <3> QED BY <3>1, <3>2
  <2>6. pending \in Setup
    <3>1. pending = PendingAfterBar(account, market.candle, ThisBar, offer)
      BY <1>1, <1>2, SameConsidered
    <3>2. account' \in Account
      BY BarIInv DEF IInv, TypeOK
    <3> QED BY <1>1, <3>1, <3>2 DEF Account
  <2>7. halted \in BOOLEAN
    BY <1>4
  <2>8. sim.bar + 1 \in 0..MaxBar
    BY <1>1, <1>2, BarTypes, MaxBarAssumption DEF Bars
  <2>9. pending = Research!PendingAfter(market.candle, ThisBar, offer)
    BY <1>2
  <2> HIDE DEF peak, realized, pending, halted
  <2>10. sim' \in Sim
    BY <1>4, <2>3, <2>4, <2>5, <2>6, <2>7, <2>8 DEF Sim
  <2> QED BY <1>2, <2>1, <2>3, <2>9, <2>10 DEF halted
<1>6. InStep'
  BY <1>1, <1>5 DEF InStep
<1>7. CASE ~s.liquidated
  <2>1. ~t.liquidated
    <3>1. CASE IsOpen(offer)
      BY <1>1, <1>7, <3>1, NoMorePaid
    <3>2. CASE ~IsOpen(offer)
      BY <1>1, <3>2, SameThrough DEF SimOutcome, Untouched
    <3> QED BY <3>1, <3>2
  <2>2. s.liquidated = t.liquidated
    BY <1>4, <1>7, <2>1
  <2>3. /\ SameTrade(PositionOf(offer), SimPosition(offer))
        /\ CashOf(offer) <= SimCashAfter(offer)
        /\ EquityOf(offer) <= SimEquity(offer)
    BY <1>1, <2>2, SameEnd
  <2>4. account'.pending = sim'.pending
    BY <1>1, <1>5, SameConsidered
  <2>5. sim'.halted = (SimCashAfter(offer) <= 0)
    BY <1>4, <1>5, <2>1
  <2>6. /\ sim'.halted => ~(sim'.cash > 0)
        /\ ~sim'.halted => sim'.cash > 0
    <3>1. sim'.halted => SimCashAfter(offer) <= 0
      BY <2>5, Zenon
    <3>2. ~sim'.halted => ~(SimCashAfter(offer) <= 0)
      BY <2>5, Zenon
    <3>3. /\ SimCashAfter(offer) <= 0 => ~(sim'.cash > 0)
          /\ ~(SimCashAfter(offer) <= 0) => sim'.cash > 0
      BY <1>4, <1>5
    <3> QED BY <3>1, <3>2, <3>3
  <2>7. SameTrade(account'.position, sim'.open)
    BY <1>1, <1>5, <2>3
  <2>8. Joined'
    <3>1. account'.status = "running"
      BY <1>3, <1>7
    <3>2. account'.cash <= sim'.cash /\ account'.equity <= sim'.equity
      BY <1>1, <1>5, <2>3
    <3>3. SameTrade(account.position, sim.open)'
      BY <2>7 DEF SameTrade
    <3> QED BY <1>5, <1>6, <2>4, <2>6, <3>1, <3>2, <3>3 DEF Joined
  <2> QED BY <1>1, <1>5, <2>3, <2>8
<1>8. CASE s.liquidated
  <2>1. account'.status = "faulted"
    BY <1>3, <1>8
  <2>2. ~sim'.halted => sim'.cash > 0
    <3>1. ~sim'.halted => ~(SimCashAfter(offer) <= 0)
      BY <1>5, Zenon
    <3>2. ~(SimCashAfter(offer) <= 0) => sim'.cash > 0
      BY <1>4, <1>5
    <3> QED BY <3>1, <3>2
  <2>3. Joined'
    BY <1>5, <1>6, <2>1, <2>2 DEF Joined
  <2>4. ASSUME \A setup \in SetupsOfBar : Reaches(setup)
        PROVE  EquityOf(offer) <= SimEquity(offer)
    <3>1. CASE t.liquidated
      <4>1. s.liquidated = t.liquidated
        BY <1>4, <1>8, <3>1
      <4> QED BY <1>1, <4>1, SameEnd
    <3>2. CASE ~t.liquidated
      <4>1. IsOpen(offer)
        BY <1>1, <1>8, OutcomeType
      <4>2. Reaches(Through(offer).setup)
        BY <1>1, <2>4, <4>1, SetupOfBar
      <4> QED BY <1>1, <1>8, <3>2, <4>2, LiquidatedAlone
    <3> QED BY <3>1, <3>2
  <2> QED BY <1>1, <1>5, <2>1, <2>3, <2>4
<1> QED BY <1>7, <1>8

(* Both start with the same balance.                                        *)
LEMMA InitJoint == JointInit => JointIInv
<1> SUFFICES ASSUME JointInit PROVE JointIInv
  OBVIOUS
<1>1. IInv
  BY InitIInv DEF JointInit
<1>2. CASE Research!Init
  <2>1. sim = [bar |-> 0, cash |-> StartCash, peak |-> StartCash, equity |-> StartCash,
               realized |-> 0, pending |-> NoSetup, open |-> NoPosition, halted |-> FALSE]
    BY <1>2, SameRules DEF Research!Init, Research!Start
  <2>2. NoPosition \in Position /\ NoSetup \in Setup /\ StartCash \in Int /\ 0 \in 0..MaxBar
        /\ StartCash > 0
    BY AccountAssumption, MaxBarAssumption DEF NoPosition, NoSetup, Position, Setup
  <2>3. sim \in Sim
    BY <2>1, <2>2 DEF Sim
  <2>4. account = NoAccount /\ market = NoBar
    BY DEF JointInit, Init
  <2> QED BY <1>1, <2>1, <2>2, <2>3, <2>4
      DEF JointIInv, Joined, NoAccount, InStep, SameTrade
<1>3. CASE sim = Alone
  BY <1>1, <1>3 DEF JointIInv
<1> QED BY <1>2, <1>3 DEF JointInit

(* A step of both is a step of the run.                                     *)
LEMMA ComparedIsNext == Compared => Next
<1> SUFFICES ASSUME Compared PROVE Next
  OBVIOUS
<1>1. "resume" \in Actions
  BY DEF Actions
<1> QED BY <1>1 DEF Compared, Next

(* A run alone is at none of the bars of the research engine.               *)
LEMMA AloneApart ==
    ASSUME IInv, sim = Alone
    PROVE  ~InStep
<1>1. sim.bar = MaxBar + 1
  BY DEF Alone, Research!Start
<1>2. account.last \in 0..MaxBar
  BY DEF IInv, TypeOK, Account
<1> QED BY <1>1, <1>2, MaxBarAssumption DEF InStep

(* Every step of the two keeps them together, and a step that leaves the    *)
(* run with more equity is the liquidation NeverFlatters excepts.           *)
LEMMA StepJoined ==
    ASSUME IInv, Joined, Compared
    PROVE  /\ Joined'
           /\ account'.status # "faulted" \/ (\A setup \in SetupsOfBar : Reaches(setup))
                => account'.equity <= sim'.equity
<1>1. account \in Account
  BY DEF IInv, TypeOK
<1>2. CASE Create /\ UNCHANGED sim
  <2>1. account' = [account EXCEPT !.status = "paused"] /\ account.status = "absent"
        /\ market' = market
    BY <1>2 DEF Create
  <2>2. /\ account'.status = "paused"
        /\ account'.last = account.last /\ account'.pending = account.pending
        /\ account'.cash = account.cash /\ account'.equity = account.equity
        /\ account'.position = account.position
    BY <1>1, <2>1 DEF Account
  <2> QED BY <1>2, <2>1, <2>2 DEF Joined, InStep, SameTrade
<1>3. CASE Control("resume") /\ UNCHANGED sim
  <2>1. /\ account' = [account EXCEPT !.status = ControlStatus(RowOf(account), "resume"),
                                      !.fault = "resume" # "recover" /\ @,
                                      !.pending = NoSetup]
        /\ ControlAllowed(RowOf(account), "resume")
        /\ market' = market
    BY <1>3 DEF Control
  <2>2. ControlStatus(RowOf(account), "resume") = "running" /\ account.status = "paused"
    BY <2>1 DEF ControlStatus, ControlAllowed, RowOf
  <2>3. /\ account'.status = "running"
        /\ account'.last = account.last /\ account'.pending = NoSetup
        /\ account'.cash = account.cash /\ account'.equity = account.equity
        /\ account'.position = account.position
    BY <1>1, <2>1, <2>2 DEF Account
  <2> QED BY <1>3, <2>1, <2>2, <2>3 DEF Joined, InStep, SameTrade
<1>4. CASE /\ account.status = "running"
           /\ \E c \in Candles, funding \in Funding : CloseBar(c, funding)
           /\ UNCHANGED sim
  <2>1. UNCHANGED <<account, sim>>
    BY <1>4 DEF CloseBar
  <2> QED BY <1>4, <2>1 DEF Joined, InStep, SameTrade
<1>5. CASE \E offer \in IF Looks(account) THEN Offer ELSE {NoOffer} :
             ~offer.late /\ SameEntry(offer) /\ Bar(offer) /\ Research!Iterate(offer)
  BY <1>5, BarOffer, BarJoined
<1> QED BY <1>2, <1>3, <1>4, <1>5 DEF Compared

(* The invariant of the two: one case per disjunct of JointNext.            *)
LEMMA NextJoint == JointIInv /\ [JointNext]_allVars => JointIInv'
<1> SUFFICES ASSUME JointIInv, [JointNext]_allVars PROVE JointIInv'
  OBVIOUS
<1>1. IInv
  BY DEF JointIInv
<1>2. CASE sim # Alone /\ Compared
  <2>1. IInv'
    BY <1>1, <1>2, ComparedIsNext, NextIInv
  <2>2. Joined'
    BY <1>1, <1>2, StepJoined DEF JointIInv
  <2> QED BY <2>1, <2>2 DEF JointIInv
<1>3. CASE sim = Alone /\ Next /\ UNCHANGED sim
  <2>1. IInv'
    BY <1>1, <1>3, NextIInv
  <2>2. (sim = Alone)'
    BY <1>3 DEF Alone, Research!Start, Research!NoOpen
  <2> QED BY <2>1, <2>2 DEF JointIInv
<1>4. CASE UNCHANGED allVars
  <2>1. UNCHANGED vars /\ UNCHANGED sim /\ UNCHANGED account /\ UNCHANGED market
    BY <1>4 DEF allVars, vars
  <2>2. IInv'
    BY <1>1, <2>1, NextIInv
  <2>3. (sim = Alone \/ Joined)'
    BY <2>1 DEF JointIInv, Joined, InStep, SameTrade, Alone, Research!Start, Research!NoOpen
  <2> QED BY <2>2, <2>3 DEF JointIInv
<1> QED BY <1>2, <1>3, <1>4 DEF JointNext

(* What holds of every behavior of the two.                                 *)
LEMMA JointInvariance == JointSpec => []JointIInv
BY InitJoint, NextJoint, PTL DEF JointSpec

(* A run beside the research engine is a run: all that is shown of Spec, of *)
(* the account and the steps of a run, is shown of the comparison too.      *)
THEOREM ComparedRunIsARun == JointSpec => Spec
<1>1. JointInit => Init
  BY DEF JointInit
<1>2. [JointNext]_allVars => [Next]_vars
  BY ComparedIsNext DEF JointNext, allVars
<1> QED BY <1>1, <1>2, PTL DEF JointSpec, Spec

(* SameBook: until a liquidation or the end of its cash, paper trading and  *)
(* the research engine hold the same position and wait for the same setup,  *)
(* and the engine is not liquidated alone; for all prices and rates.        *)
THEOREM SameBooks == JointSpec => []SameBook
<1>1. JointIInv => SameBook
  <2> SUFFICES ASSUME JointIInv PROVE SameBook
    OBVIOUS
  <2>1. CASE sim = Alone
    BY <2>1, AloneApart DEF JointIInv, SameBook
  <2>2. CASE Joined
    <3>1. ASSUME account.status = "running"
          PROVE  /\ account.pending = sim.pending
                 /\ [account.position EXCEPT !.funding = 0] = [sim.open EXCEPT !.funding = 0]
      <4>1. account.position \in Position /\ sim.open \in Position
        BY <2>2 DEF JointIInv, IInv, TypeOK, Account, Joined, Sim
      <4>2. account.pending = sim.pending /\ SameTrade(account.position, sim.open)
        BY <2>2, <3>1 DEF Joined
      <4> QED BY <4>1, <4>2, ButForFunding
    <3>2. sim.halted /\ sim.cash > 0 => account.status = "faulted"
      BY <2>2 DEF Joined
    <3> QED BY <3>1, <3>2 DEF SameBook
  <2> QED BY <2>1, <2>2 DEF JointIInv
<1> QED BY JointInvariance, <1>1, PTL

(* NeverFlatters: paper trading never shows more equity than research does, *)
(* for all prices and rates, but when a run is liquidated beyond its target.*)
THEOREM PaperNeverFlatters == JointSpec => NeverFlatters
<1>1. JointIInv /\ JointIInv' /\ [JointNext]_allVars
        => [InStep' /\ (account'.status = "faulted" => \A setup \in SetupsOfBar : Reaches(setup))
              => account'.equity <= sim'.equity]_allVars
  <2> SUFFICES ASSUME JointIInv, JointIInv', JointNext, InStep',
                      account'.status = "faulted" => \A setup \in SetupsOfBar : Reaches(setup)
               PROVE  account'.equity <= sim'.equity
    OBVIOUS
  <2>1. CASE sim # Alone /\ Compared
    BY <2>1, StepJoined DEF JointIInv
  <2>2. CASE sim = Alone /\ Next /\ UNCHANGED sim
    <3>1. sim'.bar = MaxBar + 1
      BY <2>2 DEF Alone, Research!Start
    <3>2. account'.last \in 0..MaxBar
      BY DEF JointIInv, IInv, TypeOK, Account
    <3> QED BY <3>1, <3>2, MaxBarAssumption DEF InStep
  <2> QED BY <2>1, <2>2 DEF JointNext
<1> QED BY JointInvariance, <1>1, PTL DEF JointSpec, NeverFlatters
=============================================================================
