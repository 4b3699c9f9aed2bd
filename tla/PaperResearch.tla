--------------------------- MODULE PaperResearch ---------------------------
(***************************************************************************)
(* A paper run and the research engine on the same bars, with the same      *)
(* setups found and the same quantities accepted: does paper trading keep   *)
(* the conservative assumptions research results rest on (README.md:301)?   *)
(*                                                                         *)
(* A behaviour compares the two, the paper run created, resumed and left    *)
(* running with every bar in time, or has the paper run alone, with all     *)
(* that PaperAccount lets happen to it.                                     *)
(***************************************************************************)
EXTENDS PaperAccount

VARIABLE sim

allVars == <<vars, sim>>

Research == INSTANCE ResearchEngine

\* Both take the entry of this bar or neither: once a credit only one of them
\* counts has let it afford more, there is nothing left to compare.
SameEntry(offer) ==
    Enters(account, market.candle, account.last + 1, offer)
        <=> Research!Opens(market.candle, sim.bar + 1, offer)

\* No research engine: at no bar of the run.
Alone == [Research!Start EXCEPT !.bar = MaxBar + 1]

JointInit == Init /\ (Research!Init \/ sim = Alone)

Compared ==
    \/ (Create \/ Control("resume")) /\ UNCHANGED sim
    \/ /\ ~sim.halted /\ account.status = "running"
       /\ \E c \in Candles, funding \in Funding : CloseBar(c, funding)
       /\ UNCHANGED sim
    \/ \E offer \in IF Looks(account) THEN Offer ELSE {NoOffer} :
         ~offer.late /\ SameEntry(offer) /\ Bar(offer) /\ Research!Iterate(offer)

JointNext ==
    \/ sim # Alone /\ Compared
    \/ sim = Alone /\ Next /\ UNCHANGED sim

JointSpec == JointInit /\ [][JointNext]_allVars

InStep == account.last = sim.bar

(* As long as neither has been liquidated or has run out of cash, both hold *)
(* the same position and wait for the same setup, though each decides it    *)
(* with code of its own; and what liquidates the research engine liquidates *)
(* the paper run.                                                           *)
SameBook ==
    /\ InStep /\ account.status = "running"
         => /\ account.pending = sim.pending
            /\ [account.position EXCEPT !.funding = 0] = [sim.open EXCEPT !.funding = 0]
    /\ InStep /\ sim.halted /\ sim.cash > 0 => account.status = "faulted"

\* What a position held through this bar can be of, and whether the bar reaches
\* back to the target, or lies beyond it altogether.
SetupsOfBar ==
    IF account.position.quantity # 0 THEN {account.position.setup}
    ELSE Setups \cup {account.pending}

Reaches(setup) ==
    IF setup.long THEN market.candle.low <= setup.target ELSE market.candle.high >= setup.target

(* The equity of the paper run never exceeds that of the research engine:   *)
(* what paper trading reports is at least as conservative, through every    *)
(* sequence of entries, funding, stops and liquidations.  The exception is  *)
(* a paper run alone that is liquidated, at the worst price of a bar, when  *)
(* even that price is beyond the target the research engine leaves at.      *)
NeverFlatters ==
    [][InStep' /\ (account'.status = "faulted" => \A setup \in SetupsOfBar : Reaches(setup))
         => account'.equity <= sim'.equity]_allVars
=============================================================================
