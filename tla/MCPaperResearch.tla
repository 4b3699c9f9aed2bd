-------------------------- MODULE MCPaperResearch --------------------------
(***************************************************************************)
(* Setups and rates as in MCPaperAccount, and six of its candles.           *)
(***************************************************************************)
EXTENDS PaperResearch

\* From one extreme to the other.
Rise(low, high) == [open |-> low, high |-> high, low |-> low, close |-> high]
Fall(low, high) == [open |-> high, high |-> high, low |-> low, close |-> low]

\* Bars that reach the stop, the target, both or neither of the short setup;
\* that leave the long setup pending, end it, liquidate it or only enter it.
MCCandles == {Rise(20, 52), Fall(20, 44), Rise(28, 44),
              Rise(44, 52), Rise(28, 36), Fall(20, 28)}

Long == [long |-> TRUE, entry |-> 44, stop |-> 20, target |-> 60, from |-> 0, until |-> 0,
         hold |-> 0]
Short == [long |-> FALSE, entry |-> 44, stop |-> 50, target |-> 20, from |-> 0, until |-> 0,
          hold |-> 2]
MCSetups == {Long, Short}
MCRates == {-300, 300}
=============================================================================
