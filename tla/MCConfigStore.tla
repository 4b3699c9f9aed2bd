--------------------------- MODULE MCConfigStore ---------------------------
(***************************************************************************)
(* Two owners, served by one process, as deployed, or by one each.          *)
(***************************************************************************)
EXTENDS ConfigStore, TLC

MCDeployments == {[o \in Owners |-> "p"]} \cup {d \in [Owners -> {"p", "q"}] :
                     \A o, other \in Owners : d[o] = d[other] => o = other}

Symmetry == Permutations(Owners) \cup Permutations(RiskSettings) \cup Permutations(StrategySettings)
=============================================================================
