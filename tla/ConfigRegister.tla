--------------------------- MODULE ConfigRegister ---------------------------
(***************************************************************************)
(* What the runtime configuration promises: a sequence of versions, each of *)
(* which replaces one section of the one before and keeps the others, and   *)
(* snapshots of it that paper runs and research are made of.  ConfigStore   *)
(* is shown to implement this.                                              *)
(***************************************************************************)
EXTENDS Naturals, Sequences

CONSTANTS
    RiskSettings,       \* valid risk sections
    StrategySettings,   \* valid strategy sections
    Missing             \* a section that was never saved

VARIABLES
    past,       \* past[v]: the sections of version v
    taken       \* the snapshots made

vars == <<past, taken>>

\* other: whether the row holds fields neither of the two sections knows.
Sections == [risk : RiskSettings \cup {Missing}, strategy : StrategySettings \cup {Missing},
             other : BOOLEAN]
Nothing == [risk |-> Missing, strategy |-> Missing, other |-> FALSE]
Foreign == [risk |-> Missing, strategy |-> Missing, other |-> TRUE]

Kinds == {"risk", "strategy"}
SettingsOf(kind) == IF kind = "risk" THEN RiskSettings ELSE StrategySettings

\* A snapshot names the version its risk section is of.
Snapshot == [purpose : {"paper", "research"}, version : Nat,
             risk : RiskSettings, strategy : StrategySettings]

Init ==
    /\ past \in {<<>>, <<Foreign>>}
    /\ taken = {}

Current == IF past = <<>> THEN Nothing ELSE past[Len(past)]

Save(kind, value) ==
    /\ past' = Append(past, [Current EXCEPT ![kind] = value])
    /\ UNCHANGED taken

(* The risk section is of the version named, the strategy of the same or of *)
(* a later one.                                                             *)
Take(purpose, v, w) ==
    /\ v <= w
    /\ past[v].risk # Missing
    /\ past[w].strategy # Missing
    /\ taken' = taken \cup {[purpose |-> purpose, version |-> v,
                             risk |-> past[v].risk, strategy |-> past[w].strategy]}
    /\ UNCHANGED past

Next ==
    \/ \E kind \in Kinds : \E value \in SettingsOf(kind) : Save(kind, value)
    \/ \E purpose \in {"paper", "research"} : \E v, w \in DOMAIN past : Take(purpose, v, w)

Spec == Init /\ [][Next]_vars
=============================================================================
