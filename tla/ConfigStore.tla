---------------------------- MODULE ConfigStore ----------------------------
(***************************************************************************)
(* The runtime configuration and those who save and use it: the dashboard's *)
(* forms (web/api.py), save_risk_configuration, save_strategy_configuration *)
(* and save_application_configuration, and the snapshots that paper_create  *)
(* and research_run take of it.                                             *)
(*                                                                         *)
(* A request that saves reads the row and later updates it if the version   *)
(* is still the same; a request that takes a snapshot reads the risk        *)
(* section, waits for the exchange to verify its leverages, reads it again  *)
(* and then the strategy.  A SELECT starts no transaction in SQLite here:   *)
(* each sees the row of its own moment.  What lies between two awaits of a  *)
(* request is a step of its process's event loop, which other requests of   *)
(* that process do not enter; those of another process do.                  *)
(***************************************************************************)
EXTENDS Naturals, Sequences, FiniteSets

CONSTANTS
    RiskSettings, StrategySettings, Missing,
    Owners,         \* owners with the dashboard open
    Deployments,    \* [Owners -> processes]: which process may serve whom
    MaxVersion      \* bound on the versions of the row

VARIABLES
    home,       \* the deployment
    runtime,    \* the row of application_configuration
    records,    \* the strategies with a row in strategy_configurations
    active,     \* whether some paper run is not stopped
    taken,      \* the configurations of paper_runs and backtest_runs rows
    desk,       \* desk[o]: the request of owner o
    past        \* past[v]: the sections of version v (history)

vars == <<home, runtime, records, active, taken, desk, past>>

Register == INSTANCE ConfigRegister
Sections == Register!Sections
Nothing == Register!Nothing
Kinds == Register!Kinds
SettingsOf(kind) == Register!SettingsOf(kind)

ASSUME StoreAssumption ==
    /\ Missing \notin RiskSettings \cup StrategySettings
    /\ Deployments # {}
    /\ \A d \in Deployments : DOMAIN d = Owners
    /\ MaxVersion \in Nat \ {0}

\* Version 0: there is no row.
Runtime == [version : 0..MaxVersion, sections : Sections]

(* job: what the request is about; expected and seen: the version and the   *)
(* sections it is based on; value: what it saves, or the strategy it took;  *)
(* base: the sections it read to save them.                                 *)
Jobs == Kinds \cup {"paper", "research"}
Points == {"idle", "form", "verifying", "saving", "write",
           "confirming", "taking", "strategy", "storing", "fetching"}
Request == [pc : Points, job : Jobs, expected : 0..MaxVersion, seen : Sections,
            value : RiskSettings \cup StrategySettings \cup {Missing}, base : Sections]
Idle == [pc |-> "idle", job |-> "risk", expected |-> 0, seen |-> Nothing,
         value |-> Missing, base |-> Nothing]

Init ==
    /\ home \in Deployments
    /\ runtime \in {[version |-> 0, sections |-> Nothing],
                    [version |-> 1, sections |-> Register!Foreign]}
    /\ past = IF runtime.version = 0 THEN <<>> ELSE <<runtime.sections>>
    /\ records = {}
    /\ active = FALSE
    /\ taken = {}
    /\ desk = [o \in Owners |-> Idle]

\* Bug: the version of the row is not compared.
AnyVersion(o) == TRUE

\* Nobody has saved since the version the request is based on.
VersionMatches(o) == runtime.version = desk[o].expected

\* No other request of the process is between two awaits.
Runs(o) ==
    \A other \in Owners \ {o} :
        home[other] = home[o] => desk[other].pc \notin {"write", "strategy", "storing"}

Done(o) == desk' = [desk EXCEPT ![o] = Idle]
Goes(o, pc) == desk' = [desk EXCEPT ![o].pc = pc]

\* A request based on the row as it is.
Based(pc, job) == [pc |-> pc, job |-> job, expected |-> runtime.version,
                   seen |-> runtime.sections, value |-> Missing, base |-> Nothing]

-----------------------------------------------------------------------------
(* Saving a section.                                                        *)

\* GET /api/config/{kind}: the form shows the section and keeps the version.
OpenForm(o, kind) ==
    /\ desk[o].pc = "idle"
    /\ runtime.version < MaxVersion
    /\ desk' = [desk EXCEPT ![o] = Based("form", kind)]
    /\ UNCHANGED <<home, runtime, records, active, taken, past>>

\* PUT: leverages of a risk section are verified first, which takes a while.
Submit(o, value) ==
    /\ desk[o].pc = "form"
    /\ desk' = [desk EXCEPT ![o].value = value,
                            ![o].pc = IF desk[o].job = "risk" THEN "verifying" ELSE "saving"]
    /\ UNCHANGED <<home, runtime, records, active, taken, past>>

Verified(o) ==
    /\ desk[o].pc \in {"verifying", "confirming"}
    /\ Goes(o, IF desk[o].pc = "verifying" THEN "saving" ELSE "taking")
    /\ UNCHANGED <<home, runtime, records, active, taken, past>>

SaveRead(o) ==
    /\ desk[o].pc = "saving"
    /\ Runs(o)
    /\ \/ /\ VersionMatches(o)
          /\ desk' = [desk EXCEPT ![o].pc = "write", ![o].base = runtime.sections]
       \/ ~VersionMatches(o) /\ Done(o)
    /\ UNCHANGED <<home, runtime, records, active, taken, past>>

\* Bug: only the first strategy is recorded.
RecordsOnce(o) ==
    IF desk[o].job = "strategy" /\ records = {} THEN {desk[o].value} ELSE records

\* A strategy saved is recorded once, whoever saved it before.
RecordsAfter(o) == IF desk[o].job = "strategy" THEN records \cup {desk[o].value} ELSE records

(* UPDATE ... WHERE version = expected, or the INSERT of the first version, *)
(* with the record of the strategy in the same transaction.                 *)
SaveWrite(o) ==
    /\ desk[o].pc = "write"
    /\ \/ /\ VersionMatches(o)
          /\ LET sections == [desk[o].base EXCEPT ![desk[o].job] = desk[o].value]
             IN  /\ runtime' = [version |-> desk[o].expected + 1, sections |-> sections]
                 /\ past' = Append(past, sections)
          /\ records' = RecordsAfter(o)
       \/ ~VersionMatches(o) /\ UNCHANGED <<runtime, past, records>>
    /\ Done(o)
    /\ UNCHANGED <<home, active, taken>>

-----------------------------------------------------------------------------
(* Taking a snapshot.                                                       *)

\* One research run at a time is executed by a process.
ResearchSlotFree(o) ==
    \A other \in Owners \ {o} : home[other] = home[o] =>
        desk[other].job # "research" \/ desk[other].pc = "idle"

StartSnapshot(o, job) ==
    /\ desk[o].pc = "idle"
    /\ runtime.sections.risk # Missing
    /\ job = "research" => ResearchSlotFree(o)
    /\ desk' = [desk EXCEPT ![o] = Based("confirming", job)]
    /\ UNCHANGED <<home, runtime, records, active, taken, past>>

\* Bug: verified settings are used whatever was saved meanwhile; the version
\* recorded is that of the row.
UsesVerified(o) == desk' = [desk EXCEPT ![o].pc = "strategy", ![o].expected = runtime.version]

\* The risk settings verified are those in force.
TakeRiskIfUnchanged(o) == IF VersionMatches(o) THEN Goes(o, "strategy") ELSE Done(o)

TakeRisk(o) ==
    /\ desk[o].pc = "taking"
    /\ Runs(o)
    /\ \/ /\ desk[o].job = "paper" => ~active
          /\ TakeRiskIfUnchanged(o)
       \/ desk[o].job = "paper" /\ active /\ Done(o)
    /\ UNCHANGED <<home, runtime, records, active, taken, past>>

TakeStrategy(o) ==
    /\ desk[o].pc = "strategy"
    /\ IF runtime.sections.strategy = Missing THEN Done(o)
       ELSE desk' = [desk EXCEPT ![o].value = runtime.sections.strategy,
                                 ![o].pc = IF desk[o].job = "paper" THEN "storing"
                                           ELSE "fetching"]
    /\ UNCHANGED <<home, runtime, records, active, taken, past>>

\* The row of the run; a second active run violates a unique index.
Store(o) ==
    /\ \/ desk[o].pc = "storing"
       \/ desk[o].pc = "fetching" /\ Runs(o)
    /\ IF desk[o].job = "paper" /\ active THEN UNCHANGED <<active, taken>>
       ELSE /\ taken' = taken \cup {[purpose |-> desk[o].job, version |-> desk[o].expected,
                                     risk |-> desk[o].seen.risk, strategy |-> desk[o].value]}
            /\ active' = (active \/ desk[o].job = "paper")
    /\ Done(o)
    /\ UNCHANGED <<home, runtime, records, past>>

-----------------------------------------------------------------------------
\* The paper run is stopped.
StopRun ==
    /\ active
    /\ active' = FALSE
    /\ UNCHANGED <<home, runtime, records, taken, desk, past>>

\* A refusal by the exchange or a validation, a closed tab, the end of the process.
Abandon(o) ==
    /\ desk[o].pc # "idle"
    /\ Done(o)
    /\ UNCHANGED <<home, runtime, records, active, taken, past>>

Next ==
    \/ \E o \in Owners :
        \/ \E kind \in Kinds : OpenForm(o, kind)
        \/ \E value \in SettingsOf(desk[o].job) : Submit(o, value)
        \/ Verified(o)
        \/ SaveRead(o)
        \/ SaveWrite(o)
        \/ \E job \in {"paper", "research"} : StartSnapshot(o, job)
        \/ TakeRisk(o)
        \/ TakeStrategy(o)
        \/ Store(o)
        \/ Abandon(o)
    \/ StopRun

Spec == Init /\ [][Next]_vars

-----------------------------------------------------------------------------
TypeOK ==
    /\ home \in Deployments
    /\ runtime \in Runtime
    /\ records \subseteq StrategySettings
    /\ active \in BOOLEAN
    /\ taken \subseteq Register!Snapshot
    /\ desk \in [Owners -> Request]
    /\ past \in Seq(Sections)

(* Every strategy that ever was in force has its immutable record, and only *)
(* those do: what was rolled back left none.                                *)
StrategiesAreRecorded ==
    records = {past[v].strategy : v \in DOMAIN past} \ {Missing}

(* A paper run or a study is made of settings that were in force together,  *)
(* and a run names their version, however long the exchange took to verify  *)
(* them.  This needs one process: requests of a second one could save       *)
(* between the two reads.                                                   *)
SnapshotsAreOfOneVersion ==
    (\A o, other \in Owners : home[o] = home[other]) =>
        \A snapshot \in taken :
            /\ snapshot.version \in DOMAIN past
            /\ snapshot.risk = past[snapshot.version].risk
            /\ snapshot.strategy = past[snapshot.version].strategy

(* "Preserves unrelated runtime fields and rejects stale updates": with any *)
(* number of owners and processes the row moves from version to version by  *)
(* one section, and nothing is taken from settings that never were saved.   *)
Lifecycle == Register!Spec

(* What an owner replaces is what the form showed, down to the sections it  *)
(* does not edit.                                                           *)
OwnersReplaceWhatTheySaw ==
    [][\A o \in Owners : desk[o].pc = "write" /\ desk'[o].pc = "idle" /\ runtime' # runtime
          => runtime.sections = desk[o].seen]_vars
=============================================================================
