------------------------- MODULE ConfigStoreProofs -------------------------
(***************************************************************************)
(* Any number of owners, processes, settings and versions.                  *)
(***************************************************************************)
EXTENDS ConfigStore, TLAPS

\* What version v of the row held.
At(v) == IF v = 0 THEN Nothing ELSE past[v]

RowIsHistory ==
    /\ Len(past) = runtime.version
    /\ runtime.sections = At(runtime.version)

Saving == {"form", "verifying", "saving", "write"}
Taking == {"confirming", "taking", "strategy", "storing", "fetching"}

(* What a request relies on: the sections it is based on are those of the   *)
(* version it expects, and the strategy it took is of that or a later one.  *)
Informed(o) ==
    LET d == desk[o]
    IN  /\ d.pc # "idle" => d.expected <= runtime.version /\ d.seen = At(d.expected)
        /\ d.pc \in Saving => d.job \in Kinds /\ d.expected < MaxVersion
        /\ d.pc \in Saving \ {"form"} => d.value \in SettingsOf(d.job)
        /\ d.pc = "write" => d.base = d.seen
        /\ d.pc \in Taking => d.job \in {"paper", "research"} /\ d.seen.risk # Missing
        /\ d.pc \in {"storing", "fetching"} =>
             /\ d.value # Missing
             /\ \E w \in DOMAIN past : d.expected <= w /\ d.value = past[w].strategy

IInv ==
    /\ TypeOK
    /\ RowIsHistory
    /\ \A o \in Owners : Informed(o)

-----------------------------------------------------------------------------
(* The sections with one replaced are sections.                             *)
LEMMA SectionsReplaced ==
    ASSUME NEW s \in Sections, NEW kind \in Kinds, NEW value \in SettingsOf(kind)
    PROVE  [s EXCEPT ![kind] = value] \in Sections
BY DEF Sections, Kinds, SettingsOf, Register!Sections, Register!Kinds, Register!SettingsOf

(* Nothing saved is a legal content.                                        *)
LEMMA NothingIsSections ==
    Nothing \in Sections /\ Nothing.risk = Missing /\ Nothing.strategy = Missing
BY DEF Nothing, Sections, Register!Nothing, Register!Sections

(* Every version held sections.                                             *)
LEMMA AtIsSections ==
    ASSUME past \in Seq(Sections), NEW v \in Nat, v <= Len(past)
    PROVE  At(v) \in Sections
BY NothingIsSections DEF At

(* Requests keep their types.                                               *)
LEMMA RequestFields ==
    ASSUME desk \in [Owners -> Request], NEW o \in Owners
    PROVE  /\ desk[o].pc \in Points /\ desk[o].job \in Jobs
           /\ desk[o].expected \in 0..MaxVersion
           /\ desk[o].seen \in Sections /\ desk[o].base \in Sections
           /\ desk[o].value \in RiskSettings \cup StrategySettings \cup {Missing}
           /\ desk[o] \in Request
BY DEF Request

(* Before any request is made the row and its history decide.               *)
LEMMA EmptyHolds ==
    ASSUME Init, Idle \in Request, runtime \in Runtime, past \in Seq(Sections), RowIsHistory
    PROVE  IInv
<1>1. TypeOK
  BY DEF TypeOK, Init
<1>2. ASSUME NEW o \in Owners PROVE Informed(o)
  <2>1. desk[o] = Idle
    BY DEF Init
  <2> QED BY <2>1 DEF Informed, Idle, Saving, Taking
<1> QED BY <1>1, <1>2 DEF IInv

(* Initially nothing is asked and the history is the row.                   *)
LEMMA InitHolds == Init => IInv
<1> SUFFICES ASSUME Init PROVE IInv
  OBVIOUS
<1>1. Register!Foreign \in Sections
  BY DEF Register!Foreign, Sections, Register!Sections
<1>2. Idle \in Request
  BY NothingIsSections, StoreAssumption
     DEF Idle, Request, Points, Jobs, Kinds, Register!Kinds
<1>3. CASE runtime = [version |-> 0, sections |-> Nothing]
  <2>1. past = <<>>
    BY <1>3 DEF Init
  <2>2. runtime \in Runtime
    BY <1>3, NothingIsSections, StoreAssumption DEF Runtime
  <2>3. RowIsHistory
    BY <1>3, <2>1 DEF RowIsHistory, At
  <2>4. past \in Seq(Sections)
    BY <2>1
  <2> QED BY <1>2, <2>2, <2>3, <2>4, EmptyHolds
<1>4. CASE runtime = [version |-> 1, sections |-> Register!Foreign]
  <2>1. past = <<Register!Foreign>>
    BY <1>4 DEF Init
  <2>2. runtime \in Runtime
    BY <1>4, <1>1, StoreAssumption DEF Runtime
  <2>3. RowIsHistory
    BY <1>4, <2>1 DEF RowIsHistory, At
  <2>4. past \in Seq(Sections)
    BY <1>1, <2>1
  <2> QED BY <1>2, <2>2, <2>3, <2>4, EmptyHolds
<1> QED BY <1>3, <1>4 DEF Init

-----------------------------------------------------------------------------
(* A step that leaves the row alone and changes one request keeps the       *)
(* invariant if it keeps it for that request.                               *)
LEMMA RequestStep ==
    ASSUME IInv, NEW o \in Owners, NEW d \in Request,
           desk' = [desk EXCEPT ![o] = d],
           UNCHANGED <<home, runtime, past>>,
           records' \subseteq StrategySettings, active' \in BOOLEAN,
           taken' \subseteq Register!Snapshot,
           Informed(o)'
    PROVE  IInv'
<1>1. TypeOK'
  BY DEF IInv, TypeOK, Runtime
<1>2. RowIsHistory'
  BY DEF IInv, RowIsHistory, At
<1>3. ASSUME NEW other \in Owners PROVE Informed(other)'
  <2>1. CASE other = o
    BY <2>1
  <2>2. CASE other # o
    <3>1. desk'[other] = desk[other]
      BY <2>2 DEF IInv, TypeOK
    <3>2. Informed(other)
      BY DEF IInv
    <3> QED BY <3>1, <3>2 DEF Informed, At
  <2> QED BY <2>1, <2>2
<1> QED BY <1>1, <1>2, <1>3 DEF IInv

(* A request that ends keeps it.                                            *)
LEMMA DoneHolds ==
    ASSUME IInv, NEW o \in Owners, Done(o), UNCHANGED <<home, runtime, past>>,
           records' \subseteq StrategySettings, active' \in BOOLEAN,
           taken' \subseteq Register!Snapshot
    PROVE  IInv'
<1>1. Idle \in Request
  BY NothingIsSections, StoreAssumption
     DEF Idle, Request, Points, Jobs, Kinds, Register!Kinds
<1>2. desk' = [desk EXCEPT ![o] = Idle] /\ desk'[o] = Idle
  BY DEF Done, IInv, TypeOK
<1>3. Informed(o)'
  BY <1>2 DEF Informed, Idle, Saving, Taking
<1> QED BY <1>1, <1>2, <1>3, RequestStep

-----------------------------------------------------------------------------
(* One lemma for each step of a request that leaves the row alone.          *)

(* A request based on the row as it is relies on nothing else.              *)
LEMMA BasedHolds ==
    ASSUME IInv, NEW o \in Owners, NEW pc \in {"form", "confirming"}, NEW job \in Jobs,
           desk' = [desk EXCEPT ![o] = Based(pc, job)],
           UNCHANGED <<home, runtime, records, active, taken, past>>,
           pc = "form" => job \in Kinds /\ runtime.version < MaxVersion,
           pc = "confirming" => job \in {"paper", "research"}
                                /\ runtime.sections.risk # Missing
    PROVE  IInv'
<1>1. Based(pc, job) \in Request
  BY NothingIsSections DEF Based, Request, Points, IInv, TypeOK, Runtime
<1>2. desk'[o] = Based(pc, job)
  BY DEF IInv, TypeOK
<1>3. /\ desk'[o].pc = pc /\ desk'[o].job = job /\ desk'[o].expected = runtime.version
      /\ desk'[o].seen = runtime.sections
  BY <1>2 DEF Based
<1>4. runtime.version \in Nat /\ runtime.sections = At(runtime.version)
  BY DEF IInv, TypeOK, Runtime, RowIsHistory
<1>5. Informed(o)'
  BY <1>3, <1>4 DEF Informed, Saving, Taking, At
<1>6. records' \subseteq StrategySettings /\ active' \in BOOLEAN /\ taken' \subseteq Register!Snapshot
  BY DEF IInv, TypeOK
<1> QED BY <1>1, <1>5, <1>6, RequestStep

(* A form starts from the row.                                              *)
LEMMA OpenFormHolds ==
    ASSUME IInv, NEW o \in Owners, NEW kind \in Kinds, OpenForm(o, kind)
    PROVE  IInv'
BY BasedHolds DEF OpenForm, Jobs

(* A snapshot starts from the row, which has a risk section.                *)
LEMMA StartSnapshotHolds ==
    ASSUME IInv, NEW o \in Owners, NEW job \in {"paper", "research"}, StartSnapshot(o, job)
    PROVE  IInv'
BY BasedHolds DEF StartSnapshot, Jobs

(* What is submitted is a value of the section it is about.                 *)
LEMMA SubmitHolds ==
    ASSUME IInv, NEW o \in Owners, NEW value \in SettingsOf(desk[o].job), Submit(o, value)
    PROVE  IInv'
<1> DEFINE pc == IF desk[o].job = "risk" THEN "verifying" ELSE "saving"
           d == [desk[o] EXCEPT !.value = value, !.pc = pc]
<1>1. desk \in [Owners -> Request] /\ Informed(o)
  BY DEF IInv, TypeOK
<1>2. value \in RiskSettings \cup StrategySettings \cup {Missing}
  BY DEF SettingsOf, Register!SettingsOf
<1>3. d \in Request
  BY <1>1, <1>2, RequestFields DEF Request, Points
<1>4. desk' = [desk EXCEPT ![o] = d] /\ desk'[o] = d
  BY <1>1 DEF Submit
<1>5. /\ d.pc \in {"verifying", "saving"} /\ d.job = desk[o].job /\ d.value = value
      /\ d.expected = desk[o].expected /\ d.seen = desk[o].seen
  BY <1>1, RequestFields DEF Request
<1> HIDE DEF d
<1>6. Informed(o)'
  BY <1>1, <1>4, <1>5 DEF Informed, Submit, Saving, Taking, At
<1>7. records' \subseteq StrategySettings /\ active' \in BOOLEAN /\ taken' \subseteq Register!Snapshot
  BY DEF IInv, TypeOK, Submit
<1> QED BY <1>3, <1>4, <1>6, <1>7, RequestStep DEF Submit

(* A request that only moves on keeps what it relies on.                    *)
LEMMA GoesHolds ==
    ASSUME IInv, NEW o \in Owners, NEW pc \in Points, Goes(o, pc),
           UNCHANGED <<home, runtime, records, active, taken, past>>,
           \/ desk[o].pc = "verifying" /\ pc = "saving"
           \/ desk[o].pc \in {"confirming", "taking"} /\ pc \in {"taking", "strategy"}
    PROVE  IInv'
<1> DEFINE d == [desk[o] EXCEPT !.pc = pc]
<1>1. desk \in [Owners -> Request] /\ Informed(o)
  BY DEF IInv, TypeOK
<1>2. d \in Request
  BY <1>1, RequestFields DEF Request
<1>3. desk' = [desk EXCEPT ![o] = d] /\ desk'[o] = d
  BY <1>1 DEF Goes
<1>4. /\ d.pc = pc /\ d.job = desk[o].job /\ d.value = desk[o].value
      /\ d.expected = desk[o].expected /\ d.seen = desk[o].seen
  BY <1>1, RequestFields DEF Request
<1> HIDE DEF d
<1>5. Informed(o)'
  BY <1>1, <1>3, <1>4 DEF Informed, Saving, Taking, At
<1>6. records' \subseteq StrategySettings /\ active' \in BOOLEAN /\ taken' \subseteq Register!Snapshot
  BY DEF IInv, TypeOK
<1> QED BY <1>2, <1>3, <1>5, <1>6, RequestStep

(* The exchange's answer changes nothing but the point reached.             *)
LEMMA VerifiedHolds == ASSUME IInv, NEW o \in Owners, Verified(o) PROVE IInv'
<1>1. CASE desk[o].pc = "verifying"
  BY <1>1, GoesHolds DEF Verified, Points
<1>2. CASE desk[o].pc = "confirming"
  BY <1>2, GoesHolds DEF Verified, Points
<1> QED BY <1>1, <1>2 DEF Verified

(* A row read at the version expected is the row the form showed.           *)
LEMMA SaveReadHolds == ASSUME IInv, NEW o \in Owners, SaveRead(o) PROVE IInv'
<1> DEFINE d == [desk[o] EXCEPT !.pc = "write", !.base = runtime.sections]
<1>1. desk \in [Owners -> Request] /\ Informed(o)
  BY DEF IInv, TypeOK
<1>2. records' \subseteq StrategySettings /\ active' \in BOOLEAN /\ taken' \subseteq Register!Snapshot
  BY DEF IInv, TypeOK, SaveRead
<1>3. CASE Done(o)
  BY <1>2, <1>3, DoneHolds DEF SaveRead
<1>4. CASE VersionMatches(o) /\ desk' = [desk EXCEPT ![o].pc = "write", ![o].base = runtime.sections]
  <2>1. runtime.sections \in Sections /\ runtime.version \in Nat
    BY DEF IInv, TypeOK, Runtime
  <2>2. d \in Request
    BY <1>1, <2>1, RequestFields DEF Request, Points
  <2>3. desk' = [desk EXCEPT ![o] = d] /\ desk'[o] = d
    BY <1>1, <1>4
  <2>4. /\ d.pc = "write" /\ d.job = desk[o].job /\ d.value = desk[o].value
        /\ d.expected = desk[o].expected /\ d.seen = desk[o].seen
        /\ d.base = runtime.sections
    BY <1>1, RequestFields DEF Request
  <2>5. desk[o].pc = "saving" /\ desk[o].expected = runtime.version
    BY <1>4 DEF SaveRead, VersionMatches
  <2>6. runtime.sections = At(runtime.version)
    BY DEF IInv, RowIsHistory
  <2>7. UNCHANGED <<home, runtime, past>>
    BY DEF SaveRead
  <2> HIDE DEF d
  <2>8. Informed(o)'
    BY <1>1, <2>1, <2>3, <2>4, <2>5, <2>6, <2>7 DEF Informed, Saving, Taking, At
  <2> QED BY <1>2, <2>2, <2>3, <2>7, <2>8, RequestStep
<1> QED BY <1>3, <1>4 DEF SaveRead

(* The settings verified are taken or the request is refused.               *)
LEMMA TakeRiskHolds == ASSUME IInv, NEW o \in Owners, TakeRisk(o) PROVE IInv'
<1>1. records' \subseteq StrategySettings /\ active' \in BOOLEAN /\ taken' \subseteq Register!Snapshot
  BY DEF IInv, TypeOK, TakeRisk
<1>2. CASE Done(o)
  BY <1>1, <1>2, DoneHolds DEF TakeRisk
<1>3. CASE Goes(o, "strategy")
  BY <1>3, GoesHolds DEF TakeRisk, Points
<1> QED BY <1>2, <1>3 DEF TakeRisk, TakeRiskIfUnchanged

(* The strategy taken is the one of the row.                                *)
LEMMA TakeStrategyHolds == ASSUME IInv, NEW o \in Owners, TakeStrategy(o) PROVE IInv'
<1> DEFINE pc == IF desk[o].job = "paper" THEN "storing" ELSE "fetching"
           value == runtime.sections.strategy
           d == [desk[o] EXCEPT !.value = value, !.pc = pc]
<1>1. desk \in [Owners -> Request] /\ Informed(o)
  BY DEF IInv, TypeOK
<1>2. records' \subseteq StrategySettings /\ active' \in BOOLEAN /\ taken' \subseteq Register!Snapshot
  BY DEF IInv, TypeOK, TakeStrategy
<1>3. CASE Done(o)
  BY <1>2, <1>3, DoneHolds DEF TakeStrategy
<1>4. CASE ~Done(o)
  <2>1. /\ runtime.sections \in Sections /\ runtime.version \in Nat /\ past \in Seq(Sections)
        /\ Len(past) = runtime.version /\ runtime.sections = At(runtime.version)
    BY DEF IInv, TypeOK, Runtime, RowIsHistory
  <2>2. value \in StrategySettings \cup {Missing}
    BY <2>1 DEF Sections, Register!Sections
  <2>3. d \in Request
    BY <1>1, <2>2, RequestFields DEF Request, Points
  <2>4. desk' = [desk EXCEPT ![o] = d] /\ desk'[o] = d /\ value # Missing
    BY <1>1, <1>4 DEF TakeStrategy
  <2>5. /\ d.pc \in {"storing", "fetching"} /\ d.job = desk[o].job /\ d.value = value
        /\ d.expected = desk[o].expected /\ d.seen = desk[o].seen
    BY <1>1, RequestFields DEF Request
  <2>6. desk[o].pc = "strategy" /\ UNCHANGED <<home, runtime, past>>
    BY DEF TakeStrategy
  <2>7. runtime.version \in DOMAIN past /\ value = past[runtime.version].strategy
    <3>1. runtime.version # 0
      BY <2>1, <2>4, NothingIsSections DEF At
    <3> QED BY <2>1, <3>1 DEF At
  <2> HIDE DEF d, value
  <2>8. Informed(o)'
    <3>1. desk[o].expected <= runtime.version
      BY <1>1, <2>6 DEF Informed
    <3>2. \E w \in DOMAIN past' : d.expected <= w /\ d.value = past'[w].strategy
      BY <2>5, <2>6, <2>7, <3>1
    <3> QED BY <1>1, <2>4, <2>5, <2>6, <3>2 DEF Informed, Saving, Taking, At
  <2> QED BY <1>2, <2>3, <2>4, <2>6, <2>8, RequestStep
<1> QED BY <1>3, <1>4

(* A request that stores holds what Register!Take asks for.                 *)
LEMMA SnapshotTaken ==
    ASSUME IInv, NEW o \in Owners, desk[o].pc \in {"storing", "fetching"}
    PROVE  /\ desk[o].job \in {"paper", "research"}
           /\ desk[o].expected \in DOMAIN past
           /\ desk[o].seen = past[desk[o].expected]
           /\ desk[o].seen.risk # Missing
           /\ \E w \in DOMAIN past : /\ desk[o].expected <= w /\ past[w].strategy # Missing
                                      /\ desk[o].value = past[w].strategy
           /\ [purpose |-> desk[o].job, version |-> desk[o].expected,
               risk |-> desk[o].seen.risk, strategy |-> desk[o].value] \in Register!Snapshot
<1>1. desk \in [Owners -> Request] /\ Informed(o) /\ past \in Seq(Sections)
      /\ runtime.version \in Nat /\ Len(past) = runtime.version
  BY DEF IInv, TypeOK, Runtime, RowIsHistory
<1>2. /\ desk[o].job \in {"paper", "research"} /\ desk[o].seen.risk # Missing
      /\ desk[o].expected <= runtime.version /\ desk[o].seen = At(desk[o].expected)
      /\ desk[o].value # Missing
      /\ \E w \in DOMAIN past : desk[o].expected <= w /\ desk[o].value = past[w].strategy
  BY <1>1 DEF Informed, Taking
<1>3. desk[o].expected # 0
  BY <1>2, NothingIsSections DEF At
<1>4. desk[o].expected \in Nat
  BY <1>1, RequestFields, StoreAssumption
<1>5. desk[o].expected \in DOMAIN past /\ desk[o].seen = past[desk[o].expected]
  BY <1>1, <1>2, <1>3, <1>4 DEF At
<1>6. desk[o].seen.risk \in RiskSettings
  BY <1>1, <1>2, RequestFields DEF Sections, Register!Sections
<1>7. desk[o].value \in StrategySettings
  <2>1. PICK w \in DOMAIN past : desk[o].value = past[w].strategy
    BY <1>2
  <2>2. past[w] \in Sections
    BY <1>1
  <2> QED BY <1>2, <2>1, <2>2 DEF Sections, Register!Sections
<1> QED BY <1>2, <1>4, <1>5, <1>6, <1>7 DEF Register!Snapshot

(* A row of a run holds a legal snapshot.                                   *)
LEMMA StoreHolds == ASSUME IInv, NEW o \in Owners, Store(o) PROVE IInv'
<1>1. records' \subseteq StrategySettings /\ taken \subseteq Register!Snapshot /\ active \in BOOLEAN
  BY DEF IInv, TypeOK, Store
<1>2. taken' \subseteq Register!Snapshot
  BY <1>1, SnapshotTaken DEF Store
<1>3. active' \in BOOLEAN
  <2>1. CASE UNCHANGED active
    BY <1>1, <2>1
  <2>2. CASE active' = (active \/ desk[o].job = "paper")
    BY <2>2
  <2> QED BY <2>1, <2>2 DEF Store
<1> QED BY <1>1, <1>2, <1>3, DoneHolds DEF Store

(* Giving up disturbs nothing.                                              *)
LEMMA AbandonHolds == ASSUME IInv, NEW o \in Owners, Abandon(o) PROVE IInv'
BY DoneHolds DEF Abandon, IInv, TypeOK

(* Nor does stopping a run.                                                 *)
LEMMA StopRunHolds == ASSUME IInv, StopRun PROVE IInv'
<1>1. TypeOK'
  BY DEF IInv, TypeOK, StopRun, Runtime
<1> QED BY <1>1 DEF IInv, StopRun, RowIsHistory, Informed, At

(* A version is added; those before it keep what they held.                 *)
LEMMA HistoryGrows ==
    ASSUME IInv, NEW s \in Sections, past' = Append(past, s)
    PROVE  /\ past' \in Seq(Sections) /\ Len(past') = runtime.version + 1
           /\ past'[runtime.version + 1] = s
           /\ \A w \in DOMAIN past : w \in DOMAIN past' /\ past'[w] = past[w]
           /\ \A v \in 0..runtime.version : At(v)' = At(v)
<1>1. past \in Seq(Sections) /\ Len(past) = runtime.version /\ runtime.version \in Nat
  BY DEF IInv, TypeOK, Runtime, RowIsHistory
<1>2. /\ past' \in Seq(Sections) /\ Len(past') = runtime.version + 1
      /\ past'[runtime.version + 1] = s
      /\ \A w \in DOMAIN past : w \in DOMAIN past' /\ past'[w] = past[w]
  BY <1>1
<1>3. ASSUME NEW v \in 0..runtime.version PROVE At(v)' = At(v)
  <2>1. CASE v = 0
    BY <2>1 DEF At
  <2>2. CASE v # 0
    <3>1. v \in DOMAIN past
      BY <1>1, <2>2
    <3> QED BY <1>2, <2>2, <3>1 DEF At
  <2> QED BY <2>1, <2>2
<1> QED BY <1>2, <1>3

(* What a request that writes at the version it expects leaves behind.      *)
LEMMA WriteSaves ==
    ASSUME IInv, NEW o \in Owners, SaveWrite(o), VersionMatches(o)
    PROVE  /\ desk[o].job \in Kinds /\ desk[o].value \in SettingsOf(desk[o].job)
           /\ desk[o].base = runtime.sections /\ desk[o].seen = runtime.sections
           /\ runtime.sections \in Sections /\ runtime.version < MaxVersion
           /\ [runtime.sections EXCEPT ![desk[o].job] = desk[o].value] \in Sections
           /\ past' = Append(past, [runtime.sections EXCEPT ![desk[o].job] = desk[o].value])
           /\ runtime' = [version |-> runtime.version + 1,
                          sections |-> [runtime.sections EXCEPT ![desk[o].job] = desk[o].value]]
<1>1. desk[o].pc = "write" /\ desk[o].expected = runtime.version
  BY DEF SaveWrite, VersionMatches
<1>2. Informed(o) /\ runtime.sections = At(runtime.version) /\ runtime.sections \in Sections
  BY DEF IInv, RowIsHistory, TypeOK, Runtime
<1>3. /\ desk[o].job \in Kinds /\ desk[o].value \in SettingsOf(desk[o].job)
      /\ desk[o].base = runtime.sections /\ desk[o].seen = runtime.sections
      /\ runtime.version < MaxVersion
  BY <1>1, <1>2 DEF Informed, Saving
<1>4. [runtime.sections EXCEPT ![desk[o].job] = desk[o].value] \in Sections
  BY <1>2, <1>3, SectionsReplaced
<1> QED BY <1>1, <1>2, <1>3, <1>4 DEF SaveWrite

(* Saving adds a version and disturbs no other request.                     *)
LEMMA SaveWriteHolds == ASSUME IInv, NEW o \in Owners, SaveWrite(o) PROVE IInv'
<1>1. /\ desk \in [Owners -> Request] /\ runtime \in Runtime /\ past \in Seq(Sections)
      /\ records \subseteq StrategySettings /\ active \in BOOLEAN
      /\ taken \subseteq Register!Snapshot /\ home \in Deployments
  BY DEF IInv, TypeOK
<1>2. CASE ~VersionMatches(o)
  BY <1>1, <1>2, DoneHolds DEF SaveWrite
<1>3. CASE VersionMatches(o)
  <2> DEFINE s == [runtime.sections EXCEPT ![desk[o].job] = desk[o].value]
  <2>1. /\ s \in Sections /\ past' = Append(past, s) /\ runtime.version < MaxVersion
        /\ runtime' = [version |-> runtime.version + 1, sections |-> s]
    BY <1>3, WriteSaves
  <2> HIDE DEF s
  <2>2. runtime.version \in Nat /\ MaxVersion \in Nat
    BY <1>1, StoreAssumption DEF Runtime
  <2>3. /\ past' \in Seq(Sections) /\ Len(past') = runtime.version + 1
        /\ past'[runtime.version + 1] = s
        /\ \A w \in DOMAIN past : w \in DOMAIN past' /\ past'[w] = past[w]
        /\ \A v \in 0..runtime.version : At(v)' = At(v)
    BY <2>1, HistoryGrows
  <2>4. RowIsHistory'
    BY <2>1, <2>2, <2>3 DEF RowIsHistory, At
  <2>5. Idle \in Request
    BY NothingIsSections, StoreAssumption
       DEF Idle, Request, Points, Jobs, Kinds, Register!Kinds
  <2>6. desk' = [desk EXCEPT ![o] = Idle] /\ UNCHANGED <<home, active, taken>>
    BY DEF SaveWrite, Done
  <2>7. records' \subseteq StrategySettings
    <3>1. desk[o].job = "strategy" => desk[o].value \in StrategySettings
      BY <1>3, WriteSaves DEF SettingsOf, Register!SettingsOf
    <3> QED BY <1>1, <1>3, <3>1 DEF SaveWrite, RecordsAfter
  <2>8. TypeOK'
    BY <1>1, <2>1, <2>2, <2>3, <2>5, <2>6, <2>7 DEF TypeOK, Runtime
  <2>9. ASSUME NEW other \in Owners PROVE Informed(other)'
    <3>1. CASE other = o
      <4>1. desk'[other] = Idle
        BY <1>1, <2>6, <3>1
      <4> QED BY <4>1 DEF Informed, Idle, Saving, Taking
    <3>2. CASE other # o
      <4>1. desk'[other] = desk[other] /\ Informed(other)
        BY <1>1, <2>6, <3>2 DEF IInv
      <4>2. desk[other].expected \in 0..MaxVersion
        BY <1>1, RequestFields
      <4>3. desk[other].pc # "idle" =>
              /\ desk[other].expected <= runtime'.version
              /\ desk[other].seen = At(desk[other].expected)'
        <5>1. SUFFICES ASSUME desk[other].pc # "idle"
              PROVE  /\ desk[other].expected <= runtime'.version
                     /\ desk[other].seen = At(desk[other].expected)'
          OBVIOUS
        <5>2. desk[other].expected <= runtime.version /\ desk[other].seen = At(desk[other].expected)
          BY <4>1, <5>1 DEF Informed
        <5>3. desk[other].expected \in 0..runtime.version
          BY <2>2, <4>2, <5>2
        <5> QED BY <2>1, <2>2, <2>3, <4>1, <5>2, <5>3 DEF At
      <4>4. ASSUME NEW w \in DOMAIN past, desk[other].expected <= w,
                   desk[other].value = past[w].strategy
            PROVE  \E x \in DOMAIN past' : desk[other].expected <= x
                                          /\ desk[other].value = past'[x].strategy
        BY <2>3, <4>4
      <4> QED BY <4>1, <4>3, <4>4 DEF Informed, At
    <3> QED BY <3>1, <3>2
  <2> QED BY <2>4, <2>8, <2>9 DEF IInv
<1> QED BY <1>2, <1>3

-----------------------------------------------------------------------------
(* Every step of the store keeps the invariant.                             *)
LEMMA StepHolds == ASSUME IInv, [Next]_vars PROVE IInv'
<1>1. CASE UNCHANGED vars
  BY <1>1 DEF vars, IInv, TypeOK, Runtime, RowIsHistory, Informed, At
<1>2. CASE Next
  BY <1>2, OpenFormHolds, SubmitHolds, VerifiedHolds, SaveReadHolds, SaveWriteHolds,
     StartSnapshotHolds, TakeRiskHolds, TakeStrategyHolds, StoreHolds, AbandonHolds,
     StopRunHolds DEF Next
<1> QED BY <1>1, <1>2

(* The row is its history and a request relies on what it was shown, with   *)
(* any number of owners and processes.                                      *)
THEOREM StoreInvariant == Spec => []IInv
<1>1. Init => IInv
  BY InitHolds
<1>2. IInv /\ [Next]_vars => IInv'
  BY StepHolds
<1> QED BY <1>1, <1>2, PTL DEF Spec

(* The row, the records, the runs and the requests have their types.        *)
THEOREM TypeCorrect == Spec => []TypeOK
<1>1. IInv => TypeOK
  BY DEF IInv
<1> QED BY <1>1, StoreInvariant, PTL

-----------------------------------------------------------------------------
(* Which steps save, and what the others leave alone.                       *)
LEMMA OnlyWritesSave ==
    ASSUME Next, ~(\E o \in Owners : SaveWrite(o) /\ VersionMatches(o))
    PROVE  UNCHANGED <<runtime, past, records>>
BY DEF Next, OpenForm, Submit, Verified, SaveRead, SaveWrite, StartSnapshot, TakeRisk,
       TakeStrategy, Store, StopRun, Abandon

(* Only a stored run adds a snapshot.                                       *)
LEMMA OnlyStoresTake ==
    ASSUME Next, ~(\E o \in Owners : Store(o))
    PROVE  UNCHANGED taken
BY DEF Next, OpenForm, Submit, Verified, SaveRead, SaveWrite, StartSnapshot, TakeRisk,
       TakeStrategy, StopRun, Abandon

(* A write at the version expected is a save of the register.               *)
LEMMA WriteRefines ==
    ASSUME IInv, NEW o \in Owners, SaveWrite(o), VersionMatches(o)
    PROVE  Register!Next
<1>1. /\ desk[o].job \in Kinds /\ desk[o].value \in SettingsOf(desk[o].job)
      /\ past' = Append(past, [runtime.sections EXCEPT ![desk[o].job] = desk[o].value])
  BY WriteSaves
<1>2. runtime.sections = Register!Current
  <2>1. /\ runtime.sections = At(runtime.version) /\ Len(past) = runtime.version
        /\ past \in Seq(Sections)
    BY DEF IInv, TypeOK, RowIsHistory
  <2>2. past = <<>> <=> Len(past) = 0
    BY <2>1
  <2> QED BY <2>1, <2>2 DEF At, Register!Current, Nothing
<1>3. UNCHANGED taken
  BY DEF SaveWrite
<1>4. Register!Save(desk[o].job, desk[o].value)
  BY <1>1, <1>2, <1>3 DEF Register!Save
<1> QED BY <1>1, <1>4 DEF Register!Next, Kinds, SettingsOf

(* A stored run is a snapshot of the register, or nothing.                  *)
LEMMA StoreRefines ==
    ASSUME IInv, NEW o \in Owners, Store(o)
    PROVE  Register!Next \/ UNCHANGED <<past, taken>>
<1>1. UNCHANGED past
  BY DEF Store
<1>2. CASE UNCHANGED taken
  BY <1>1, <1>2
<1>3. CASE taken' = taken \cup {[purpose |-> desk[o].job, version |-> desk[o].expected,
                                risk |-> desk[o].seen.risk, strategy |-> desk[o].value]}
  <2>1. /\ desk[o].job \in {"paper", "research"}
        /\ desk[o].expected \in DOMAIN past
        /\ desk[o].seen = past[desk[o].expected]
        /\ desk[o].seen.risk # Missing
    BY SnapshotTaken DEF Store
  <2>2. PICK w \in DOMAIN past : /\ desk[o].expected <= w /\ past[w].strategy # Missing
                                 /\ desk[o].value = past[w].strategy
    BY SnapshotTaken DEF Store
  <2>3. Register!Take(desk[o].job, desk[o].expected, w)
    BY <1>1, <1>3, <2>1, <2>2 DEF Register!Take
  <2> QED BY <2>1, <2>2, <2>3 DEF Register!Next
<1> QED BY <1>2, <1>3 DEF Store

(* Every step of the store is a step of the register or leaves it alone.    *)
LEMMA StepRefines == ASSUME IInv, [Next]_vars PROVE [Register!Next]_(Register!vars)
<1>1. CASE UNCHANGED vars
  BY <1>1 DEF vars, Register!vars
<1>2. CASE Next /\ \E o \in Owners : SaveWrite(o) /\ VersionMatches(o)
  BY <1>2, WriteRefines
<1>3. CASE Next /\ \E o \in Owners : Store(o)
  BY <1>3, StoreRefines DEF Register!vars
<1>4. CASE Next /\ ~(\E o \in Owners : SaveWrite(o) /\ VersionMatches(o))
                /\ ~(\E o \in Owners : Store(o))
  BY <1>4, OnlyWritesSave, OnlyStoresTake DEF Register!vars
<1> QED BY <1>1, <1>2, <1>3, <1>4

(* The forms, the verified snapshots and the versioned row implement the    *)
(* register of versions, whoever saves and from whichever process.          *)
THEOREM Implements == Spec => Lifecycle
<1>1. Init => Register!Init
  BY DEF Init, Register!Init, Nothing
<1>2. IInv /\ [Next]_vars => [Register!Next]_(Register!vars)
  BY StepRefines
<1> QED BY <1>1, <1>2, StoreInvariant, PTL DEF Spec, Lifecycle, Register!Spec

(* What a save replaces is what its owner was shown.                        *)
THEOREM NothingUnseenIsReplaced == Spec => OwnersReplaceWhatTheySaw
<1>1. IInv /\ [Next]_vars =>
        [\A o \in Owners : desk[o].pc = "write" /\ desk'[o].pc = "idle" /\ runtime' # runtime
             => runtime.sections = desk[o].seen]_vars
  <2> SUFFICES ASSUME IInv, Next, NEW o \in Owners,
                      desk[o].pc = "write", desk'[o].pc = "idle", runtime' # runtime
               PROVE  runtime.sections = desk[o].seen
    BY DEF vars
  <2>1. PICK p \in Owners : SaveWrite(p) /\ VersionMatches(p)
    BY OnlyWritesSave
  <2>2. p = o
    <3>1. SUFFICES ASSUME p # o PROVE FALSE
      OBVIOUS
    <3>2. desk'[o] = desk[o]
      BY <2>1, <3>1 DEF SaveWrite, Done, IInv, TypeOK
    <3> QED BY <3>2
  <2> QED BY <2>1, <2>2, WriteSaves
<1> QED BY <1>1, StoreInvariant, PTL DEF Spec, OwnersReplaceWhatTheySaw

-----------------------------------------------------------------------------
(* A save records the strategy it puts in force and no other.               *)
LEMMA WriteRecords ==
    ASSUME IInv, StrategiesAreRecorded, NEW o \in Owners, SaveWrite(o), VersionMatches(o)
    PROVE  StrategiesAreRecorded'
<1> DEFINE s == [runtime.sections EXCEPT ![desk[o].job] = desk[o].value]
           n == runtime.version + 1
<1>1. /\ desk[o].job \in Kinds /\ desk[o].value \in SettingsOf(desk[o].job)
      /\ runtime.sections \in Sections /\ s \in Sections /\ past' = Append(past, s)
  BY WriteSaves
<1>2. /\ past \in Seq(Sections) /\ Len(past) = runtime.version /\ runtime.version \in Nat
      /\ runtime.sections = At(runtime.version)
  BY DEF IInv, TypeOK, Runtime, RowIsHistory
<1>3. /\ past' \in Seq(Sections) /\ Len(past') = n /\ past'[n] = s
      /\ \A w \in DOMAIN past : w \in DOMAIN past' /\ past'[w] = past[w]
  BY <1>1, HistoryGrows
<1>4. \A v \in DOMAIN past' : v \in DOMAIN past \/ v = n
  BY <1>2, <1>3
<1>5. n \in DOMAIN past'
  BY <1>2, <1>3
<1>6. {past'[v].strategy : v \in DOMAIN past'} = {past[v].strategy : v \in DOMAIN past} \cup {s.strategy}
  <2> HIDE DEF s, n
  <2> QED BY <1>3, <1>4, <1>5
<1>7. CASE desk[o].job = "strategy"
  <2>1. s.strategy = desk[o].value
    BY <1>1, <1>7 DEF Sections, Register!Sections
  <2>2. desk[o].value # Missing
    BY <1>1, <1>7, StoreAssumption DEF SettingsOf, Register!SettingsOf
  <2>3. records' = records \cup {desk[o].value}
    BY <1>7 DEF SaveWrite, RecordsAfter
  <2> HIDE DEF s
  <2> QED BY <1>6, <2>1, <2>2, <2>3 DEF StrategiesAreRecorded
<1>8. CASE desk[o].job = "risk"
  <2>1. s.strategy = runtime.sections.strategy
    BY <1>1, <1>8 DEF Sections, Register!Sections
  <2>2. s.strategy = Missing \/ s.strategy \in {past[v].strategy : v \in DOMAIN past}
    <3>1. CASE runtime.version = 0
      BY <1>2, <2>1, <3>1, NothingIsSections DEF At
    <3>2. CASE runtime.version # 0
      <4>1. runtime.version \in DOMAIN past /\ runtime.sections = past[runtime.version]
        BY <1>2, <3>2 DEF At
      <4> QED BY <2>1, <4>1
    <3> QED BY <3>1, <3>2
  <2>3. records' = records
    BY <1>8 DEF SaveWrite, RecordsAfter
  <2> HIDE DEF s
  <2> QED BY <1>6, <2>2, <2>3 DEF StrategiesAreRecorded
<1> QED BY <1>1, <1>7, <1>8 DEF Kinds, Register!Kinds

(* The immutable records are those of the strategies that were in force:    *)
(* the record and the row are written in one transaction.                   *)
THEOREM RecordsAreComplete == Spec => []StrategiesAreRecorded
<1>1. Init => StrategiesAreRecorded
  <2> SUFFICES ASSUME Init PROVE StrategiesAreRecorded
    OBVIOUS
  <2>1. records = {}
    BY DEF Init
  <2>2. CASE past = <<>>
    BY <2>1, <2>2 DEF StrategiesAreRecorded
  <2>3. CASE past = <<Register!Foreign>>
    <3>1. DOMAIN past = {1} /\ past[1].strategy = Missing
      BY <2>3 DEF Register!Foreign
    <3> QED BY <2>1, <3>1 DEF StrategiesAreRecorded
  <2> QED BY <2>2, <2>3 DEF Init
<1>2. IInv /\ StrategiesAreRecorded /\ [Next]_vars => StrategiesAreRecorded'
  <2> SUFFICES ASSUME IInv, StrategiesAreRecorded, [Next]_vars PROVE StrategiesAreRecorded'
    OBVIOUS
  <2>1. CASE UNCHANGED <<past, records>>
    BY <2>1 DEF StrategiesAreRecorded
  <2> QED BY <2>1, WriteRecords, OnlyWritesSave DEF vars
<1> QED BY <1>1, <1>2, StoreInvariant, PTL DEF Spec

-----------------------------------------------------------------------------
\* One process serves everyone.
OneProcess == \A o, other \in Owners : home[o] = home[other]

\* The points between two reads or a read and a write, without an await.
Busy == {"write", "strategy", "storing"}

(* With one process a request between its two accesses is alone, so that    *)
(* the version it expects is that of the row.                               *)
Undisturbed ==
    OneProcess =>
        /\ \A o, other \in Owners :
             desk[o].pc \in Busy /\ desk[other].pc \in Busy => o = other
        /\ \A o \in Owners :
             /\ desk[o].pc \in {"strategy", "storing"} => desk[o].expected = runtime.version
             /\ desk[o].pc \in {"storing", "fetching"} =>
                  desk[o].value = past[desk[o].expected].strategy
        /\ SnapshotsAreOfOneVersion

(* A step that changes one request, leaving the row and the runs alone.     *)
LEMMA QuietStep ==
    ASSUME IInv, Undisturbed, NEW o \in Owners, NEW d, desk' = [desk EXCEPT ![o] = d],
           UNCHANGED <<home, runtime, past, taken>>,
           OneProcess =>
             /\ d.pc \in Busy => \/ desk[o].pc \in Busy
                                 \/ \A other \in Owners \ {o} : desk[other].pc \notin Busy
             /\ d.pc \in {"strategy", "storing"} => d.expected = runtime.version
             /\ d.pc \in {"storing", "fetching"} => d.value = past[d.expected].strategy
    PROVE  Undisturbed'
<1> SUFFICES ASSUME OneProcess' PROVE Undisturbed'
  BY DEF Undisturbed
<1>1. OneProcess
  BY DEF OneProcess
<1>2. /\ desk'[o] = d
      /\ \A other \in Owners \ {o} : desk'[other] = desk[other]
  BY DEF IInv, TypeOK
<1>3. SnapshotsAreOfOneVersion'
  BY <1>1 DEF Undisturbed, SnapshotsAreOfOneVersion
<1>4. ASSUME NEW a \in Owners, NEW b \in Owners, desk'[a].pc \in Busy, desk'[b].pc \in Busy
      PROVE  a = b
  BY <1>1, <1>2, <1>4 DEF Undisturbed
<1>5. ASSUME NEW a \in Owners
      PROVE  /\ desk'[a].pc \in {"strategy", "storing"} => desk'[a].expected = runtime'.version
             /\ desk'[a].pc \in {"storing", "fetching"} =>
                  desk'[a].value = past'[desk'[a].expected].strategy
  BY <1>1, <1>2 DEF Undisturbed
<1> QED BY <1>3, <1>4, <1>5 DEF Undisturbed

(* A request that is over disturbs nobody.                                  *)
LEMMA QuietDone ==
    ASSUME IInv, Undisturbed, NEW o \in Owners, Done(o), UNCHANGED <<home, runtime, past, taken>>
    PROVE  Undisturbed'
BY QuietStep DEF Done, Idle, Busy

(* A request runs only while no other of its process is between two awaits. *)
LEMMA RunsAlone ==
    ASSUME NEW o \in Owners, Runs(o), OneProcess
    PROVE  \A other \in Owners \ {o} : desk[other].pc \notin Busy
BY DEF Runs, OneProcess, Busy

(* A request that moves to a point outside the two accesses.                *)
LEMMA QuietMove ==
    ASSUME IInv, Undisturbed, NEW o \in Owners, NEW d, desk' = [desk EXCEPT ![o] = d],
           UNCHANGED <<home, runtime, past, taken>>,
           d.pc \in {"form", "verifying", "saving", "confirming", "taking"}
    PROVE  Undisturbed'
<1>1. d.pc \notin Busy /\ d.pc \notin {"strategy", "storing"} /\ d.pc \notin {"storing", "fetching"}
  BY DEF Busy
<1> QED BY <1>1, QuietStep

(* The steps that neither save nor store.                                   *)
LEMMA QuietSteps ==
    ASSUME IInv, Undisturbed, Next, UNCHANGED <<home, runtime, past, taken>>
    PROVE  Undisturbed'
<1>1. desk \in [Owners -> Request]
  BY DEF IInv, TypeOK
<1>2. ASSUME NEW o \in Owners, NEW kind \in Kinds, OpenForm(o, kind) PROVE Undisturbed'
  <2>1. Based("form", kind).pc = "form"
    BY DEF Based
  <2> QED BY <1>2, <2>1, QuietMove DEF OpenForm
<1>3. ASSUME NEW o \in Owners, NEW job \in {"paper", "research"}, StartSnapshot(o, job)
      PROVE  Undisturbed'
  <2>1. Based("confirming", job).pc = "confirming"
    BY DEF Based
  <2> QED BY <1>3, <2>1, QuietMove DEF StartSnapshot
<1>4. ASSUME NEW o \in Owners, NEW value, Submit(o, value) PROVE Undisturbed'
  <2> DEFINE d == [desk[o] EXCEPT !.value = value,
                         !.pc = IF desk[o].job = "risk" THEN "verifying" ELSE "saving"]
  <2>1. d.pc \in {"verifying", "saving"} /\ desk' = [desk EXCEPT ![o] = d]
    BY <1>1, <1>4 DEF Submit, Request
  <2> HIDE DEF d
  <2> QED BY <2>1, QuietMove
<1>5. ASSUME NEW o \in Owners, Verified(o) PROVE Undisturbed'
  <2> DEFINE d == [desk[o] EXCEPT !.pc = IF desk[o].pc = "verifying" THEN "saving" ELSE "taking"]
  <2>1. d.pc \in {"saving", "taking"} /\ desk' = [desk EXCEPT ![o] = d]
    BY <1>1, <1>5 DEF Verified, Goes, Request
  <2> HIDE DEF d
  <2> QED BY <2>1, QuietMove
<1>6. ASSUME NEW o \in Owners, SaveRead(o) PROVE Undisturbed'
  <2>1. CASE Done(o)
    BY <2>1, QuietDone
  <2>2. CASE desk' = [desk EXCEPT ![o].pc = "write", ![o].base = runtime.sections]
    <3> DEFINE d == [desk[o] EXCEPT !.pc = "write", !.base = runtime.sections]
    <3>1. d.pc = "write" /\ desk' = [desk EXCEPT ![o] = d]
      BY <1>1, <2>2 DEF Request
    <3> HIDE DEF d
    <3>2. OneProcess => \A other \in Owners \ {o} : desk[other].pc \notin Busy
      BY <1>6, RunsAlone DEF SaveRead
    <3> QED BY <3>1, <3>2, QuietStep
  <2> QED BY <1>6, <2>1, <2>2 DEF SaveRead
<1>7. ASSUME NEW o \in Owners, TakeRisk(o) PROVE Undisturbed'
  <2>1. CASE Done(o)
    BY <2>1, QuietDone
  <2>2. CASE VersionMatches(o) /\ Goes(o, "strategy")
    <3> DEFINE d == [desk[o] EXCEPT !.pc = "strategy"]
    <3>1. d.pc = "strategy" /\ d.expected = desk[o].expected /\ desk' = [desk EXCEPT ![o] = d]
      BY <1>1, <2>2 DEF Goes, Request
    <3> HIDE DEF d
    <3>2. OneProcess => \A other \in Owners \ {o} : desk[other].pc \notin Busy
      BY <1>7, RunsAlone DEF TakeRisk
    <3> QED BY <2>2, <3>1, <3>2, QuietStep DEF VersionMatches
  <2> QED BY <1>7, <2>1, <2>2 DEF TakeRisk, TakeRiskIfUnchanged
<1>8. ASSUME NEW o \in Owners, TakeStrategy(o) PROVE Undisturbed'
  <2>1. CASE Done(o)
    BY <2>1, QuietDone
  <2>2. CASE ~Done(o)
    <3> DEFINE value == runtime.sections.strategy
               d == [desk[o] EXCEPT !.value = value,
                         !.pc = IF desk[o].job = "paper" THEN "storing" ELSE "fetching"]
    <3>1. /\ d.pc \in {"storing", "fetching"} /\ d.expected = desk[o].expected
          /\ d.value = value /\ desk' = [desk EXCEPT ![o] = d] /\ value # Missing
          /\ desk[o].pc = "strategy"
      BY <1>1, <1>8, <2>2 DEF TakeStrategy, Request
    <3>2. value = past[runtime.version].strategy
      <4>1. runtime.sections = At(runtime.version)
        BY DEF IInv, RowIsHistory
      <4> QED BY <3>1, <4>1, NothingIsSections DEF At
    <3> HIDE DEF d, value
    <3>3. OneProcess => desk[o].expected = runtime.version
      BY <3>1 DEF Undisturbed
    <3>4. desk[o].pc \in Busy
      BY <3>1 DEF Busy
    <3> QED BY <3>1, <3>2, <3>3, <3>4, QuietStep
  <2> QED BY <2>1, <2>2
<1>9. CASE StopRun
  BY <1>9 DEF StopRun, Undisturbed, OneProcess, SnapshotsAreOfOneVersion
<1> QED BY <1>2, <1>3, <1>4, <1>5, <1>6, <1>7, <1>8, <1>9, QuietDone
        DEF Next, Abandon, SaveWrite, Store

(* A save finds no request between its two reads, and old versions stay.    *)
LEMMA WriteUndisturbed ==
    ASSUME IInv, Undisturbed, NEW o \in Owners, SaveWrite(o), VersionMatches(o)
    PROVE  Undisturbed'
<1> DEFINE s == [runtime.sections EXCEPT ![desk[o].job] = desk[o].value]
<1>1. s \in Sections /\ past' = Append(past, s)
  BY WriteSaves
<1> HIDE DEF s
<1>2. \A w \in DOMAIN past : w \in DOMAIN past' /\ past'[w] = past[w]
  BY <1>1, HistoryGrows
<1>3. desk' = [desk EXCEPT ![o] = Idle] /\ UNCHANGED <<home, taken>> /\ desk[o].pc = "write"
  BY DEF SaveWrite, Done
<1>4. desk'[o] = Idle /\ \A other \in Owners \ {o} : desk'[other] = desk[other]
  BY <1>3 DEF IInv, TypeOK
<1> SUFFICES ASSUME OneProcess' PROVE Undisturbed'
  BY DEF Undisturbed
<1>5. OneProcess
  BY <1>3 DEF OneProcess
<1>6. ASSUME NEW a \in Owners PROVE desk'[a].pc \notin Busy
  <2>1. CASE a = o
    BY <1>4, <2>1 DEF Idle, Busy
  <2>2. CASE a # o
    BY <1>3, <1>4, <1>5, <2>2 DEF Undisturbed, Busy
  <2> QED BY <2>1, <2>2
<1>7. ASSUME NEW a \in Owners, desk'[a].pc = "fetching"
      PROVE  desk'[a].value = past'[desk'[a].expected].strategy
  <2>1. desk'[a] = desk[a]
    BY <1>4, <1>7 DEF Idle
  <2>2. desk[a].value = past[desk[a].expected].strategy
    BY <1>5, <1>7, <2>1 DEF Undisturbed
  <2>3. desk[a].expected \in DOMAIN past
    BY <1>7, <2>1, SnapshotTaken
  <2> QED BY <1>2, <2>1, <2>2, <2>3
<1>8. SnapshotsAreOfOneVersion'
  BY <1>2, <1>3, <1>5 DEF Undisturbed, SnapshotsAreOfOneVersion, OneProcess
<1> QED BY <1>6, <1>7, <1>8 DEF Undisturbed, Busy

(* What is stored is of the version it names.                               *)
LEMMA StoreUndisturbed ==
    ASSUME IInv, Undisturbed, NEW o \in Owners, Store(o)
    PROVE  Undisturbed'
<1>1. CASE UNCHANGED taken
  BY <1>1, QuietDone DEF Store
<1>2. CASE taken' = taken \cup {[purpose |-> desk[o].job, version |-> desk[o].expected,
                                risk |-> desk[o].seen.risk, strategy |-> desk[o].value]}
  <2>1. desk' = [desk EXCEPT ![o] = Idle] /\ UNCHANGED <<home, runtime, past>>
    BY DEF Store, Done
  <2>2. desk'[o] = Idle /\ \A other \in Owners \ {o} : desk'[other] = desk[other]
    BY <2>1 DEF IInv, TypeOK
  <2> SUFFICES ASSUME OneProcess' PROVE Undisturbed'
    BY DEF Undisturbed
  <2>3. OneProcess
    BY <2>1 DEF OneProcess
  <2>4. /\ desk[o].expected \in DOMAIN past /\ desk[o].seen = past[desk[o].expected]
        /\ desk[o].value = past[desk[o].expected].strategy
    BY <2>3, SnapshotTaken DEF Store, Undisturbed
  <2>5. SnapshotsAreOfOneVersion'
    BY <1>2, <2>1, <2>3, <2>4 DEF Undisturbed, SnapshotsAreOfOneVersion
  <2>6. ASSUME NEW a \in Owners, NEW b \in Owners, desk'[a].pc \in Busy, desk'[b].pc \in Busy
        PROVE  a = b
    <3>1. a # o /\ b # o
      BY <2>2, <2>6 DEF Idle, Busy
    <3> QED BY <2>2, <2>3, <2>6, <3>1 DEF Undisturbed
  <2>7. ASSUME NEW a \in Owners
        PROVE  /\ desk'[a].pc \in {"strategy", "storing"} => desk'[a].expected = runtime'.version
               /\ desk'[a].pc \in {"storing", "fetching"} =>
                    desk'[a].value = past'[desk'[a].expected].strategy
    <3>1. CASE a = o
      BY <2>2, <3>1 DEF Idle
    <3>2. CASE a # o
      BY <2>1, <2>2, <2>3, <3>2 DEF Undisturbed
    <3> QED BY <3>1, <3>2
  <2> QED BY <2>5, <2>6, <2>7 DEF Undisturbed
<1> QED BY <1>1, <1>2 DEF Store

(* Paper runs and studies are of one version when one process serves all,   *)
(* which is how the application is deployed.                                *)
THEOREM SnapshotsAreWhole == Spec => []SnapshotsAreOfOneVersion
<1>1. Init => Undisturbed
  BY DEF Init, Undisturbed, SnapshotsAreOfOneVersion, Idle, Busy
<1>2. IInv /\ Undisturbed /\ [Next]_vars => Undisturbed'
  <2> SUFFICES ASSUME IInv, Undisturbed, [Next]_vars PROVE Undisturbed'
    OBVIOUS
  <2>1. CASE UNCHANGED vars
    BY <2>1 DEF vars, Undisturbed, OneProcess, SnapshotsAreOfOneVersion
  <2>2. CASE Next /\ \E o \in Owners : Store(o)
    BY <2>2, StoreUndisturbed
  <2>3. CASE Next /\ \E o \in Owners : SaveWrite(o) /\ VersionMatches(o)
    BY <2>3, WriteUndisturbed
  <2>4. CASE Next /\ ~(\E o \in Owners : SaveWrite(o) /\ VersionMatches(o))
                  /\ ~(\E o \in Owners : Store(o))
    <3>1. UNCHANGED <<runtime, past, taken>>
      BY <2>4, OnlyWritesSave, OnlyStoresTake
    <3>2. UNCHANGED home
      BY <2>4 DEF Next, OpenForm, Submit, Verified, SaveRead, SaveWrite, StartSnapshot,
                  TakeRisk, TakeStrategy, Store, StopRun, Abandon
    <3> QED BY <2>4, <3>1, <3>2, QuietSteps
  <2> QED BY <2>1, <2>2, <2>3, <2>4
<1>3. IInv /\ Undisturbed => SnapshotsAreOfOneVersion
  <2> SUFFICES ASSUME IInv, Undisturbed PROVE SnapshotsAreOfOneVersion
    OBVIOUS
  <2>1. CASE OneProcess
    BY <2>1 DEF Undisturbed
  <2>2. CASE ~OneProcess
    BY <2>2 DEF OneProcess, SnapshotsAreOfOneVersion
  <2> QED BY <2>1, <2>2
<1> QED BY <1>1, <1>2, <1>3, StoreInvariant, PTL DEF Spec
=============================================================================
