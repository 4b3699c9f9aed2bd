---------------------------- MODULE SettingsPage ----------------------------
(***************************************************************************)
(* The dashboard's settings form (frontend/src/main.tsx).  The tabs of a    *)
(* page are one component: the paper and research tabs load the saved       *)
(* sections into the state the settings form edits, and the navigation is   *)
(* never disabled, so that loads of several tabs can be under way at once.  *)
(*                                                                         *)
(* What the server does is ConfigRegister: ConfigStore shows that a save is *)
(* one step of it.                                                          *)
(***************************************************************************)
EXTENDS Naturals, Sequences

CONSTANTS
    RiskSettings, StrategySettings, Missing,
    Owners,         \* owners with the dashboard open
    MaxVersion,     \* bound on the versions of the row
    MaxLoads        \* bound on the loads of a page under way

VARIABLES
    past,       \* past[v]: the sections of version v
    page        \* page[o]: the page of owner o

vars == <<past, page>>

Register == INSTANCE ConfigRegister WITH taken <- {}

\* What version v held, to a page: what was never saved is shown as suggestions.
Held(v) == IF v = 0 THEN Register!Nothing ELSE past[v]

Tabs == {"settings", "research", "paper"}
Unread == MaxVersion + 1

(* What a load is for, the versions its two answers are of, and whether it  *)
(* only waits for the leverage brackets any more.                           *)
Load == [for : Tabs, risk : 0..Unread, strategy : 0..Unread, brackets : BOOLEAN]
LoadFor(tab) == [for |-> tab, risk |-> Unread, strategy |-> Unread, brackets |-> FALSE]

(* form: the sections as they were loaded; edits are not kept apart, a save *)
(* chooses any.  verified: whether there are leverage brackets.             *)
Page == [tab : Tabs, busy : BOOLEAN, settingsLoaded : BOOLEAN, verified : BOOLEAN,
         version : 0..MaxVersion, form : Register!Sections, loads : Seq(Load)]

\* Signed in, the page opens with its settings tab.
Init ==
    /\ past = <<>>
    /\ page = [o \in Owners |->
                 [tab |-> "settings", busy |-> TRUE, settingsLoaded |-> FALSE,
                  verified |-> FALSE, version |-> 0, form |-> Register!Nothing,
                  loads |-> <<LoadFor("settings")>>]]

Becomes(o, p) == page' = [page EXCEPT ![o] = p]

\* attempt(): the page is busy from the start of any piece of work to the end of any.
Begins(p, tab) ==
    [p EXCEPT !.busy = TRUE, !.loads = Append(@, LoadFor(tab)),
              !.settingsLoaded = @ /\ tab # "settings", !.verified = @ /\ tab # "settings"]
Ends(p, i) ==
    [p EXCEPT !.busy = FALSE,
              !.loads = SubSeq(@, 1, i - 1) \o SubSeq(@, i + 1, Len(@))]

-----------------------------------------------------------------------------
\* The navigation: the effect of a new tab loads what it shows.
SwitchTab(o, tab) ==
    /\ tab # page[o].tab
    /\ Len(page[o].loads) < MaxLoads
    /\ Becomes(o, [Begins(page[o], tab) EXCEPT !.tab = tab])
    /\ UNCHANGED past

Reload(o) ==
    /\ page[o].tab = "settings"
    /\ ~page[o].busy
    /\ Len(page[o].loads) < MaxLoads
    /\ Becomes(o, Begins(page[o], "settings"))
    /\ UNCHANGED past

\* The server answers one GET /api/config/{kind}, as the row is now.
Answer(o, i, kind) ==
    /\ kind = "strategy" => page[o].loads[i].for # "research"
    /\ page[o].loads[i][kind] = Unread
    /\ page' = [page EXCEPT ![o].loads[i][kind] = Len(past)]
    /\ UNCHANGED past

\* loadSettings: both sections of one version, or an error.
SettingsArrive(o, i) ==
    LET load == page[o].loads[i]
    IN  /\ load.for = "settings"
        /\ ~load.brackets
        /\ Unread \notin {load.risk, load.strategy}
        /\ IF load.risk # load.strategy THEN Becomes(o, Ends(page[o], i))
           ELSE Becomes(o, [page[o] EXCEPT !.version = load.risk, !.form = Held(load.risk),
                                           !.loads[i].brackets = TRUE])
        /\ UNCHANGED past

\* A failure to load them disables the saves of risk sections only.
BracketsArrive(o, i, ok) ==
    /\ page[o].loads[i].brackets
    /\ Becomes(o, [Ends(page[o], i) EXCEPT !.settingsLoaded = TRUE, !.verified = @ \/ ok])
    /\ UNCHANGED past

\* loadPaper: both sections, of whatever version.
PaperArrives(o, i) ==
    LET load == page[o].loads[i]
    IN  /\ load.for = "paper"
        /\ Unread \notin {load.risk, load.strategy}
        /\ Becomes(o, [Ends(page[o], i) EXCEPT !.form.risk = Held(load.risk).risk,
                                               !.form.strategy = Held(load.strategy).strategy])
        /\ UNCHANGED past

\* The research tab asks for the risk section only.
ResearchArrives(o, i) ==
    LET load == page[o].loads[i]
    IN  /\ load.for = "research"
        /\ load.risk # Unread
        /\ Becomes(o, [Ends(page[o], i) EXCEPT !.form.risk = Held(load.risk).risk])
        /\ UNCHANGED past

RequestFails(o, i) ==
    /\ ~page[o].loads[i].brackets
    /\ Becomes(o, Ends(page[o], i))
    /\ UNCHANGED past

\* PUT /api/config/{kind}: refused if the row is of another version; both forms
\* are loaded again once it is saved.
SaveForm(o, kind, value) ==
    /\ page[o].tab = "settings"
    /\ page[o].settingsLoaded
    /\ kind = "risk" => page[o].verified
    /\ ~page[o].busy
    /\ page[o].version = Len(past)
    /\ Len(past) < MaxVersion
    /\ Len(page[o].loads) < MaxLoads
    /\ Register!Save(kind, value)
    /\ Becomes(o, Begins(page[o], "settings"))

Next ==
    \E o \in Owners :
        \/ \E tab \in Tabs : SwitchTab(o, tab)
        \/ Reload(o)
        \/ \E kind \in Register!Kinds : \E value \in Register!SettingsOf(kind) :
              SaveForm(o, kind, value)
        \/ \E i \in DOMAIN page[o].loads :
              \/ \E kind \in Register!Kinds : Answer(o, i, kind)
              \/ SettingsArrive(o, i)
              \/ \E ok \in BOOLEAN : BracketsArrive(o, i, ok)
              \/ PaperArrives(o, i)
              \/ ResearchArrives(o, i)
              \/ RequestFails(o, i)

Spec == Init /\ [][Next]_vars

-----------------------------------------------------------------------------
TypeOK ==
    /\ past \in Seq(Register!Sections)
    /\ page \in [Owners -> Page]

(* "Stale writes are rejected" (main.tsx:223): what a save replaces is what *)
(* its form was loaded with.                                                *)
StaleWritesAreRejected ==
    [][\A o \in Owners : \A kind \in Register!Kinds : \A value \in Register!SettingsOf(kind) :
          SaveForm(o, kind, value) => Register!Current[kind] = page[o].form[kind]]_vars
=============================================================================
