---------------------------- MODULE ServicesPanel ----------------------------
(***************************************************************************)
(* The services panel of the system manager                                *)
(* (client/src/apps/sysman/units.ts), the service behind it                *)
(* (server/src/services/systemd.ts) and the sidebar that shows and hides   *)
(* it (sysman/index.ts): which manager's units are listed, the unit that   *)
(* is selected, what is said of it, its logs. A unit of a name may exist   *)
(* in both managers. What systemctl answers is left out but for whether it *)
(* was done.                                                               *)
(***************************************************************************)
EXTENDS Naturals, FiniteSets

CONSTANTS
  Units, NoUnit,
  MaxControls, \* bound: units being started or stopped at a time
  InHaste,     \* the panel may be left while a control is running, and a notice used then
  WhileLogs    \* another unit may be selected while the logs are shown

\* What the constants have to be; where the module is instantiated it is assumed.
ServicesAssumption ==
  NoUnit \notin Units /\ MaxControls \in Nat /\ {InHaste, WhileLogs} \subseteq BOOLEAN

VARIABLES
  watched,       \* the panel is shown and the window can be seen
  scope, tab,
  loading,       \* `running`: the scope of the list asked for, or ""
  listed,        \* the scope of the units in the table, or ""
  selectedUnit,
  details,       \* details asked for
  detail,        \* what the detail panel says: of which unit in which scope, or Blank
  controls,      \* units being started or stopped
  notices,       \* "did not come up", with "Show logs"
  logs,          \* the stream that is shown
  streams        \* the streams the server has

panelVars == <<watched, scope, tab, loading, listed, selectedUnit, details, detail, controls,
               notices, logs, streams>>

Scopes == {"system", "user"}
Blank == [unit |-> NoUnit, scope |-> ""]
Of(u) == [unit |-> u, scope |-> scope]

Init ==
  /\ watched = FALSE /\ scope = "system" /\ tab = "info" /\ loading = "" /\ listed = ""
  /\ selectedUnit = NoUnit /\ details = {} /\ detail = Blank /\ controls = {} /\ notices = {}
  /\ logs = Blank /\ streams = {}

\* closeLogs() and openLogs(), for the unit that is selected from now on.
CloseLogs == logs' = Blank /\ streams' = streams \ {logs}
OpenLogs(want) == IF want.unit = NoUnit THEN UNCHANGED <<logs, streams>>
                  ELSE logs' = want /\ streams' = (streams \ {logs}) \cup {want}

\* renderDetail(): the logs, or the details. Without a unit there are no logs.
RenderDetail(want) ==
  /\ tab' = IF want.unit = NoUnit THEN "info" ELSE tab
  /\ detail' = IF want.unit # NoUnit /\ tab = "logs" THEN detail ELSE Blank
  /\ IF want.unit = NoUnit THEN CloseLogs /\ UNCHANGED details
     ELSE IF tab = "logs" THEN OpenLogs(want) /\ UNCHANGED details
     ELSE details' = details \cup {want} /\ UNCHANGED <<logs, streams>>

\* The details are not asked for while the logs are shown, nor when they no longer are.
MayFollow(u) == tab = "logs" /\ u \notin {selectedUnit, NoUnit} => WhileLogs

Select(u) ==
  /\ watched /\ u # selectedUnit /\ (u \in Units => listed = scope) /\ MayFollow(u)
  /\ selectedUnit' = u /\ RenderDetail(Of(u))
  /\ UNCHANGED <<watched, scope, loading, listed, controls, notices>>

\* setTab().
SetTab(t) ==
  /\ watched /\ t # tab /\ tab' = t
  /\ IF t = "logs" THEN OpenLogs(Of(selectedUnit)) ELSE CloseLogs
  /\ UNCHANGED <<watched, scope, loading, listed, selectedUnit, details, detail, controls, notices>>

\* load(): not while another is running.
Load(s) == loading' = IF loading = "" THEN s ELSE loading

\* setScope(), by its buttons or the menu.
SetScope(s) ==
  /\ watched /\ s # scope /\ scope' = s
  /\ selectedUnit' = NoUnit /\ tab' = "info" /\ detail' = Blank /\ listed' = ""
  /\ CloseLogs /\ Load(s)
  /\ UNCHANGED <<watched, details, controls, notices>>

Polls ==
  /\ watched /\ loading = "" /\ Load(scope)
  /\ UNCHANGED <<watched, scope, tab, listed, selectedUnit, details, detail, controls, notices,
                 logs, streams>>

\* Mutant of StillAsked: whatever was asked for is shown.
AlwaysAsked(s) == TRUE

\* An answer is dropped where the other manager has been chosen in the meantime.
StillAsked(s) == s = scope

ListArrives(ok) ==
  /\ loading # "" /\ loading' = ""
  /\ listed' = IF ok /\ StillAsked(loading) THEN loading ELSE listed
  /\ UNCHANGED <<watched, scope, tab, selectedUnit, details, detail, controls, notices, logs, streams>>

DetailArrives(d) ==
  /\ d \in details /\ details' = details \ {d}
  /\ detail' = IF selectedUnit = d.unit /\ StillAsked(d.scope) THEN d ELSE detail
  /\ UNCHANGED <<watched, scope, tab, loading, listed, selectedUnit, controls, notices, logs, streams>>

\* control(), of the unit whose details are shown or, from the table's menu, of any.
Control(u) ==
  /\ watched /\ (listed = scope \/ detail = Of(u))
  /\ Cardinality(controls) < MaxControls
  /\ controls' = controls \cup {[unit |-> u, done |-> FALSE]}
  /\ UNCHANGED <<watched, scope, tab, loading, listed, selectedUnit, details, detail, notices,
                 logs, streams>>

\* Its answer: the list is read again and, after that, the details are.
ControlEnds(c, cameUp) ==
  /\ ~c.done /\ controls' = (controls \ {c}) \cup {[c EXCEPT !.done = TRUE]}
  /\ notices' = IF cameUp THEN notices ELSE notices \cup {c.unit}
  /\ Load(scope)
  /\ UNCHANGED <<watched, scope, tab, listed, selectedUnit, details, detail, logs, streams>>

\* It fails: that is said, and nothing is read again.
ControlFails(c) ==
  /\ ~c.done /\ controls' = controls \ {c}
  /\ UNCHANGED <<watched, scope, tab, loading, listed, selectedUnit, details, detail, notices,
                 logs, streams>>

ControlShown(c) ==
  /\ c.done /\ controls' = controls \ {c}
  /\ IF selectedUnit = c.unit THEN RenderDetail(Of(c.unit))
     ELSE UNCHANGED <<tab, details, detail, logs, streams>>
  /\ UNCHANGED <<watched, scope, loading, listed, selectedUnit, notices>>

\* "Show logs" of a notice. Of a unit the table does not have it selects nothing.
ShowLogs(u) ==
  /\ u \in notices /\ ((watched /\ listed = scope) \/ InHaste) /\ MayFollow(u)
  /\ notices' = notices \ {u} /\ tab' = "logs"
  /\ LET there == IF listed = scope THEN u ELSE NoUnit
     IN /\ selectedUnit' = there
        /\ IF there = NoUnit THEN CloseLogs ELSE OpenLogs(Of(u))
        /\ IF there = selectedUnit \/ tab = "logs" THEN UNCHANGED <<detail, details>>
           ELSE detail' = Blank /\ details' = details \cup {Of(u)}
  /\ UNCHANGED <<watched, scope, loading, listed, controls>>

LogEnds ==
  /\ logs \in streams /\ streams' = streams \ {logs}
  /\ UNCHANGED <<watched, scope, tab, loading, listed, selectedUnit, details, detail, controls,
                 notices, logs>>

\* "Manage ..." of the journal: applyParams(), and then activate(). A unit the table
\* does not have is selected in it as nothing first, which shows the details.
Manage(u, s) ==
  /\ ~watched /\ watched' = TRUE /\ scope' = s /\ selectedUnit' = u
  /\ Load(s)
  /\ LET want == [unit |-> u, scope |-> s]
     IN IF s = scope /\ listed = s /\ tab = "logs"
        THEN MayFollow(u) /\ OpenLogs(want) /\ UNCHANGED <<listed, tab, detail, details>>
        ELSE /\ listed' = IF s = scope THEN listed ELSE ""
             /\ tab' = "info" /\ detail' = Blank /\ details' = details \cup {want} /\ CloseLogs
  /\ UNCHANGED <<controls, notices>>

Activates ==
  /\ ~watched /\ watched' = TRUE
  /\ Load(scope)
  /\ IF tab = "logs" THEN OpenLogs(Of(selectedUnit)) ELSE UNCHANGED <<logs, streams>>
  /\ UNCHANGED <<scope, tab, listed, selectedUnit, details, detail, controls, notices>>

\* Mutant of Leaving: only the list is no longer read.
LeavingTheLogs == UNCHANGED <<logs, streams>>

\* deactivate(): another section, the window minimized, the tab hidden.
Leaving == CloseLogs

Deactivates ==
  /\ watched /\ watched' = FALSE /\ (controls # {} => InHaste)
  /\ Leaving
  /\ UNCHANGED <<scope, tab, loading, listed, selectedUnit, details, detail, controls, notices>>

Next ==
  \/ \E u \in Units \cup {NoUnit} : Select(u)
  \/ \E t \in {"info", "logs"} : SetTab(t)
  \/ \E s \in Scopes : SetScope(s) \/ \E u \in Units : Manage(u, s)
  \/ \E ok \in BOOLEAN : ListArrives(ok)
  \/ \E d \in details : DetailArrives(d)
  \/ \E u \in Units : Control(u) \/ ShowLogs(u)
  \/ \E c \in controls : \/ ControlShown(c) \/ ControlFails(c)
                         \/ \E cameUp \in BOOLEAN : ControlEnds(c, cameUp)
  \/ Polls \/ LogEnds \/ Activates \/ Deactivates

Spec == Init /\ [][Next]_panelVars

\* No log is followed on the host for a panel nobody is watching (units.ts 560).
LogsAreWatched == ~watched => streams = {}

\* What the panel says, and its buttons act on, is the unit whose name it shows.
DetailIsOfTheUnit == detail # Blank => detail = Of(selectedUnit)

\* What is listed, said and followed is of the manager and the unit that are chosen,
\* in whichever order the answers come.
ShowsWhatIsChosen ==
  /\ listed \in {"", scope}
  /\ DetailIsOfTheUnit
  /\ logs # Blank => logs = Of(selectedUnit)
  /\ streams \subseteq {logs}

PanelIsTrue == LogsAreWatched /\ ShowsWhatIsChosen
=============================================================================
