----------------------------- MODULE AppCatalogue -----------------------------
(***************************************************************************)
(* Which applications a desktop offers, and which one opens a file: the    *)
(* applications that are turned off, kept on the server                    *)
(* (server/src/services/apps.ts) and known to each page                    *)
(* (client/src/core/registry.ts, desktop.ts), the claims and the choices   *)
(* that decide about a file (core/associations.ts), the Settings window    *)
(* where both are changed (apps/settings/index.ts), and the windows that   *)
(* are closed when their application is turned off and come back with the  *)
(* session. A page is a browser with settings of its own.                  *)
(***************************************************************************)
EXTENDS Integers, FiniteSets

CONSTANTS
  Pages, Apps, NoApp,
  SettingsApp,
  MaxWindows,    \* bound: applications that have a window on one page
  Files,
  ChoiceKey(_),       \* associationKeyFor(): the longest suffix of a file, or its name
  Claims(_, _)   \* what an application claims of a file, by its manifest

\* The scores of a claim; an exact name, an extension, a predicate, a fallback.
Score(c) ==
  (CASE c.kind = "name" -> 400 [] c.kind = "extension" -> 200 + c.length
     [] c.kind = "predicate" -> 100 [] c.kind = "fallback" -> 1) + c.priority

\* A claim is more specific than another: an exact name than an extension, a longer
\* extension than a shorter one, anything than a fallback (associations.ts 6-11).
Kinds == [name |-> 4, extension |-> 3, predicate |-> 2, fallback |-> 1]
MoreSpecific(c, d) ==
  Kinds[c.kind] > Kinds[d.kind] \/ (c.kind = "extension" /\ d.kind = "extension" /\ c.length > d.length)

\* A priority decides between equally specific claims only (core/types.ts 71).
PrioritiesBreakTies ==
  \A f \in Files : \A a, b \in Apps : \A c \in Claims(a, f), d \in Claims(b, f) :
    MoreSpecific(d, c) => Score(d) > Score(c)

\* What the constants have to be; where the module is instantiated it is assumed.
CatalogueAssumption ==
  /\ NoApp \notin Apps /\ SettingsApp \in Apps /\ MaxWindows \in Nat
  /\ IsFiniteSet(Apps)
  /\ \A a \in Apps, f \in Files :
       /\ IsFiniteSet(Claims(a, f))
       /\ \A c \in Claims(a, f) : c.kind \in DOMAIN Kinds /\ c.length \in Nat /\ c.priority \in Int
  /\ PrioritiesBreakTies

VARIABLES
  disabled, file,  \* on the server, and on its disk
  known,           \* per page, the applications it knows are turned off
  up,              \* the page has started
  asked,           \* per page, a switch in Settings the server has not answered
  chosen,          \* per page, "always open this kind of file with"
  windows,         \* per page, the applications that have a window
  saved            \* per page, the saved session

catalogueVars == <<disabled, file, known, up, asked, chosen, windows, saved>>
serverVars == <<disabled, file>>

NothingAsked == [app |-> NoApp, enabled |-> FALSE, done |-> FALSE]
NoChoice == [key \in {ChoiceKey(f) : f \in Files} |-> NoApp]

Init ==
  /\ file \in {{}, {SettingsApp}} /\ disabled = file
  /\ known = [p \in Pages |-> {}] /\ up = {} /\ asked = [p \in Pages |-> NothingAsked]
  /\ chosen = [p \in Pages |-> NoChoice]
  /\ windows = [p \in Pages |-> {}] /\ saved = [p \in Pages |-> {}]

-----------------------------------------------------------------------------
(* Who opens a file.                                                       *)

MostOf(s) == CHOOSE x \in s : \A y \in s : y <= x
Best(a, f) == MostOf({Score(c) : c \in Claims(a, f)})

Enabled(p) == Apps \ known[p]
Claimants(apps, f) == {a \in apps : Claims(a, f) # {}}
Handlers(apps, f) == {a \in Claimants(apps, f) : \A b \in Claimants(apps, f) : Best(b, f) <= Best(a, f)}

\* Mutant of Applies: a choice is kept to, though its application is turned off.
AlwaysApplies(a, apps) == a # NoApp

\* A choice of an application that is not offered falls through to the claims.
Applies(a, apps) == a \in apps

\* resolveHandler(). Of equal scores the first by name is taken.
Resolves(p, f) ==
  LET choice == chosen[p][ChoiceKey(f)]
      best == Handlers(Enabled(p), f)
  IN IF Applies(choice, Enabled(p)) THEN {choice} ELSE IF best = {} THEN {NoApp} ELSE best

Offered(p, a) == a \in Apps /\ a \notin known[p]

\* launch(): an application that is turned off is not started.
Launched(p, a) ==
  /\ windows' = [windows EXCEPT ![p] = IF Offered(p, a) THEN @ \cup {a} ELSE @]
  /\ Cardinality(windows'[p]) <= MaxWindows

OpensFile(p, f, a) ==
  /\ p \in up /\ a \in Resolves(p, f) /\ Launched(p, a)
  /\ UNCHANGED <<serverVars, known, up, asked, chosen, saved>>

\* "Open with", of any application, and to be remembered or not. What is remembered is
\* read, changed and written at once.
OpensWith(p, f, a, remember) ==
  /\ p \in up /\ Launched(p, a)
  /\ chosen' = IF remember THEN [chosen EXCEPT ![p][ChoiceKey(f)] = a] ELSE chosen
  /\ UNCHANGED <<serverVars, known, up, asked, saved>>

Chooses(p, f, a) ==
  /\ p \in up /\ chosen' = [chosen EXCEPT ![p][ChoiceKey(f)] = a]
  /\ UNCHANGED <<serverVars, known, up, asked, windows, saved>>

\* The list of choices in Settings, drawn again whenever it gets the focus.
Forgets(p, key) ==
  /\ SettingsApp \in windows[p] /\ chosen[p][key] # NoApp
  /\ chosen' = [chosen EXCEPT ![p][key] = NoApp]
  /\ UNCHANGED <<serverVars, known, up, asked, windows, saved>>

-----------------------------------------------------------------------------
(* What is turned off.                                                     *)

Switches(p, a, enabled) ==
  /\ SettingsApp \in windows[p] /\ asked[p] = NothingAsked /\ a # SettingsApp
  /\ (a \in known[p]) = enabled
  /\ asked' = [asked EXCEPT ![p] = [app |-> a, enabled |-> enabled, done |-> FALSE]]
  /\ UNCHANGED <<serverVars, known, up, chosen, windows, saved>>

\* setEnabled(): a file that cannot be written is only warned of.
Serves(p, written) ==
  /\ asked[p] # NothingAsked /\ ~asked[p].done
  /\ disabled' = IF asked[p].enabled THEN disabled \ {asked[p].app} ELSE disabled \cup {asked[p].app}
  /\ file' = IF written THEN disabled' ELSE file
  /\ asked' = [asked EXCEPT ![p].done = TRUE]
  /\ UNCHANGED <<known, up, chosen, windows, saved>>

\* The page follows; the windows are closed, unless the person wants one kept.
Answered(p, kept) ==
  /\ asked[p].done /\ asked' = [asked EXCEPT ![p] = NothingAsked]
  /\ LET a == asked[p].app
     IN IF asked[p].enabled
        THEN known' = [known EXCEPT ![p] = @ \ {a}] /\ UNCHANGED windows
        ELSE /\ known' = [known EXCEPT ![p] = @ \cup {a}]
             /\ windows' = [windows EXCEPT ![p] = IF kept THEN @ ELSE @ \ {a}]
  /\ UNCHANGED <<serverVars, up, chosen, saved>>

ServerRestarts ==
  /\ disabled # file /\ disabled' = file
  /\ asked' = [p \in Pages |-> NothingAsked]
  /\ UNCHANGED <<file, known, up, chosen, windows, saved>>

Closes(p, a) ==
  /\ a \in windows[p] /\ windows' = [windows EXCEPT ![p] = @ \ {a}]
  /\ UNCHANGED <<serverVars, known, up, asked, chosen, saved>>

\* The page goes, with its windows saved.
Leaves(p) ==
  /\ p \in up /\ up' = up \ {p} /\ saved' = [saved EXCEPT ![p] = windows[p]]
  /\ windows' = [windows EXCEPT ![p] = {}] /\ known' = [known EXCEPT ![p] = {}]
  /\ asked' = [asked EXCEPT ![p] = NothingAsked]
  /\ UNCHANGED <<serverVars, chosen>>

\* Mutant of Heeded: the page believes whatever the list says.
HeededAll(list) == list

\* Settings is never turned off, whatever the file says.
Heeded(list) == list \ {SettingsApp}

\* start() and restoreSession(): the list is read first, and the windows come back. Where it
\* cannot be read nothing is known to be turned off.
Starts(p, read) ==
  /\ p \notin up /\ up' = up \cup {p}
  /\ known' = [known EXCEPT ![p] = IF read THEN Heeded(disabled) ELSE @]
  /\ windows' = [windows EXCEPT ![p] = saved[p]]
  /\ UNCHANGED <<serverVars, asked, chosen, saved>>

Next ==
  \/ \E p \in Pages :
       \/ Leaves(p)
       \/ \E read \in BOOLEAN : Starts(p, read)
       \/ \E kept \in BOOLEAN : Answered(p, kept) \/ Serves(p, kept)
       \/ \E f \in Files, a \in Apps \cup {NoApp} : OpensFile(p, f, a)
       \/ \E f \in Files, a \in Apps, remember \in BOOLEAN : OpensWith(p, f, a, remember)
       \/ \E f \in Files, a \in Apps \cup {NoApp} : Chooses(p, f, a)
       \/ \E key \in DOMAIN NoChoice : Forgets(p, key)
       \/ \E a \in Apps : Closes(p, a) \/ \E enabled \in BOOLEAN : Switches(p, a, enabled)
  \/ ServerRestarts

Spec == Init /\ [][Next]_catalogueVars

\* What opens a file is offered, and is what the person chose or makes a claim than which
\* no offered application makes a more specific one; nothing opens it if none claims it.
OpensWithTheMostSpecific ==
  \A p \in Pages, f \in Files : \A a \in Resolves(p, f) :
    IF a = NoApp THEN Claimants(Enabled(p), f) = {}
    ELSE /\ a \notin known[p]
         /\ a # chosen[p][ChoiceKey(f)] =>
              \E c \in Claims(a, f) : \A b \in Enabled(p) : \A d \in Claims(b, f) : ~MoreSpecific(d, c)

\* Settings, where applications are turned on again, can always be opened.
SettingsStays == \A p \in Pages : SettingsApp \notin known[p]

FilesAreOpened == OpensWithTheMostSpecific /\ SettingsStays

\* A window of an application the page knows is turned off does not come back
\* (desktop.ts 952-953).
DisabledIsSkipped ==
  [][\A p \in Pages : windows'[p] \cap known'[p] \subseteq windows[p]]_catalogueVars
=============================================================================
