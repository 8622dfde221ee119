--------------------------- MODULE DesktopSession ---------------------------
(***************************************************************************)
(* The windows of a desktop and the session that brings them back          *)
(* (client/src/ui/window-manager.ts, core/desktop.ts, core/session-store.ts*)
(* and boot() of main.ts): opening, mounting, stacking, focus, vetoed      *)
(* closes, saving, and restoring after a reload or a crash of the tab.     *)
(*                                                                         *)
(* An application has one window at a time here, and gives it its name.    *)
(* Bounds and titles are left out (WindowFrame has the bounds); a maximized*)
(* window counts as shown.                                                 *)
(***************************************************************************)
EXTENDS Naturals, Sequences

CONSTANTS
  Apps,
  NoApp,
  Impatient,     \* the page may be hidden, left or used before its session is read
  ClosesEarly,   \* a window may be closed while the session is being restored
  MaxReloads     \* bound: pages after the first

\* What the constants have to be; where the module is instantiated it is assumed.
DesktopSessionAssumption ==
  /\ NoApp \notin Apps
  /\ Impatient \in BOOLEAN /\ ClosesEarly \in BOOLEAN /\ MaxReloads \in Nat

VARIABLES
  page,       \* "starting", "restoring" or "up"
  saved,      \* session.windows, bottom of the stack first
  open,       \* entries
  stack,      \* bottom to top
  focus,      \* focusedWindow
  mini,       \* the windows that are minimized
  mounting,   \* mounts that have not returned
  running,    \* instances that have not been destroyed
  closing,    \* closes that await a veto
  todo,       \* records still to be reopened
  awaited,    \* the record restoreSession is at
  target,     \* focusTarget
  saveTimer,
  had,        \* the windows the person has opened and not closed
  kept,       \* what was on the screen when the page was left
  reloads

windowVars == <<open, stack, focus, mini, mounting, running, closing>>
restoreVars == <<todo, awaited, target>>
personVars == <<had, kept, reloads>>
desktopVars == <<page, saved, windowVars, restoreVars, saveTimer, personVars>>

NoRecord == [app |-> NoApp, mini |-> FALSE, focused |-> FALSE]
Touched == [order |-> {}, focus |-> NoApp, untouched |-> FALSE]

Members(s) == {s[i] : i \in DOMAIN s}

\* Those of a sequence that are in a set.
Among(s, S) == IF Members(s) \subseteq S THEN s ELSE SelectSeq(s, LAMBDA x : x \in S)

\* A stack without a window that is in it once.
Without(st, w) ==
  LET at == CHOOSE i \in DOMAIN st : st[i] = w
  IN [i \in 1..(Len(st) - 1) |-> st[IF i < at THEN i ELSE i + 1]]

\* Which windows are shown, and which of them is over which.
Below(st, x, y) == \E i, j \in DOMAIN st : i <= j /\ st[i] = x /\ st[j] = y
Order(st, m) == {p \in (Apps \ m) \X (Apps \ m) : Below(st, p[1], p[2])}

Empty ==
  /\ open = {} /\ stack = <<>> /\ focus = NoApp /\ mini = {}
  /\ mounting = {} /\ running = {} /\ closing = {}
  /\ todo = <<>> /\ awaited = NoRecord /\ target = NoApp /\ saveTimer = FALSE

Init ==
  /\ page = "up" /\ saved = <<>> /\ Empty
  /\ had = {} /\ kept = Touched /\ reloads = 0

-----------------------------------------------------------------------------
(* Stacking. A stack, a focus and the minimized windows, as a record.      *)

Now == [stack |-> stack, focus |-> focus, mini |-> mini]

\* setFocus: restores, raises.
SetFocus(s, w) ==
  IF w = NoApp THEN [s EXCEPT !.focus = NoApp]
  ELSE IF s.focus = w THEN [s EXCEPT !.mini = @ \ {w}]
  ELSE [stack |-> Append(Without(s.stack, w), w), focus |-> w, mini |-> s.mini \ {w}]

Visible(s) == {i \in DOMAIN s.stack : s.stack[i] \notin s.mini}

TopmostVisible(s) ==
  IF Visible(s) = {} THEN NoApp
  ELSE s.stack[CHOOSE i \in Visible(s) : \A j \in Visible(s) : j <= i]

\* minimize(), with notifyState.
Minimized(s, w) ==
  LET m == [s EXCEPT !.mini = @ \cup {w}]
  IN IF s.focus = w THEN SetFocus(m, TopmostVisible(m)) ELSE m

Becomes(s) == stack' = s.stack /\ focus' = s.focus /\ mini' = s.mini

-----------------------------------------------------------------------------
(* Saving.                                                                 *)

\* serialize() and SessionStore.save().
Saves(st, f, m, ent) ==
  saved' = LET s == Among(st, ent)
           IN [i \in DOMAIN s |-> [app |-> s[i], mini |-> s[i] \in m, focused |-> s[i] = f]]

\* Mutant of SaveSuppressed: a stack half restored is written.
NeverSuppressed == FALSE

SaveSuppressed == page = "restoring"

SaveSessionNow == IF SaveSuppressed THEN UNCHANGED saved ELSE Saves(stack, focus, mini, open)

ScheduleSave == saveTimer' = (saveTimer \/ ~SaveSuppressed)

SaveTimerFires ==
  /\ saveTimer
  /\ saveTimer' = FALSE
  /\ SaveSessionNow
  /\ UNCHANGED <<page, windowVars, restoreVars, personVars>>

\* visibilitychange.
Hidden ==
  /\ page = "starting" => Impatient
  /\ SaveSessionNow
  /\ UNCHANGED <<page, windowVars, restoreVars, saveTimer, personVars>>

-----------------------------------------------------------------------------
(* Opening and closing.                                                    *)

\* launch(), up to its await.
Opens(a) ==
  /\ open' = open \cup {a}
  /\ Becomes(SetFocus([stack |-> Append(stack, a), focus |-> focus, mini |-> mini], a))
  /\ mounting' = mounting \cup {a}
  /\ UNCHANGED <<running, closing>>

Uses == (page = "starting" => Impatient) /\ kept' = IF page = "restoring" THEN Touched ELSE kept

Launch(a) ==
  /\ a \notin open \cup mounting /\ Uses
  /\ a \notin {todo[i].app : i \in DOMAIN todo}
  /\ Opens(a)
  /\ had' = had \cup {a}
  /\ ScheduleSave
  /\ UNCHANGED <<page, saved, restoreVars, reloads>>

\* Mutant of StillWanted: the window is not looked at again.
NeverLooked(a) == TRUE

\* The window may have been closed while `mount` was running.
StillWanted(a) == a \in open

\* Mutant of Returned: the window restored last gets the focus.
LastReturned(a) ==
  IF awaited.app # a THEN UNCHANGED <<awaited, target>> ELSE awaited' = NoRecord /\ target' = a

\* launch() gives the window back to restoreSession.
Returned(a) ==
  IF awaited.app # a THEN UNCHANGED <<awaited, target>>
  ELSE awaited' = NoRecord /\ target' = IF awaited.focused THEN a ELSE target

MinimizedAtLast(a) ==
  IF awaited.app = a /\ awaited.mini THEN Becomes(Minimized(Now, a)) ELSE UNCHANGED <<stack, focus, mini>>

MountReturns(a) ==
  /\ a \in mounting
  /\ mounting' = mounting \ {a}
  /\ IF StillWanted(a)
     THEN running' = running \cup {a} /\ MinimizedAtLast(a) /\ Returned(a)
     ELSE /\ awaited' = IF awaited.app = a THEN NoRecord ELSE awaited
          /\ UNCHANGED <<running, target, stack, focus, mini>>
  /\ ScheduleSave
  /\ UNCHANGED <<page, saved, open, closing, todo, personVars>>

\* The window shows the error, if it is still there; it is given back in any case.
MountThrows(a) ==
  /\ a \in mounting
  /\ mounting' = mounting \ {a}
  /\ MinimizedAtLast(a) /\ Returned(a)
  /\ ScheduleSave
  /\ UNCHANGED <<page, saved, open, running, closing, todo, personVars>>

\* close(), up to its await.
Closes(a) ==
  /\ a \in open \ closing /\ Uses
  /\ page = "restoring" => ClosesEarly
  /\ closing' = closing \cup {a}
  /\ UNCHANGED <<page, saved, open, stack, focus, mini, mounting, running, restoreVars, saveTimer, had, reloads>>

\* The application says no; only one that is running can.
Vetoes(a) ==
  /\ a \in closing \cap running
  /\ closing' = closing \ {a}
  /\ UNCHANGED <<page, saved, open, stack, focus, mini, mounting, running, restoreVars, saveTimer, personVars>>

Closed(a) ==
  /\ a \in closing
  /\ closing' = closing \ {a} /\ open' = open \ {a} /\ running' = running \ {a}
  /\ LET s == [stack |-> Without(stack, a), focus |-> focus, mini |-> mini \ {a}]
     IN Becomes(IF focus = a THEN SetFocus(s, TopmostVisible(s)) ELSE s)
  /\ had' = had \ {a}
  /\ ScheduleSave
  /\ UNCHANGED <<page, saved, mounting, restoreVars, kept, reloads>>

-----------------------------------------------------------------------------
(* Focus, by a press in the window, its button or a key.                   *)

Stacks(s) ==
  /\ Uses /\ Becomes(s) /\ ScheduleSave
  /\ UNCHANGED <<page, saved, open, mounting, running, closing, restoreVars, had, reloads>>

Focuses(a) == a \in Members(stack) /\ Stacks(SetFocus(Now, a))
Minimizes(a) == a \in Members(stack) \ mini /\ Stacks(Minimized(Now, a))
MinimizeAll == stack # <<>> /\ Stacks([stack |-> stack, focus |-> NoApp, mini |-> Members(stack)])

\* cycleFocus: from the top of the stack to its bottom, or to the one below the top.
CycleFocus ==
  \E i \in Visible(Now) :
    /\ Visible(Now) # {i}
    /\ (\A j \in Visible(Now) : i <= j) \/ \E j \in Visible(Now) : {k \in Visible(Now) : i < k} = {j}
    /\ Stacks(SetFocus(Now, stack[i]))

-----------------------------------------------------------------------------
(* Pages.                                                                  *)

NewPage ==
  /\ reloads < MaxReloads
  /\ reloads' = reloads + 1
  /\ page' = "starting"
  /\ open' = {} /\ stack' = <<>> /\ focus' = NoApp /\ mini' = {}
  /\ mounting' = {} /\ running' = {} /\ closing' = {}
  /\ todo' = <<>> /\ awaited' = NoRecord /\ target' = NoApp /\ saveTimer' = FALSE

AppsOf(records) == {records[i].app : i \in DOMAIN records}

\* pagehide saves; a page left in the middle of a restore leaves what was saved.
Reload ==
  /\ page = "starting" => Impatient
  /\ SaveSessionNow
  /\ NewPage
  /\ kept' = IF page = "up" THEN [order |-> Order(stack, mini), focus |-> focus, untouched |-> TRUE]
             ELSE Touched
  /\ had' = IF page = "restoring" THEN AppsOf(saved) ELSE had

\* The tab is gone without a word: what was saved last comes back.
TabDies ==
  /\ NewPage
  /\ had' = AppsOf(saved) /\ kept' = Touched
  /\ UNCHANGED saved

\* boot(), once the server has answered: restoreSession reads the records.
Ready ==
  /\ page = "starting"
  /\ page' = IF saved = <<>> THEN "up" ELSE "restoring"
  /\ todo' = Among(saved, {r \in Members(saved) : r.app \notin open \cup mounting})
  /\ UNCHANGED <<saved, windowVars, awaited, target, saveTimer, personVars>>

RestoresNext ==
  /\ page = "restoring" /\ awaited = NoRecord /\ todo # <<>>
  /\ awaited' = Head(todo) /\ todo' = Tail(todo)
  /\ Opens(Head(todo).app)
  /\ UNCHANGED <<page, saved, target, saveTimer, personVars>>

\* The focus goes back to the window that had it, and what came back is saved.
RestoreEnds ==
  /\ page = "restoring" /\ awaited = NoRecord /\ todo = <<>>
  /\ page' = "up"
  /\ LET s == IF target = NoApp THEN Now ELSE SetFocus(Now, target)
     IN Becomes(s) /\ Saves(s.stack, s.focus, s.mini, open)
  /\ UNCHANGED <<open, mounting, running, closing, restoreVars, saveTimer, personVars>>

Next ==
  \/ \E a \in Apps :
       \/ Launch(a) \/ MountReturns(a) \/ MountThrows(a)
       \/ Closes(a) \/ Vetoes(a) \/ Closed(a)
       \/ Focuses(a) \/ Minimizes(a)
  \/ MinimizeAll \/ CycleFocus
  \/ SaveTimerFires \/ Hidden \/ Reload \/ TabDies
  \/ Ready \/ RestoresNext \/ RestoreEnds

Spec == Init /\ [][Next]_desktopVars

-----------------------------------------------------------------------------
(* Properties.                                                             *)

\* The stack is the open windows, the focused one is on top and shown, and there
\* is one whenever a window is shown. No application outlives its window: not
\* one whose window was closed while it mounted, nor one closed during a veto.
StackIsTheWindows ==
  /\ Members(stack) = open /\ \A i, j \in DOMAIN stack : stack[i] = stack[j] => i = j
  /\ IF Visible(Now) = {} THEN focus = NoApp
     ELSE focus = stack[Len(stack)] /\ focus \notin mini
  /\ running \subseteq open

\* Whatever was open and not closed is open again after a reload, or a crash if it
\* had been saved (session-store.ts 34-42, main.ts 162-163).
SessionSurvives == page = "up" => open = had

\* A page that is left and comes back shows its windows in the same order and
\* with the same focus (window-manager.ts 290-317).
StackingSurvives ==
  [][page = "restoring" /\ page' = "up" /\ kept.untouched
       => Order(stack', mini') = kept.order /\ focus' = kept.focus]_desktopVars
=============================================================================
