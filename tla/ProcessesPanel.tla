---------------------------- MODULE ProcessesPanel ----------------------------
(***************************************************************************)
(* The processes panel (client/src/apps/sysman/processes.ts), the table it *)
(* is drawn in (sysman/common.ts, DataTable) and the service it asks       *)
(* (server/src/services/proc.ts): a list that is polled while processes    *)
(* come and go, a selection that outlives the rows, details that arrive    *)
(* later, and a signal that is sent when the person has been asked.        *)
(* A process is known by its pid, here as in the code, and a pid may be    *)
(* used again. Columns, sorting and what the details say are left out.     *)
(***************************************************************************)
CONSTANTS
  Pids, NoPid,
  Own,       \* the pids of the desktop's own tree
  InHaste    \* the panel may be left while a list is on its way, and a handed-over
             \* process be hidden from the table

\* What the constants have to be; where the module is instantiated it is assumed.
ProcessesAssumption ==
  NoPid \notin Pids /\ Own \subseteq Pids /\ InHaste \in BOOLEAN

VARIABLES
  living,       \* the pids that are a process's
  watched,      \* activate()
  polling,      \* "no", "asked", or "taken"
  list,         \* the list that is on its way
  rows,         \* `rows`
  previous,     \* the last list may be used for the rates of the next
  filter,       \* NoPid: none
  ownOnly,
  selectedKey,  \* the row the table marks
  selectedPid, wantSelect,
  inspected,    \* the pids whose details are on their way
  detail,       \* the process whose details, and buttons, are shown
  prompt,       \* the process a question is about
  signals,      \* signals on their way, one at a time (a bound)
  misfired      \* a signal has reached a process of another pid than was named

processVars == <<living, watched, polling, list, rows, previous, filter, ownOnly, selectedKey,
                 selectedPid, wantSelect, inspected, detail, prompt, signals, misfired>>
tableVars == <<rows, filter, ownOnly, selectedKey, selectedPid, wantSelect, inspected, detail>>
pollVars == <<watched, polling, list, previous>>

Init ==
  /\ living \in SUBSET Pids
  /\ watched = FALSE /\ polling = "no" /\ list = {} /\ rows = {} /\ previous = FALSE
  /\ filter = NoPid /\ ownOnly = FALSE /\ selectedKey = NoPid /\ selectedPid = NoPid
  /\ wantSelect = NoPid /\ inspected = {} /\ detail = NoPid /\ prompt = NoPid
  /\ signals = {} /\ misfired = FALSE

\* The host. A pid is given to another process when its own has ended.
Starts(p) ==
  /\ p \notin living /\ living' = living \cup {p}
  /\ UNCHANGED <<pollVars, tableVars, prompt, signals, misfired>>

Ends(p) ==
  /\ p \in living /\ living' = living \ {p}
  /\ UNCHANGED <<pollVars, tableVars, prompt, signals, misfired>>

\* visible(): the filter of a pid shows that row alone.
Shown(r, f, own) == {p \in r : f \in {NoPid, p} /\ (own => p \in Own)}

\* table.select(): nothing, if it is the row that is marked; onSelect of a row the
\* table does not have is onSelect(null).
Select(key, r, f, own) ==
  /\ selectedKey' = key
  /\ IF key = selectedKey THEN UNCHANGED <<selectedPid, inspected, detail>>
     ELSE LET pid == IF key \in Shown(r, f, own) THEN key ELSE NoPid
          IN /\ selectedPid' = pid /\ detail' = NoPid
             /\ inspected' = IF pid = NoPid THEN inspected ELSE inspected \cup {pid}

\* afterPoll(), with what the list and the filter have become.
AfterPoll(r, f, want) ==
  LET found == want \in r
      chosen == IF ~found \/ want = selectedKey THEN selectedPid
                ELSE IF want \in Shown(r, f, ownOnly) THEN want ELSE NoPid
      ended == chosen # NoPid /\ chosen \notin r
  IN /\ wantSelect' = IF found THEN NoPid ELSE want
     /\ filter' = IF ended /\ f = chosen THEN NoPid ELSE f
     /\ IF ended THEN Select(NoPid, r, f, ownOnly)
        ELSE IF found THEN Select(want, r, f, ownOnly)
        ELSE UNCHANGED <<selectedKey, selectedPid, inspected, detail>>

\* poll(): one at a time.
Poll == polling' = IF polling = "no" THEN "asked" ELSE polling

Polls ==
  /\ watched /\ polling = "no" /\ Poll
  /\ UNCHANGED <<living, watched, list, previous, tableVars, prompt, signals, misfired>>

ListTaken ==
  /\ polling = "asked" /\ polling' = "taken" /\ list' = living
  /\ UNCHANGED <<living, watched, previous, tableVars, prompt, signals, misfired>>

ListArrives ==
  /\ polling = "taken" /\ polling' = "no" /\ list' = {}
  /\ rows' = list /\ previous' = TRUE
  /\ AfterPoll(list, filter, wantSelect)
  /\ UNCHANGED <<living, watched, ownOnly, prompt, signals, misfired>>

ListFails ==
  /\ polling # "no" /\ polling' = "no" /\ list' = {} /\ previous' = FALSE
  /\ UNCHANGED <<living, watched, tableVars, prompt, signals, misfired>>

\* A click on a row, the same again, Escape, an arrow.
Clicks(p) ==
  /\ watched /\ prompt = NoPid /\ p \in Shown(rows, filter, ownOnly)
  /\ Select(IF p = selectedKey THEN NoPid ELSE p, rows, filter, ownOnly)
  /\ UNCHANGED <<living, pollVars, rows, filter, ownOnly, wantSelect, prompt, signals, misfired>>

Filters(f, own) ==
  /\ watched /\ prompt = NoPid /\ filter' = f /\ ownOnly' = own
  /\ wantSelect # NoPid => (InHaste \/ (f \in {NoPid, wantSelect} /\ ~own))
  /\ UNCHANGED <<living, pollVars, rows, selectedKey, selectedPid, wantSelect, inspected, detail,
                 prompt, signals, misfired>>

\* applyParams(): a pid handed over by another section.
Applies(p) ==
  /\ ~watched /\ (ownOnly => InHaste)
  /\ AfterPoll(rows, p, p)
  /\ UNCHANGED <<living, pollVars, rows, ownOnly, prompt, signals, misfired>>

\* Mutant of StillSelected: the details are shown, whichever row is selected by now.
AlwaysSelected(pid) == TRUE

StillSelected(pid) == selectedPid = pid

\* The details, or that the process could not be inspected: it may have ended when it was
\* looked at, whether or not its pid is in use by now.
DetailArrives(p, there) ==
  /\ p \in inspected /\ inspected' = inspected \ {p}
  /\ detail' = IF ~StillSelected(p) THEN detail ELSE IF there THEN p ELSE NoPid
  /\ UNCHANGED <<living, pollVars, rows, filter, ownOnly, selectedKey, selectedPid, wantSelect,
                 prompt, signals, misfired>>

\* signal(): of the details' buttons, or of the menu of a row, which selects it first.
Asks(p) ==
  /\ watched /\ prompt = NoPid /\ prompt' = p
  /\ \/ p = detail /\ UNCHANGED <<selectedKey, selectedPid, inspected, detail>>
     \/ /\ p \in Shown(rows, filter, ownOnly)
        /\ Select(p, rows, filter, ownOnly)
  /\ UNCHANGED <<living, pollVars, rows, filter, ownOnly, wantSelect, signals, misfired>>

\* Mutant of Target: the process that is selected when the answer is given.
TheSelected(p) == selectedPid

Target(p) == p

Answers(ok) ==
  /\ prompt # NoPid /\ prompt' = NoPid /\ (ok => signals = {})
  /\ signals' = IF ok THEN {[named |-> prompt, pid |-> Target(prompt)]} ELSE signals
  /\ UNCHANGED <<living, pollVars, tableVars, misfired>>

\* kill(): by pid. The process may end of it, or not; the panel polls again.
Delivered(s) ==
  /\ s \in signals /\ signals' = signals \ {s}
  /\ misfired' = (misfired \/ (s.pid # s.named /\ s.pid \in living))
  /\ Poll
  /\ UNCHANGED <<living, watched, list, previous, tableVars, prompt>>

Activates ==
  /\ ~watched /\ watched' = TRUE /\ Poll
  /\ UNCHANGED <<living, list, previous, tableVars, prompt, signals, misfired>>

Deactivates ==
  /\ watched /\ prompt = NoPid /\ (polling # "no" \/ signals # {} => InHaste)
  /\ watched' = FALSE /\ previous' = FALSE
  /\ UNCHANGED <<living, polling, list, tableVars, prompt, signals, misfired>>

Next ==
  \/ \E p \in Pids : Starts(p) \/ Ends(p) \/ Clicks(p) \/ Applies(p) \/ Asks(p)
  \/ \E f \in Pids \cup {NoPid}, own \in BOOLEAN : Filters(f, own)
  \/ \E ok \in BOOLEAN : Answers(ok) \/ \E p \in inspected : DetailArrives(p, ok)
  \/ \E s \in signals : Delivered(s)
  \/ Polls \/ ListTaken \/ ListArrives \/ ListFails \/ Activates \/ Deactivates

Spec == Init /\ [][Next]_processVars

\* The details, and the two buttons under them, are of the row that is marked.
DetailIsOfTheMarked == detail # NoPid => detail = selectedPid /\ selectedPid = selectedKey

\* A row that is marked is the process the panel has selected: the next click on it
\* would otherwise deselect what nobody sees selected.
MarkedIsSelected == selectedKey = selectedPid

\* A signal goes to the pid the person was asked about, whatever has been selected since.
\* Where its process has ended it may be another's by then: nothing compares the two.
StruckIsNamed == ~misfired

\* Rates are computed from adjacent lists: none is kept while nobody polls
\* (processes.ts, deactivate: a stale one would invent a spike).
RatesAreOfAdjacentLists == previous => watched

KillsWhatWasNamed ==
  DetailIsOfTheMarked /\ MarkedIsSelected /\ StruckIsNamed /\ RatesAreOfAdjacentLists
=============================================================================
