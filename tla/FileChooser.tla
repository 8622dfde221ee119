----------------------------- MODULE FileChooser -----------------------------
(***************************************************************************)
(* The dialog in which a file is chosen for a graphical application        *)
(* (client/src/apps/wayland/chooser.ts): the folder it shows, what is      *)
(* selected in it, and the answer. Others change the folders at any time,  *)
(* so that a listing may have anything, and listings are answered in any   *)
(* order. The entries of a folder have one of Names; a directory leads to  *)
(* some folder. FilePortal.tla carries the answer.                         *)
(***************************************************************************)
EXTENDS Naturals

CONSTANTS
  Folders, Names,
  MaxAsks      \* bound: folders asked for

\* What the constants have to be; where the module is instantiated it is assumed.
FileChooserAssumption ==
  /\ MaxAsks \in Nat
  /\ "none" \notin Folders \cup Names    \* "none" is no folder and no file

VARIABLES
  kind,        \* "open", "save", "save-files", or "folder": open with `directory`
  asked,       \* the folders asked for and not yet shown
  asks,
  listing,     \* [at, has], or Unlisted
  picked,      \* `selected`
  hides,       \* the names the filter leaves out
  nameTyped, confirming, \* what "Replace?" asks about
  answer, agreed

chooserVars == <<kind, asked, asks, listing, picked, hides, nameTyped, confirming, answer, agreed>>

Contents == [Names -> {"nothing", "file", "directory"}]
Empty == [n \in Names |-> "nothing"]
Unlisted == [at |-> "none", has |-> Empty]
Nothing == [at |-> "none", name |-> "none"]
Place(f, n) == [at |-> f, name |-> n]
Unanswered == {Nothing}
Done == answer # Unanswered
PickingFolder == kind \in {"folder", "save-files"}

Ask(f) == [at |-> f, has |-> Empty, got |-> FALSE]

Init ==
  /\ kind \in {"open", "save", "save-files", "folder"}
  /\ \E f \in Folders : asked = {Ask(f)}
  /\ asks = 1 /\ listing = Unlisted /\ picked = {} /\ hides = {}
  /\ nameTyped \in Names /\ confirming = Nothing
  /\ answer = Unanswered /\ agreed = {}

\* navigate().
Navigates(f) ==
  /\ ~Done /\ asks < MaxAsks /\ confirming = Nothing
  /\ asked' = asked \cup {Ask(f)} /\ asks' = asks + 1
  /\ UNCHANGED <<kind, listing, picked, hides, nameTyped, confirming, answer, agreed>>

\* fs.list reads the folder, and some time later the page has the listing.
ServerLists(a, has) ==
  /\ ~a.got
  /\ asked' = (asked \ {a}) \cup {[at |-> a.at, has |-> has, got |-> TRUE]}
  /\ UNCHANGED <<kind, asks, listing, picked, hides, nameTyped, confirming, answer, agreed>>

\* Mutant of Cleared: the selection outlives the folder.
NothingCleared == picked

\* What is selected in a folder that has just been shown.
Cleared == {}

Lists(a) ==
  /\ a.got /\ asked' = asked \ {a}
  /\ IF Done THEN UNCHANGED <<listing, picked>>
     ELSE listing' = [at |-> a.at, has |-> a.has] /\ picked' = Cleared
  /\ UNCHANGED <<kind, asks, hides, nameTyped, confirming, answer, agreed>>

\* A folder that cannot be listed leaves the dialog as it was.
ListFails(a) ==
  /\ asked' = asked \ {a}
  /\ UNCHANGED <<kind, asks, listing, picked, hides, nameTyped, confirming, answer, agreed>>

IsDirectory(p) == p.at = listing.at /\ listing.has[p.name] = "directory"

\* visibleEntries(): every directory, and the files the filter lets through.
Visible ==
  {Place(listing.at, n) : n \in {m \in Names :
     \/ listing.has[m] = "directory"
     \/ listing.has[m] = "file" /\ ~PickingFolder /\ m \notin hides}}

\* pick(); with a modifier where the application takes several.
Picks(p, extend) ==
  /\ ~Done /\ confirming = Nothing /\ p \in Visible
  /\ picked' = IF ~(extend /\ kind # "save") THEN {p}
               ELSE IF p \in picked THEN picked \ {p} ELSE picked \cup {p}
  /\ nameTyped' = IF kind = "save" /\ ~IsDirectory(p) THEN p.name ELSE nameTyped
  /\ UNCHANGED <<kind, asked, asks, listing, hides, confirming, answer, agreed>>

Types(n) ==
  /\ ~Done /\ kind = "save" /\ confirming = Nothing /\ nameTyped' = n
  /\ UNCHANGED <<kind, asked, asks, listing, picked, hides, confirming, answer, agreed>>

\* Another filter, which leaves what is selected selected.
Filters(ns) ==
  /\ ~Done /\ confirming = Nothing /\ hides' = ns
  /\ UNCHANGED <<kind, asked, asks, listing, picked, nameTyped, confirming, answer, agreed>>

Finish(places) == answer' = places /\ UNCHANGED <<kind, asked, asks, listing, picked, hides, nameTyped>>

-----------------------------------------------------------------------------
(* accept(). A name that is empty or has a slash in it is refused.         *)

CanAccept == ~Done /\ listing # Unlisted /\ confirming = Nothing

\* Mutant of Exists: nothing is asked about.
NeverExists(p) == FALSE

\* Whether the listing has a file there.
Exists(p) == listing.has[p.name] = "file"

AcceptsSave ==
  /\ kind = "save" /\ CanAccept
  /\ LET target == Place(listing.at, nameTyped)
     IN \/ IsDirectory(target) /\ \E f \in Folders : Navigates(f)
        \/ /\ Exists(target) /\ confirming' = target
           /\ UNCHANGED <<kind, asked, asks, listing, picked, hides, nameTyped, answer, agreed>>
        \/ ~IsDirectory(target) /\ ~Exists(target) /\ Finish({target}) /\ UNCHANGED <<confirming, agreed>>

Confirms(ok) ==
  /\ confirming # Nothing /\ confirming' = Nothing
  /\ IF ok /\ ~Done THEN Finish({confirming}) /\ agreed' = {confirming}
     ELSE UNCHANGED <<kind, asked, asks, listing, picked, hides, nameTyped, answer, agreed>>

\* A directory that is selected, or the one that is shown. Of several it is the one selected
\* first, which is any of them here.
AcceptsFolder ==
  /\ PickingFolder /\ CanAccept
  /\ LET chosen == {p \in picked : IsDirectory(p)}
     IN IF chosen = {} THEN Finish({Place(listing.at, "none")}) ELSE \E p \in chosen : Finish({p})
  /\ UNCHANGED <<confirming, agreed>>

\* The files that are selected; or else into a directory that is.
AcceptsOpen ==
  /\ kind = "open" /\ CanAccept /\ picked # {}
  /\ LET files == {p \in picked : ~IsDirectory(p)}
     IN IF files = {} THEN \E f \in Folders : Navigates(f)
        ELSE Finish(files) /\ UNCHANGED <<confirming, agreed>>

\* "Cancel", Escape, or the dialog is taken down.
Cancels == ~Done /\ Finish({}) /\ UNCHANGED <<confirming, agreed>>

Next ==
  \/ \E f \in Folders : Navigates(f)
  \/ \E a \in asked : Lists(a) \/ ListFails(a) \/ \E has \in Contents : ServerLists(a, has)
  \/ \E p \in Visible, extend \in BOOLEAN : Picks(p, extend)
  \/ \E n \in Names : Types(n)
  \/ \E ns \in SUBSET Names : Filters(ns)
  \/ AcceptsSave \/ AcceptsFolder \/ AcceptsOpen \/ Cancels
  \/ \E ok \in BOOLEAN : Confirms(ok)

Spec == Init /\ [][Next]_chooserVars

\* What an application is given to open is a file, and what it is given as a folder a
\* directory, of the folder on the screen, or that folder; and what it is given to save to
\* is in that listing only where replacing it was agreed to (chooser.ts 219-263). It says
\* nothing of what is not in the listing, as hidden files and those made since, and nothing
\* of the files an application that saves several will write into the folder it is given.
AnswerWasSeen ==
  Done => \A p \in answer :
    /\ kind = "open" => p.at = listing.at /\ listing.has[p.name] = "file"
    /\ PickingFolder => p.at = listing.at /\ (p.name = "none" \/ listing.has[p.name] = "directory")
    /\ kind = "save" /\ p.at = listing.at /\ listing.has[p.name] # "nothing" => p \in agreed
=============================================================================
