------------------------------- MODULE MCShell -------------------------------
(*****************************************************************************)
(* The parts of the desktop itself, side by side: the windows and the        *)
(* session that brings them back, the frame of a window and the size it      *)
(* agrees on with a native application, the keys such an application is      *)
(* sent, the clipboard, dialogs, the catalogue of applications, and the      *)
(* access token. They share no state, so one of them runs in each behaviour  *)
(* and the others stand still: what is checked of each is what checking it   *)
(* alone would check.                                                        *)
(*****************************************************************************)
EXTENDS Integers, Sequences

CONSTANTS
  SessionApps, NoApp, Impatient, ClosesEarly, MaxReloads, AreaWidths, MinWidth, Keep,
  Careless, MaxDialogs, Pages, Apps, SettingsApp, MaxWindows, Files, Desktops,
  Remotes, MaxTokens, MaxDrops, InHaste, Least, Area, Default, Sizes, Zooms, Early, Crossing,
  MaxActs, MaxChoices, Canvases, Nowhere, Chords, Quick, MaxEvents, Texts, NoText, Unseen, Overlapping,
  MaxCopies, Limits, ChoiceKey(_), Claims(_, _)

Claim(kind, length, priority) == [kind |-> kind, length |-> length, priority |-> priority]

\* An editor, an archiver and Settings; an archive and a file with a name of its own.
MCKeys(f) == IF f = "a.tar.gz" THEN ".tar.gz" ELSE "name:Makefile"
MCClaims(a, f) ==
  CASE a = "editor" -> {Claim("fallback", 0, 0)} \cup
                       (IF f = "Makefile" THEN {Claim("predicate", 0, 1)} ELSE {Claim("extension", 3, 1)})
    [] a = "archiver" -> IF f = "a.tar.gz" THEN {Claim("extension", 7, 0)} ELSE {Claim("name", 0, 0)}
    [] OTHER -> {}

\* Applications of any size, of a least and of a fixed one.
MCLimits == {<<0, 0>>, <<3, 0>>, <<2, 2>>}

VARIABLES
  which,   \* the part that runs in this behaviour
  page, sessionSaved, open, stack, focus, mini, mounting, running, closing, todo, awaited,
  target, saveTimer, had, kept, reloads,
  areaWidth, frameState, bounds, restoreBounds, wasMaximizedBeforeMinimize, gesture, placed,
  dialogs, focusAt, moved,
  disabled, file, known, up, asked, chosen, windows, catalogueSaved,
  disk, token, copy, state, told, requests, drops,
  winState, outer, restoreOuter, zoom, unclaimed, sizeAsked, canvas, minKnown, scrollable,
  resizeTimer, toComp, toPage, toApp, wish, notices, isX, limits, cfg, drawn, pendingFrame,
  wanted, acts, choices,
  held, keyFocus, inHand, pendingPaste, writes, borrowedFocus, wire, pressed, keyboard, astray,
  events,
  shares, machine, local, system, seenSystem, clock, writing, expectedPaste, reading, newest,
  pasted, copies

Session == INSTANCE DesktopSession WITH saved <- sessionSaved, Apps <- SessionApps
Frame == INSTANCE WindowFrame
Dialog == INSTANCE Dialogs
Catalogue == INSTANCE AppCatalogue WITH saved <- catalogueSaved
Token == INSTANCE TokenRotation
Size == INSTANCE SizeTalk WITH asked <- sizeAsked
Relay == INSTANCE KeyRelay WITH focus <- keyFocus
Clip == INSTANCE Clipboard

ASSUME ConstantsAssumption ==
  /\ Session!DesktopSessionAssumption
  /\ Frame!WindowFrameAssumption
  /\ Dialog!DialogsAssumption
  /\ Catalogue!CatalogueAssumption
  /\ Token!TokenAssumption
  /\ Size!SizeTalkAssumption
  /\ Relay!KeyRelayAssumption
  /\ Clip!ClipboardAssumption

sessionVars == <<page, sessionSaved, open, stack, focus, mini, mounting, running, closing, todo,
                 awaited, target, saveTimer, had, kept, reloads>>
frameVars == <<areaWidth, frameState, bounds, restoreBounds, wasMaximizedBeforeMinimize,
               gesture, placed>>
dialogVars == <<dialogs, focusAt, moved>>
catalogueVars == <<disabled, file, known, up, asked, chosen, windows, catalogueSaved>>
tokenVars == <<disk, token, copy, state, told, requests, drops>>
sizeVars == <<winState, outer, restoreOuter, zoom, unclaimed, sizeAsked, canvas, minKnown,
              scrollable, resizeTimer, toComp, toPage, toApp, wish, notices, isX, limits, cfg,
              drawn, pendingFrame, wanted, acts, choices>>
relayVars == <<held, keyFocus, inHand, pendingPaste, writes, borrowedFocus, wire, pressed,
               keyboard, astray, events>>
clipVars == <<shares, machine, local, system, seenSystem, clock, writing, expectedPaste, reading,
              newest, pasted, copies>>

\* Of the parts that do not run one initial state is enough.
Init ==
  /\ which \in {"session", "frame", "dialog", "catalogue", "token", "size", "relay", "clip"}
  /\ Session!Init
  /\ Frame!Init /\ (which # "frame" => bounds.x = 0 /\ \A w \in AreaWidths : areaWidth <= w)
  /\ Dialog!Init
  /\ Catalogue!Init /\ (which # "catalogue" => disabled = {})
  /\ Token!Init
  /\ Size!Init
  /\ which # "size" => ~isX /\ limits = <<0, 0>> /\ \A s \in Sizes : wanted <= s
  /\ Relay!Init
  /\ Clip!Init /\ (which # "clip" => shares = "all" /\ machine = NoText)

Only(part) ==
  /\ which = part /\ UNCHANGED which
  /\ part # "session" => UNCHANGED sessionVars
  /\ part # "frame" => UNCHANGED frameVars
  /\ part # "dialog" => UNCHANGED dialogVars
  /\ part # "catalogue" => UNCHANGED catalogueVars
  /\ part # "token" => UNCHANGED tokenVars
  /\ part # "size" => UNCHANGED sizeVars
  /\ part # "relay" => UNCHANGED relayVars
  /\ part # "clip" => UNCHANGED clipVars

SessionSteps == Only("session") /\ Session!Next
FrameSteps == Only("frame") /\ Frame!Next
DialogSteps == Only("dialog") /\ Dialog!Next
CatalogueSteps == Only("catalogue") /\ Catalogue!Next
TokenSteps == Only("token") /\ Token!Next
SizeSteps == Only("size") /\ Size!Next
RelaySteps == Only("relay") /\ Relay!Next
ClipSteps == Only("clip") /\ Clip!Next

Next ==
  \/ SessionSteps \/ FrameSteps \/ DialogSteps \/ CatalogueSteps \/ TokenSteps
  \/ SizeSteps \/ RelaySteps \/ ClipSteps

vars == <<which, sessionVars, frameVars, dialogVars, catalogueVars, tokenVars, sizeVars, relayVars,
          clipVars>>
Spec == Init /\ [][Next]_vars

\* The session survives reloads, crashes of the tab and pages that are left early: what comes
\* back is what the person had open, and the stack holds exactly the windows that are open.
SessionSurvives == Session!SessionSurvives /\ Session!StackIsTheWindows

\* Restoring a session leaves its windows stacked, and the focus, as they were saved.
StackingSurvives == Session!StackingSurvives

\* A window ends every drag, resize, maximizing and change of the screen where it can be
\* reached, and goes back to the place it was put in; and the size of a native application and
\* of its window agree once nothing is on its way, with what was chosen last, in the orders that
\* Careless, Early and Crossing let happen.
KeepsItsPlace == Frame!KeepsItsPlace /\ Size!SizesAgree

\* A native application holds the keys that are held over it, and what is pasted, there or
\* anywhere, is what was copied last, in the orders that Chords, Quick, InHaste, Unseen and
\* Overlapping let happen.
KeysAndCopiesArrive == Relay!KeysArriveAsHeld /\ Clip!PastesTheLatest

\* Enter does not confirm the dangerous dialog that was shown last, unless the focus has been
\* moved since.
EnterCancelsDanger == Dialog!EnterCancelsDanger

\* A file is opened by what the person chose or by the most specific claim of what is
\* offered, and Settings is always offered.
FilesAreOpened == Catalogue!FilesAreOpened

\* A window of an application that is turned off does not come back (desktop.ts 952-953).
DisabledIsSkipped == Catalogue!DisabledIsSkipped

\* The token that is checked is the one on disk, and every desktop has it, is being told or
\* has been signed out.
TokenIsKnown == Token!TokenIsKnown
=============================================================================
