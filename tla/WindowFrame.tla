----------------------------- MODULE WindowFrame -----------------------------
(***************************************************************************)
(* The frame of one window (client/src/ui/window.ts): its state, its       *)
(* geometry, the geometry it returns to, and dragging, resizing and        *)
(* snapping it with the pointer. One dimension: a rectangle is an `x` and a*)
(* width; the vertical rules are the same.                                 *)
(***************************************************************************)
EXTENDS Integers

CONSTANTS
  AreaWidths,    \* of the work area, which starts at 0
  MinWidth,
  Keep,          \* KEEP_VISIBLE_PX
  Careless       \* the frame may be changed in the middle of a drag or a resize, and
                 \* pulled by its left edge when it hangs over the right of the work area

\* What the constants have to be; where the module is instantiated it is assumed.
WindowFrameAssumption ==
  /\ AreaWidths \subseteq Nat /\ MinWidth \in Nat \ {0} /\ Keep \in Nat
  /\ Keep <= MinWidth /\ \A a \in AreaWidths : 2 * Keep <= a /\ Keep < a
  /\ Careless \in BOOLEAN

VARIABLES
  areaWidth, frameState, bounds, restoreBounds, wasMaximizedBeforeMinimize,
  gesture,      \* what the pointer is doing, and what its handlers have closed over
  placed        \* where the window last was when it was neither minimized nor maximized

frameVars == <<areaWidth, frameState, bounds, restoreBounds, wasMaximizedBeforeMinimize, gesture, placed>>

Larger(a, b) == IF a > b THEN a ELSE b
Smaller(a, b) == IF a < b THEN a ELSE b

Rect(x, w) == [x |-> x, w |-> w]
WorkArea == Rect(0, areaWidth)
NoSnap == Rect(0, 0)
Idle == [kind |-> "none", from |-> 0, start |-> NoSnap, area |-> 0, snap |-> NoSnap]

ClampTo(r, area) ==
  LET w == Larger(MinWidth, Smaller(r.w, area))
  IN Rect(Smaller(Larger(r.x, Keep - w), area - Keep), w)

ClampToWorkArea(r) == ClampTo(r, areaWidth)

Init ==
  /\ areaWidth \in AreaWidths /\ frameState = "normal"
  /\ \E r \in {Rect(0, areaWidth), Rect(1, MinWidth)} : bounds = ClampToWorkArea(r)
  /\ restoreBounds = bounds /\ wasMaximizedBeforeMinimize = FALSE
  /\ gesture = Idle /\ placed = bounds

\* Every step says what becomes of state and bounds; the last normal place follows.
Places(state, r) ==
  /\ frameState' = state /\ bounds' = r
  /\ placed' = IF state = "normal" THEN r ELSE placed

-----------------------------------------------------------------------------
(* The handle.                                                             *)

\* Mutant of Remembers: a window that is minimized from full screen, too.
AlwaysRemembers == restoreBounds' = bounds

\* The restore geometry is taken when a normal window is minimized or maximized.
Remembers == restoreBounds' = IF frameState = "normal" THEN bounds ELSE restoreBounds

Minimize ==
  /\ frameState # "minimized"
  /\ Remembers
  /\ wasMaximizedBeforeMinimize' = (frameState = "maximized")
  /\ Places("minimized", bounds)
  /\ UNCHANGED <<areaWidth, gesture>>

Maximize ==
  /\ frameState # "maximized"
  /\ Remembers
  /\ Places("maximized", WorkArea)
  /\ UNCHANGED <<areaWidth, wasMaximizedBeforeMinimize, gesture>>

\* restore(): a window minimized while maximized is maximized again.
RestoresTo ==
  IF frameState = "minimized" /\ wasMaximizedBeforeMinimize THEN <<"maximized", WorkArea>>
  ELSE <<"normal", ClampToWorkArea(restoreBounds)>>

Restore ==
  /\ frameState # "normal"
  /\ Places(RestoresTo[1], RestoresTo[2])
  /\ wasMaximizedBeforeMinimize' = FALSE
  /\ UNCHANGED <<areaWidth, restoreBounds, gesture>>

\* From the application, a part of the rectangle.
SetBounds(r) ==
  /\ Places(IF frameState = "maximized" THEN "normal" ELSE frameState, ClampToWorkArea(r))
  /\ UNCHANGED <<areaWidth, restoreBounds, wasMaximizedBeforeMinimize, gesture>>

\* The viewport or the taskbar changes: reflow().
Reflow(a) ==
  /\ areaWidth' = a
  /\ Places(frameState, IF frameState = "maximized" THEN Rect(0, a) ELSE ClampTo(bounds, a))
  /\ UNCHANGED <<restoreBounds, wasMaximizedBeforeMinimize, gesture>>

-----------------------------------------------------------------------------
(* The pointer.                                                            *)

\* A maximized window that is dragged is restored, under the pointer.
Picked(px) ==
  IF frameState # "maximized" THEN bounds
  ELSE LET r == ClampToWorkArea(restoreBounds)
       IN Rect(px - (r.w * (px - bounds.x)) \div bounds.w, r.w)

BeginDrag(px) ==
  /\ frameState # "minimized" /\ gesture.kind = "none"
  /\ px \in bounds.x..(bounds.x + bounds.w)
  /\ LET r == Picked(px)
     IN /\ Places("normal", r)
        /\ gesture' = [kind |-> "drag", from |-> px - r.x, start |-> r, area |-> areaWidth, snap |-> NoSnap]
  /\ UNCHANGED <<areaWidth, restoreBounds, wasMaximizedBeforeMinimize>>

\* snapTargetFor(): the top edge is the whole area, an edge its half.
SnapTargets(px) ==
  {Rect(0, gesture.area)} \cup
  (IF px <= 0 THEN {Rect(0, gesture.area \div 2)}
   ELSE IF px >= gesture.area THEN {Rect(gesture.area - gesture.area \div 2, gesture.area \div 2)}
   ELSE {NoSnap})

DragMoves(px) ==
  /\ gesture.kind = "drag"
  /\ Places(frameState, ClampToWorkArea([bounds EXCEPT !.x = px - gesture.from]))
  /\ \E s \in SnapTargets(px) : gesture' = [gesture EXCEPT !.snap = s]
  /\ UNCHANGED <<areaWidth, restoreBounds, wasMaximizedBeforeMinimize>>

DragEnds ==
  /\ gesture.kind = "drag" /\ gesture' = Idle
  /\ IF gesture.snap = NoSnap THEN UNCHANGED <<frameState, bounds, placed, restoreBounds>>
     ELSE IF gesture.snap.w # gesture.area THEN Places(frameState, gesture.snap) /\ UNCHANGED restoreBounds
     ELSE IF frameState = "maximized" THEN UNCHANGED <<frameState, bounds, placed, restoreBounds>>
     ELSE Remembers /\ Places("maximized", WorkArea)
  /\ UNCHANGED <<areaWidth, wasMaximizedBeforeMinimize>>

\* A maximized window hides its edges (window.css 192).
BeginResize(edge, px) ==
  /\ frameState = "normal" /\ gesture.kind = "none"
  /\ px = IF edge = "east" THEN bounds.x + bounds.w ELSE bounds.x
  /\ edge = "east" \/ bounds.x + bounds.w <= areaWidth \/ Careless
  /\ gesture' = [kind |-> edge, from |-> px, start |-> bounds, area |-> areaWidth, snap |-> NoSnap]
  /\ UNCHANGED <<areaWidth, frameState, bounds, restoreBounds, wasMaximizedBeforeMinimize, placed>>

\* Growing leftwards moves the origin.
Stretched(px) ==
  LET s == gesture.start
      dx == px - gesture.from
      w == IF gesture.kind = "east" THEN s.w + dx ELSE Larger(MinWidth, s.w - dx)
      x == IF gesture.kind = "east" THEN s.x ELSE s.x + (s.w - w)
  IN Rect(Larger(0, x), Larger(MinWidth, Smaller(w, gesture.area - x)))

ResizeMoves(px) ==
  /\ gesture.kind \in {"east", "west"}
  /\ Places(frameState, Stretched(px))
  /\ UNCHANGED <<areaWidth, restoreBounds, wasMaximizedBeforeMinimize, gesture>>

ResizeEnds ==
  /\ gesture.kind \in {"east", "west"} /\ gesture' = Idle
  /\ restoreBounds' = bounds
  /\ UNCHANGED <<areaWidth, frameState, bounds, placed, wasMaximizedBeforeMinimize>>

-----------------------------------------------------------------------------
Widest == CHOOSE a \in AreaWidths : \A b \in AreaWidths : b <= a

Next ==
  \/ /\ gesture.kind = "none" \/ Careless
     /\ \/ Minimize \/ Maximize \/ Restore
        \/ \E r \in {Rect(bounds.x + 1, bounds.w), Rect(bounds.x, bounds.w + 1)} : SetBounds(r)
        \/ \E a \in AreaWidths : Reflow(a)
  \/ \E px \in 0..Widest :
       \/ BeginDrag(px) \/ DragMoves(px) \/ ResizeMoves(px)
       \/ \E edge \in {"east", "west"} : BeginResize(edge, px)
  \/ DragEnds \/ ResizeEnds

Spec == Init /\ [][Next]_frameVars

\* snapshot().
Snapshot == IF frameState = "normal" THEN bounds ELSE restoreBounds

\* A window un-maximizes, and is saved, to where the person last had it
\* (window.ts 311-316); maximized, it fills the work area; and enough of its
\* titlebar stays in reach to drag it back (380-391).
KeepsItsPlace ==
  /\ Snapshot = placed
  /\ frameState = "maximized" => bounds = WorkArea
  /\ frameState # "minimized" => bounds.x + bounds.w >= Keep /\ bounds.x <= areaWidth - Keep
=============================================================================
