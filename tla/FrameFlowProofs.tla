-------------------------- MODULE FrameFlowProofs --------------------------
(***************************************************************************)
(* The pacing of frames for any number of commits, sizes, drops and        *)
(* resyncs: every frame that is anywhere between the compositor and the    *)
(* page, and every acknowledgement on its way back, is accounted for by    *)
(* `inFlight` or by something that is allowed to let one more out. And the *)
(* picture itself: every cell the application drew is held back, on its    *)
(* way to the page, or shown there.                                        *)
(***************************************************************************)
EXTENDS FrameFlow, FiniteSetTheorems, SequenceTheorems, TLAPS

-----------------------------------------------------------------------------
(* Counting in queues.                                                     *)

\* A set of places in a queue is finite.
LEMMA PlacesFinite ==
  ASSUME NEW n \in Nat, NEW A \in SUBSET (1..n)
  PROVE  IsFiniteSet(A) /\ Cardinality(A) \in Nat
<1>1. 1 \in Int /\ n \in Int
  OBVIOUS
<1>2. IsFiniteSet(1..n)
  BY <1>1, FS_Interval
<1>3. A \subseteq 1..n
  OBVIOUS
<1>4. IsFiniteSet(A)
  BY <1>2, <1>3, FS_Subset
<1> QED BY <1>4, FS_CardinalityType

\* A place at the end may be one more.
LEMMA PlacesAppended ==
  ASSUME NEW n \in Nat, NEW A \in SUBSET (1..n), NEW B \in SUBSET (1..n + 1), B \cap (1..n) = A
  PROVE  Cardinality(B) = Cardinality(A) + (IF n + 1 \in B THEN 1 ELSE 0)
<1>1. IsFiniteSet(A) /\ Cardinality(A) \in Nat
  BY PlacesFinite
<1>0. /\ \A i \in B : i \in A \/ i = n + 1
      /\ \A i \in A : i \in B
      /\ n + 1 \notin A
  <2>1. \A i \in 1..n + 1 : i \in 1..n \/ i = n + 1
    OBVIOUS
  <2>2. \A i \in 1..n : i # n + 1
    OBVIOUS
  <2>3. \A i : i \in A <=> i \in B /\ i \in 1..n
    OBVIOUS
  <2>4. n + 1 \notin 1..n
    OBVIOUS
  <2> QED BY <2>1, <2>3, <2>4
<1>2. CASE n + 1 \in B
  <2>1. B = A \cup {n + 1} /\ n + 1 \notin A
    BY <1>0, <1>2
  <2> QED BY <1>1, <1>2, <2>1, FS_AddElement
<1>3. CASE n + 1 \notin B
  <2>1. B = A
    BY <1>0, <1>3
  <2> QED BY <1>1, <1>3, <2>1
<1> QED BY <1>2, <1>3

\* When the first place goes, the others move up.
LEMMA PlacesShifted ==
  ASSUME NEW n \in Nat, n > 0, NEW A \in SUBSET (1..n), NEW B \in SUBSET (1..n - 1),
         \A i \in 1..n - 1 : i \in B <=> i + 1 \in A
  PROVE  Cardinality(B) = Cardinality(A) - (IF 1 \in A THEN 1 ELSE 0)
<1> DEFINE C == A \ {1}
           up == [i \in B |-> i + 1]
<1>1. IsFiniteSet(A) /\ Cardinality(A) \in Nat
  BY PlacesFinite
<1>2. IsFiniteSet(C) /\ Cardinality(C) = Cardinality(A) - (IF 1 \in A THEN 1 ELSE 0)
  BY <1>1, FS_RemoveElement
<1>3. IsFiniteSet(B)
  <2>1. n - 1 \in Nat
    OBVIOUS
  <2> QED BY <2>1, PlacesFinite
<1>4. up \in Bijection(B, C)
  <2>1. up \in [B -> C]
    OBVIOUS
  <2>2. ASSUME NEW i \in B, NEW j \in B, up[i] = up[j] PROVE i = j
    BY <2>2
  <2>3. ASSUME NEW c \in C PROVE \E i \in B : up[i] = c
    <3>1. c - 1 \in 1..n - 1 /\ c - 1 + 1 \in A
      OBVIOUS
    <3>2. c - 1 \in B
      BY <3>1
    <3> QED BY <3>2
  <2> QED BY <2>1, <2>2, <2>3 DEF Bijection, Injection, Surjection, IsInjective
<1>5. Cardinality(C) = Cardinality(B)
  BY <1>3, <1>4, FS_Bijection DEF ExistsBijection
<1> QED BY <1>2, <1>5

\* The frames in a queue are counted by a number.
LEMMA FramesCounted ==
  ASSUME NEW s \in Seq(Message)
  PROVE  FramesOut(s) \in Nat /\ FramesIn(s) \in SUBSET (1..Len(s))
<1>1. FramesIn(s) \in SUBSET (1..Len(s)) /\ Len(s) \in Nat
  BY DEF FramesIn
<1> QED BY <1>1, PlacesFinite DEF FramesOut

\* A message put on a queue.
LEMMA FramesAppended ==
  ASSUME NEW s \in Seq(Message), NEW m \in Message
  PROVE  FramesOut(Append(s, m)) = FramesOut(s) + (IF m.kind = "frame" THEN 1 ELSE 0)
<1>1. /\ Append(s, m) \in Seq(Message) /\ Len(Append(s, m)) = Len(s) + 1 /\ Len(s) \in Nat
      /\ \A i \in 1..Len(s) : Append(s, m)[i] = s[i]
      /\ Append(s, m)[Len(s) + 1] = m
  BY AppendProperties
<1>2. FramesIn(Append(s, m)) \in SUBSET (1..Len(s) + 1) /\ FramesIn(s) \in SUBSET (1..Len(s))
  BY <1>1, FramesCounted
<1>3. FramesIn(Append(s, m)) \cap (1..Len(s)) = FramesIn(s)
  BY <1>1 DEF FramesIn
<1>4. Len(s) + 1 \in FramesIn(Append(s, m)) <=> m.kind = "frame"
  BY <1>1 DEF FramesIn
<1> QED BY <1>1, <1>2, <1>3, <1>4, PlacesAppended DEF FramesOut

\* A message taken off it.
LEMMA FramesTaken ==
  ASSUME NEW s \in Seq(Message), s # <<>>
  PROVE  /\ Head(s) \in Message /\ Tail(s) \in Seq(Message)
         /\ FramesOut(Tail(s)) = FramesOut(s) - (IF Head(s).kind = "frame" THEN 1 ELSE 0)
<1>1. /\ Head(s) \in Message /\ Tail(s) \in Seq(Message) /\ Len(Tail(s)) = Len(s) - 1
      /\ Len(s) \in Nat /\ Len(s) > 0 /\ Head(s) = s[1]
      /\ \A i \in 1..Len(s) - 1 : Tail(s)[i] = s[i + 1]
  BY HeadTailProperties
<1>2. FramesIn(Tail(s)) \in SUBSET (1..Len(s) - 1) /\ FramesIn(s) \in SUBSET (1..Len(s))
  BY <1>1, FramesCounted
<1>3. \A i \in 1..Len(s) - 1 : i \in FramesIn(Tail(s)) <=> i + 1 \in FramesIn(s)
  BY <1>1 DEF FramesIn
<1>4. 1 \in FramesIn(s) <=> Head(s).kind = "frame"
  BY <1>1 DEF FramesIn
<1> QED BY <1>1, <1>2, <1>3, <1>4, PlacesShifted DEF FramesOut

\* What the node says to the compositor.
Word == {"ack", "resync"}

\* The acknowledgements on their way to the compositor, likewise.
LEMMA AcksCounted ==
  ASSUME NEW s \in Seq(Word)
  PROVE  /\ Cardinality(AcksIn(s)) \in Nat /\ AcksIn(s) \in SUBSET (1..Len(s))
<1>1. AcksIn(s) \in SUBSET (1..Len(s)) /\ Len(s) \in Nat
  BY DEF AcksIn
<1> QED BY <1>1, PlacesFinite

\* One put on the way, or a resync.
LEMMA AcksAppended ==
  ASSUME NEW s \in Seq(Word), NEW w \in Word
  PROVE  /\ Append(s, w) \in Seq(Word)
         /\ Cardinality(AcksIn(Append(s, w))) = Cardinality(AcksIn(s)) + (IF w = "ack" THEN 1 ELSE 0)
<1>1. /\ Append(s, w) \in Seq(Word) /\ Len(Append(s, w)) = Len(s) + 1 /\ Len(s) \in Nat
      /\ \A i \in 1..Len(s) : Append(s, w)[i] = s[i]
      /\ Append(s, w)[Len(s) + 1] = w
  BY AppendProperties
<1>2. AcksIn(Append(s, w)) \in SUBSET (1..Len(s) + 1) /\ AcksIn(s) \in SUBSET (1..Len(s))
  BY <1>1, AcksCounted
<1>3. AcksIn(Append(s, w)) \cap (1..Len(s)) = AcksIn(s)
  BY <1>1 DEF AcksIn
<1>4. Len(s) + 1 \in AcksIn(Append(s, w)) <=> w = "ack"
  BY <1>1 DEF AcksIn
<1> QED BY <1>1, <1>2, <1>3, <1>4, PlacesAppended

\* One that the compositor reads.
LEMMA AcksTaken ==
  ASSUME NEW s \in Seq(Word), s # <<>>
  PROVE  /\ Head(s) \in Word /\ Tail(s) \in Seq(Word)
         /\ Cardinality(AcksIn(Tail(s))) = Cardinality(AcksIn(s)) - (IF Head(s) = "ack" THEN 1 ELSE 0)
<1>1. /\ Head(s) \in Word /\ Tail(s) \in Seq(Word) /\ Len(Tail(s)) = Len(s) - 1
      /\ Len(s) \in Nat /\ Len(s) > 0 /\ Head(s) = s[1]
      /\ \A i \in 1..Len(s) - 1 : Tail(s)[i] = s[i + 1]
  BY HeadTailProperties
<1>2. AcksIn(Tail(s)) \in SUBSET (1..Len(s) - 1) /\ AcksIn(s) \in SUBSET (1..Len(s))
  BY <1>1, AcksCounted
<1>3. \A i \in 1..Len(s) - 1 : i \in AcksIn(Tail(s)) <=> i + 1 \in AcksIn(s)
  BY <1>1 DEF AcksIn
<1>4. 1 \in AcksIn(s) <=> Head(s) = "ack"
  BY <1>1 DEF AcksIn
<1> QED BY <1>1, <1>2, <1>3, <1>4, PlacesShifted

-----------------------------------------------------------------------------
(* The invariant.                                                          *)

\* The kept copy has a size the application draws at, and an announced
\* surface has one.
CanvasOK ==
  /\ canvas # <<>> => Len(canvas) \in Widths
  /\ announced => canvas # <<>>

\* All that is counted in the books.
OnTheirWay == FramesOut(pipe) + FramesOut(wire) + Len(applying) + AcksBack

\* What is on its way is the one frame in flight and what was excused.
Books == OnTheirWay <= excused + (IF inFlight THEN 1 ELSE 0)

\* The invariant of the pacing.
Inv == TypeOK /\ CanvasOK /\ Books

\* The clamped rectangle of a frame, and the frame.
LEMMA FrameTyped ==
  ASSUME NEW p \in Picture, NEW d \in Interval
  PROVE  /\ Clamped(p, d) \in Interval
         /\ Frame(Clamped(p, d), p) \in Message /\ Frame(Clamped(p, d), p).kind = "frame"
<1>1. Len(p) \in Nat /\ d[1] \in Nat /\ d[2] \in Nat
  BY DEF Picture, Interval
<1>2. Upper(d[1], 1) \in Nat /\ Lower(d[2], Len(p)) \in Nat
  BY <1>1 DEF Upper, Lower
<1>3. Clamped(p, d) \in Interval
  BY <1>2 DEF Clamped, Interval
<1> QED BY <1>3 DEF Frame, Message

\* The three notes are messages, and no frames.
LEMMA NoteTyped ==
  /\ Note("window") \in Message /\ Note("window").kind = "window"
  /\ Note("hidden") \in Message /\ Note("hidden").kind = "hidden"
  /\ Note("opened") \in Message /\ Note("opened").kind = "opened"
BY DEF Note, Message, Interval, None, Picture

\* The cells a commit leaves alone are there to be left alone.
LEMMA DrawingTyped ==
  ASSUME TypeOK, NEW w \in Widths, NEW damage \in Damages(w), NEW n \in Nat
  PROVE  Drawing(w, damage, n) \in Picture /\ Len(Drawing(w, damage, n)) = w
<1>1. w \in Nat /\ w > 0
  BY FrameFlowAssumption
<1>2. drawn \in Seq(Nat) /\ Len(drawn) \in Nat
  BY DEF TypeOK, Picture
<1>3. ASSUME NEW i \in 1..w, damage # None, i \notin damage[1]..damage[2]
      PROVE  drawn[i] \in Nat
  <2>1. CASE damage = <<1, w>>
    BY <1>3, <2>1, <1>1
  <2>2. CASE damage # <<1, w>>
    <3>1. /\ damage \in (1..w) \X (1..w)
          /\ w > Len(drawn) => damage[1] <= Len(drawn) + 1 /\ damage[2] = w
      BY <1>3, <2>2 DEF Damages
    <3>2. damage[1] \in 1..w /\ damage[2] \in 1..w
      BY <3>1
    <3>3. i \in 1..Len(drawn)
      BY <1>1, <1>2, <1>3, <3>1, <3>2
    <3> QED BY <1>2, <3>3
  <2> QED BY <2>1, <2>2
<1>4. \A i \in 1..w :
        (IF damage # None /\ i \notin damage[1]..damage[2] THEN drawn[i] ELSE n) \in Nat
  BY <1>3
<1>5. Drawing(w, damage, n) \in [1..w -> Nat]
  BY <1>4 DEF Drawing
<1> QED BY <1>1, <1>5 DEF Picture

\* So are those of the kept copy.
LEMMA LandedTyped ==
  ASSUME NEW p \in Picture, NEW q \in Picture, NEW d, Len(p) = Len(q)
  PROVE  Landed(p, d, q) \in Picture /\ Len(Landed(p, d, q)) = Len(p)
<1>1. /\ Len(p) \in Nat /\ Len(q) \in Nat
      /\ \A i \in 1..Len(p) : p[i] \in Nat /\ q[i] \in Nat
  BY DEF Picture
<1>2. Landed(p, d, q) \in [1..Len(p) -> Nat]
  BY <1>1 DEF Landed
<1> QED BY <1>1, <1>2 DEF Picture

\* A blank canvas of n cells.
LEMMA BlankedTyped ==
  ASSUME NEW n \in Nat
  PROVE  Blanked(n) \in Picture /\ Len(Blanked(n)) = n
<1>1. Blanked(n) \in [1..n -> Nat]
  BY DEF Blanked, Blank
<1> QED BY <1>1 DEF Picture

\* The rectangle a commit is held to have damaged.
LEMMA DamageTyped ==
  ASSUME TypeOK, NEW w \in Widths, NEW damage \in Damages(w)
  PROVE  DamageBounds(w, damage) \in Interval /\ Widened(DamageBounds(w, damage)) \in Interval
<1>1. w \in Nat /\ w > 0
  BY FrameFlowAssumption
<1>2. damage = None \/ damage = <<1, w>> \/ damage \in (1..w) \X (1..w)
  BY DEF Damages
<1>3. DamageBounds(w, damage) \in Interval
  BY <1>1, <1>2 DEF DamageBounds, Interval, None
<1>4. \A a \in Nat, b \in Nat : Lower(a, b) \in Nat /\ Upper(a, b) \in Nat
  BY DEF Lower, Upper
<1>5. \A d \in Interval, e \in Interval : Union(d, e) \in Interval
  BY <1>4 DEF Union, Interval
<1>6. pending \in Interval
  BY DEF TypeOK
<1> QED BY <1>3, <1>5, <1>6 DEF Widened

\* The numbers in the books.
LEMMA BooksTyped ==
  ASSUME TypeOK
  PROVE  /\ FramesOut(pipe) \in Nat /\ FramesOut(wire) \in Nat /\ Len(applying) \in Nat
         /\ acks \in Nat /\ Cardinality(AcksIn(back)) \in Nat /\ excused \in Nat
         /\ pipe \in Seq(Message) /\ wire \in Seq(Message) /\ applying \in Seq(Message)
         /\ back \in Seq(Word)
BY FramesCounted, AcksCounted DEF TypeOK, Word

-----------------------------------------------------------------------------
(* What the shared pieces of the steps do.                                 *)

\* A frame let out: one more in the pipe, and one in flight.
LEMMA EmitKeeps ==
  ASSUME NEW p \in Picture, NEW d \in Interval, NEW said \in Seq(Message),
         p # <<>> => Len(p) \in Widths, p # <<>>, Emit(p, d, said)
  PROVE  /\ pipe' \in Seq(Message) /\ FramesOut(pipe') = FramesOut(said) + 1
         /\ sentWidth' \in Widths \cup {0} /\ awaitingAck' \in BOOLEAN
         /\ inFlight' = TRUE /\ pending' \in Interval
<1>1. Frame(Clamped(p, d), p) \in Message /\ Frame(Clamped(p, d), p).kind = "frame"
  BY FrameTyped
<1>2. pipe' = Append(said, Frame(Clamped(p, d), p))
  BY DEF Emit
<1>3. pipe' \in Seq(Message) /\ FramesOut(pipe') = FramesOut(said) + 1
  BY <1>1, <1>2, FramesAppended, AppendProperties
<1>4. sentWidth' \in Widths
  BY DEF Emit
<1>5. awaitingAck' = TRUE /\ inFlight' = TRUE /\ pending' \in Interval
  BY DEF Emit, None, Interval
<1> QED BY <1>3, <1>4, <1>5

\* The announcement adds no frame.
LEMMA AnnouncedKeeps ==
  ASSUME TypeOK
  PROVE  Announced \in Seq(Message) /\ FramesOut(Announced) = FramesOut(pipe)
<1>1. pipe \in Seq(Message) /\ FramesOut(pipe) \in Nat
  BY BooksTyped
<1>2. /\ Append(pipe, Note("window")) \in Seq(Message)
      /\ FramesOut(Append(pipe, Note("window"))) = FramesOut(pipe)
  BY <1>1, NoteTyped, FramesAppended, AppendProperties
<1> QED BY <1>1, <1>2 DEF Announced

\* An acknowledgement, or a frame given up on, lets out at most the one frame
\* that was held behind it.
LEMMA AcknowledgedKeeps ==
  ASSUME TypeOK, CanvasOK, Acknowledged
  PROVE  /\ pipe' \in Seq(Message) /\ sentWidth' \in Widths \cup {0}
         /\ awaitingAck' \in BOOLEAN /\ inFlight' \in BOOLEAN /\ pending' \in Interval
         /\ waiting' \in BOOLEAN
         /\ FramesOut(pipe') = FramesOut(pipe) + (IF inFlight' THEN 1 ELSE 0)
         /\ UNCHANGED <<canvas, announced>>
<1>1. /\ pipe \in Seq(Message) /\ FramesOut(pipe) \in Nat /\ canvas \in Picture
      /\ pending \in Interval /\ sentWidth \in Widths \cup {0}
  BY BooksTyped DEF TypeOK
<1>2. waiting' = FALSE /\ UNCHANGED <<canvas, announced>>
  BY DEF Acknowledged
<1>3. CASE pending # None /\ Sendable(canvas, pending)
  <2>1. Emit(canvas, pending, pipe) /\ canvas # <<>>
    BY <1>3 DEF Acknowledged, Sendable
  <2>2. canvas # <<>> => Len(canvas) \in Widths
    BY DEF CanvasOK
  <2> QED BY <1>1, <1>2, <2>1, <2>2, EmitKeeps
<1>4. CASE ~(pending # None /\ Sendable(canvas, pending))
  <2>1. inFlight' = FALSE /\ awaitingAck' = FALSE /\ UNCHANGED <<pipe, sentWidth, pending>>
    BY <1>4 DEF Acknowledged
  <2>2. pipe' \in Seq(Message) /\ FramesOut(pipe') = FramesOut(pipe)
    BY <1>1, <2>1
  <2>3. FramesOut(pipe') = FramesOut(pipe) + (IF inFlight' THEN 1 ELSE 0)
    BY <1>1, <2>1, <2>2
  <2>4. sentWidth' \in Widths \cup {0} /\ pending' \in Interval
    BY <1>1, <2>1
  <2>5. awaitingAck' \in BOOLEAN /\ inFlight' \in BOOLEAN /\ waiting' \in BOOLEAN
    BY <1>2, <2>1
  <2> QED BY <1>2, <2>2, <2>3, <2>4, <2>5
<1> QED BY <1>3, <1>4

\* A resync lets out one frame.
LEMMA ResyncKeeps ==
  ASSUME TypeOK, CanvasOK, Resync
  PROVE  /\ pipe' \in Seq(Message) /\ sentWidth' \in Widths \cup {0}
         /\ awaitingAck' \in BOOLEAN /\ inFlight' \in BOOLEAN /\ pending' \in Interval
         /\ FramesOut(pipe') \in Nat /\ FramesOut(pipe') <= FramesOut(pipe) + 1
         /\ FramesOut(pipe') = FramesOut(pipe) + 1 => inFlight' = TRUE
         /\ inFlight => inFlight' = TRUE
         /\ UNCHANGED <<canvas, announced, waiting>>
<1>1. /\ pipe \in Seq(Message) /\ FramesOut(pipe) \in Nat /\ canvas \in Picture
      /\ pending \in Interval /\ sentWidth \in Widths \cup {0}
      /\ awaitingAck \in BOOLEAN /\ inFlight \in BOOLEAN
  BY BooksTyped DEF TypeOK
<1>2. UNCHANGED <<canvas, announced, waiting>>
  BY DEF Resync
<1>3. CASE announced
  <2>1. /\ Append(pipe, Note("window")) \in Seq(Message)
        /\ FramesOut(Append(pipe, Note("window"))) = FramesOut(pipe)
    BY <1>1, NoteTyped, FramesAppended, AppendProperties
  <2>2. Emit(canvas, Whole(canvas), Append(pipe, Note("window")))
    BY <1>3 DEF Resync
  <2>3. Whole(canvas) \in Interval
    BY <1>1 DEF Whole, Interval, Picture
  <2>4. canvas # <<>> /\ (canvas # <<>> => Len(canvas) \in Widths)
    BY <1>3 DEF CanvasOK
  <2>5. /\ pipe' \in Seq(Message)
        /\ FramesOut(pipe') = FramesOut(Append(pipe, Note("window"))) + 1
        /\ sentWidth' \in Widths \cup {0} /\ awaitingAck' \in BOOLEAN
        /\ inFlight' = TRUE /\ pending' \in Interval
    BY <1>1, <2>1, <2>2, <2>3, <2>4, EmitKeeps
  <2> QED BY <1>1, <1>2, <2>1, <2>5
<1>4. CASE ~announced
  BY <1>1, <1>2, <1>4 DEF Resync
<1> QED BY <1>3, <1>4

-----------------------------------------------------------------------------
(* The steps.                                                              *)

\* Nothing is on its way at first.
LEMMA InitInv == ASSUME Init PROVE Inv
<1>1. /\ FramesOut(<<>>) = 0 /\ Cardinality(AcksIn(<<>>)) = 0
  <2>1. DOMAIN <<>> = {}
    OBVIOUS
  <2>2. FramesIn(<<>>) = {} /\ AcksIn(<<>>) = {}
    BY <2>1 DEF FramesIn, AcksIn
  <2> QED BY <2>2, FS_EmptySet DEF FramesOut
<1>2. TypeOK
  <2>1. <<>> \in Picture /\ None \in Interval
    BY DEF Picture, Interval, None
  <2>2. /\ <<>> \in Seq(Message) /\ <<>> \in Seq({"ack", "resync"})
        /\ 0 \in 0..MaxCommits /\ 0 \in 0..MaxDrops /\ 0 \in Widths \cup {0} /\ 0 \in Nat
    BY FrameFlowAssumption
  <2>3. /\ drawn \in Picture /\ canvas \in Picture /\ shown \in Picture
        /\ commits \in 0..MaxCommits /\ sentWidth \in Widths \cup {0}
        /\ pending \in Interval /\ drops \in 0..MaxDrops /\ excused \in Nat /\ acks \in Nat
    BY <2>1, <2>2 DEF Init
  <2>4. /\ waiting \in BOOLEAN /\ awaitingAck \in BOOLEAN /\ inFlight \in BOOLEAN
        /\ announced \in BOOLEAN /\ known \in BOOLEAN /\ redrawn \in BOOLEAN
        /\ link \in {"down", "opening", "up"}
    BY DEF Init
  <2>5. /\ pipe \in Seq(Message) /\ wire \in Seq(Message) /\ applying \in Seq(Message)
        /\ back \in Seq({"ack", "resync"})
    BY <2>2 DEF Init
  <2> QED BY <2>3, <2>4, <2>5 DEF TypeOK
<1>3. CanvasOK
  BY DEF Init, CanvasOK
<1>4. Books
  BY <1>1 DEF Init, Books, OnTheirWay, AcksBack
<1> QED BY <1>2, <1>3, <1>4 DEF Inv

\* A commit lets a frame out only when none is in flight.
LEMMA CommitInv ==
  ASSUME Inv, NEW w \in Widths, NEW damage \in Damages(w), Commit(w, damage)
  PROVE  Inv'
<1> DEFINE p == Drawing(w, damage, commits + 1)
           d == DamageBounds(w, damage)
           after == CanvasUpdate(w, d, p)
<1> USE DEF Inv
<1>1. commits \in Nat /\ w \in Nat /\ w > 0
  BY FrameFlowAssumption DEF TypeOK
<1>2. p \in Picture /\ Len(p) = w
  BY <1>1, DrawingTyped
<1>3. d \in Interval /\ Widened(d) \in Interval
  BY DamageTyped
<1>4. after \in Picture /\ Len(after) = w
  <2> DEFINE under == IF Len(canvas) = w THEN canvas ELSE Blanked(w)
  <2>1. under \in Picture /\ Len(under) = w
    BY <1>1, BlankedTyped DEF TypeOK
  <2>2. after = Landed(under, d, p)
    BY DEF CanvasUpdate
  <2> HIDE DEF under, p, d
  <2> QED BY <1>2, <2>1, <2>2, LandedTyped
<1>5. after # <<>>
  BY <1>1, <1>4
<1>6. Announced \in Seq(Message) /\ FramesOut(Announced) = FramesOut(pipe)
  BY AnnouncedKeeps
<1>7. /\ commits < MaxCommits /\ commits' = commits + 1 /\ drawn' = p
      /\ canvas' = after /\ announced' = TRUE /\ waiting' = awaitingAck' /\ redrawn' \in BOOLEAN
      /\ UNCHANGED <<pageVars, back, wire, acks, link, drops, excused>>
      /\ IF Held
         THEN /\ pending' = Widened(d)
              /\ pipe' = Announced
              /\ UNCHANGED <<sentWidth, awaitingAck, inFlight>>
         ELSE Emit(after, d, Announced)
  BY DEF Commit, TypeOK
<1> HIDE DEF p, d, after
<1>8. /\ pipe' \in Seq(Message) /\ sentWidth' \in Widths \cup {0}
      /\ awaitingAck' \in BOOLEAN /\ inFlight' = TRUE /\ pending' \in Interval
      /\ FramesOut(pipe') = FramesOut(pipe) + (IF inFlight THEN 0 ELSE 1)
  <2>0. FramesOut(pipe) \in Nat
    BY BooksTyped
  <2>1. CASE inFlight
    <3>1. /\ pending' = Widened(d) /\ pipe' = Announced
          /\ UNCHANGED <<sentWidth, awaitingAck, inFlight>>
      BY <1>7, <2>1 DEF Held
    <3>2. sentWidth \in Widths \cup {0} /\ awaitingAck \in BOOLEAN
      BY DEF TypeOK
    <3> QED BY <1>3, <1>6, <2>0, <2>1, <3>1, <3>2
  <2>2. CASE ~inFlight
    <3>1. Emit(after, d, Announced)
      BY <1>7, <2>2 DEF Held
    <3> QED BY <1>3, <1>4, <1>5, <1>6, <2>2, <3>1, EmitKeeps
  <2> QED BY <2>1, <2>2
<1>9. TypeOK'
  <2>1. commits' \in 0..MaxCommits
    BY <1>1, <1>7, FrameFlowAssumption
  <2> QED BY <1>2, <1>4, <1>7, <1>8, <2>1 DEF TypeOK, pageVars
<1>10. CanvasOK'
  BY <1>4, <1>5, <1>7 DEF CanvasOK
<1>11. Books'
  <2>1. wire' = wire /\ applying' = applying /\ back' = back /\ acks' = acks /\ excused' = excused
    BY <1>7 DEF pageVars
  <2>2. /\ FramesOut(pipe) \in Nat /\ FramesOut(wire) \in Nat /\ Len(applying) \in Nat
        /\ AcksBack \in Nat /\ excused \in Nat
    BY BooksTyped DEF AcksBack
  <2>3. /\ FramesOut(wire)' = FramesOut(wire) /\ Len(applying)' = Len(applying)
        /\ AcksBack' = AcksBack /\ FramesOut(pipe)' = FramesOut(pipe')
    BY <2>1 DEF AcksBack
  <2>4. FramesOut(pipe) + FramesOut(wire) + Len(applying) + AcksBack
          <= excused + (IF inFlight THEN 1 ELSE 0)
    BY DEF Books, OnTheirWay
  <2> QED BY <1>8, <2>1, <2>2, <2>3, <2>4 DEF Books, OnTheirWay
<1> QED BY <1>9, <1>10, <1>11

\* What the other steps leave alone keeps its sum.
LEMMA BooksSummed ==
  ASSUME Inv
  PROVE  /\ FramesOut(pipe) \in Nat /\ FramesOut(wire) \in Nat /\ Len(applying) \in Nat
         /\ acks \in Nat /\ Cardinality(AcksIn(back)) \in Nat /\ excused \in Nat
         /\ FramesOut(pipe) + FramesOut(wire) + Len(applying) + acks + Cardinality(AcksIn(back))
              <= excused + (IF inFlight THEN 1 ELSE 0)
BY BooksTyped DEF Inv, Books, OnTheirWay, AcksBack

\* Sums of the parts, with nothing to be known about what they count.
LEMMA SumsKept ==
  ASSUME NEW a \in Nat, NEW b \in Nat, NEW c \in Nat, NEW k \in Nat, NEW n \in Nat, NEW e \in Nat,
         NEW before \in {0, 1}, NEW after \in {0, 1}, a + b + c + k + n <= e + before
  PROVE  /\ (a + after) + b + c + k + (n - 1) <= e + after
         /\ \A a2 \in Nat : a2 <= a + 1 /\ (a2 = a + 1 => after = 1) /\ before <= after
                           => a2 + b + c + k + n <= (e + 1) + after
         /\ \A a2 \in Nat, b2 \in Nat : a2 + b2 <= a + b => a2 + b2 + c + k + n <= e + before
OBVIOUS

\* The books after a step.
LEMMA BooksLater ==
  ASSUME FramesOut(pipe') \in Nat, FramesOut(wire') \in Nat, Len(applying') \in Nat,
         acks' \in Nat, Cardinality(AcksIn(back')) \in Nat, excused' \in Nat,
         FramesOut(pipe') + FramesOut(wire') + Len(applying') + acks' + Cardinality(AcksIn(back'))
           <= excused' + (IF inFlight' THEN 1 ELSE 0)
  PROVE  Books'
BY DEF Books, OnTheirWay, AcksBack

\* Hiding lets none out.
LEMMA HideInv == ASSUME Inv, Hide PROVE Inv'
<1> USE DEF Inv
<1>1. /\ pipe' \in Seq(Message) /\ FramesOut(pipe') = FramesOut(pipe)
  <2>1. pipe' = Append(pipe, Note("hidden")) /\ pipe \in Seq(Message) /\ FramesOut(pipe) \in Nat
    BY BooksTyped DEF Hide
  <2> QED BY <2>1, NoteTyped, FramesAppended, AppendProperties
<1>2. TypeOK'
  <2>1. /\ drawn' \in Picture /\ canvas' \in Picture /\ pending' \in Interval
        /\ sentWidth' \in Widths \cup {0}
    BY DEF Hide, Picture, Interval, None
  <2>2. waiting' \in BOOLEAN
    BY DEF Hide, TypeOK
  <2>3. announced' \in BOOLEAN
    BY DEF Hide
  <2> QED BY <1>1, <2>1, <2>2, <2>3 DEF Hide, TypeOK, pageVars
<1>3. CanvasOK'
  BY DEF Hide, CanvasOK
<1>4. Books'
  BY <1>1, BooksSummed DEF Hide, Books, OnTheirWay, AcksBack, pageVars
<1> QED BY <1>2, <1>3, <1>4

\* An acknowledgement is spent on the frame it lets out; a resync excuses its
\* own.
LEMMA CompositorReadsInv == ASSUME Inv, CompositorReads PROVE Inv'
<1> USE DEF Inv
<1> DEFINE before == IF inFlight THEN 1 ELSE 0
           after == IF inFlight' THEN 1 ELSE 0
<1>0. /\ FramesOut(pipe) \in Nat /\ FramesOut(wire) \in Nat /\ Len(applying) \in Nat
      /\ acks \in Nat /\ Cardinality(AcksIn(back)) \in Nat /\ excused \in Nat
      /\ FramesOut(pipe) + FramesOut(wire) + Len(applying) + acks + Cardinality(AcksIn(back))
           <= excused + before
  BY BooksSummed
<1>1. /\ back' \in Seq(Word) /\ Head(back) \in Word
      /\ Cardinality(AcksIn(back')) =
           Cardinality(AcksIn(back)) - (IF Head(back) = "ack" THEN 1 ELSE 0)
  BY BooksTyped, AcksTaken DEF CompositorReads
<1>2. UNCHANGED <<drawn, commits, redrawn, pageVars, wire, acks, link, drops>>
  BY DEF CompositorReads
<1>3. CASE Head(back) = "ack"
  <2>1. Acknowledged /\ excused' = excused
    BY <1>3 DEF CompositorReads
  <2>2. /\ pipe' \in Seq(Message) /\ sentWidth' \in Widths \cup {0}
        /\ awaitingAck' \in BOOLEAN /\ inFlight' \in BOOLEAN /\ pending' \in Interval
        /\ waiting' \in BOOLEAN
        /\ FramesOut(pipe') = FramesOut(pipe) + (IF inFlight' THEN 1 ELSE 0)
        /\ UNCHANGED <<canvas, announced>>
    BY <2>1, AcknowledgedKeeps
  <2>3. TypeOK'
    BY <1>1, <1>2, <2>1, <2>2 DEF TypeOK, pageVars, Word
  <2>4. CanvasOK'
    BY <2>2 DEF CanvasOK
  <2>5. Cardinality(AcksIn(back')) = Cardinality(AcksIn(back)) - 1
    BY <1>1, <1>3
  <2>6. wire' = wire /\ applying' = applying /\ acks' = acks
    BY <1>2 DEF pageVars
  <2>7. (FramesOut(pipe) + after) + FramesOut(wire) + Len(applying) + acks
          + (Cardinality(AcksIn(back)) - 1) <= excused + after
    <3>1. before \in {0, 1} /\ after \in {0, 1}
      OBVIOUS
    <3> HIDE DEF before, after
    <3> QED BY <1>0, <3>1, SumsKept
  <2>8. Books'
    <3>1. Cardinality(AcksIn(back')) \in Nat
      BY <1>1, AcksCounted
    <3>2. FramesOut(pipe') = FramesOut(pipe) + after /\ FramesOut(pipe') \in Nat
      BY <2>2, <1>0
    <3>3. FramesOut(wire') = FramesOut(wire) /\ Len(applying') = Len(applying) /\ acks' = acks
      BY <2>6
    <3>4. FramesOut(pipe') + FramesOut(wire') + Len(applying') + acks' + Cardinality(AcksIn(back'))
            <= excused' + after
      BY <2>1, <2>5, <2>7, <3>2, <3>3
    <3> QED BY <1>0, <2>1, <3>1, <3>2, <3>3, <3>4, BooksLater
  <2> QED BY <2>3, <2>4, <2>8
<1>4. CASE Head(back) # "ack"
  <2>1. Resync /\ excused' = excused + 1
    BY <1>4 DEF CompositorReads
  <2>2. /\ pipe' \in Seq(Message) /\ sentWidth' \in Widths \cup {0}
        /\ awaitingAck' \in BOOLEAN /\ inFlight' \in BOOLEAN /\ pending' \in Interval
        /\ FramesOut(pipe') \in Nat /\ FramesOut(pipe') <= FramesOut(pipe) + 1
        /\ FramesOut(pipe') = FramesOut(pipe) + 1 => inFlight' = TRUE
        /\ inFlight => inFlight' = TRUE
        /\ UNCHANGED <<canvas, announced, waiting>>
    BY <2>1, ResyncKeeps
  <2>3. TypeOK'
    BY <1>1, <1>2, <2>1, <2>2 DEF TypeOK, pageVars, Word
  <2>4. CanvasOK'
    BY <2>2 DEF CanvasOK
  <2>5. Cardinality(AcksIn(back')) = Cardinality(AcksIn(back))
    BY <1>1, <1>4, BooksSummed
  <2>6. wire' = wire /\ applying' = applying /\ acks' = acks
    BY <1>2 DEF pageVars
  <2>7. FramesOut(pipe') + FramesOut(wire) + Len(applying) + acks + Cardinality(AcksIn(back))
          <= (excused + 1) + after
    <3>1. before \in {0, 1} /\ after \in {0, 1}
      OBVIOUS
    <3>2. FramesOut(pipe') = FramesOut(pipe) + 1 => after = 1
      BY <2>2
    <3>3. before <= after
      BY <2>2
    <3> HIDE DEF before, after
    <3> QED BY <1>0, <2>2, <3>1, <3>2, <3>3, SumsKept
  <2>8. Books'
    <3>1. Cardinality(AcksIn(back')) \in Nat
      BY <1>1, AcksCounted
    <3>3. FramesOut(wire') = FramesOut(wire) /\ Len(applying') = Len(applying) /\ acks' = acks
      BY <2>6
    <3>4. FramesOut(pipe') + FramesOut(wire') + Len(applying') + acks' + Cardinality(AcksIn(back'))
            <= excused' + after
      BY <2>1, <2>5, <2>7, <3>3
    <3> QED BY <1>0, <2>1, <2>2, <3>1, <3>3, <3>4, BooksLater
  <2> QED BY <2>3, <2>4, <2>8
<1> QED BY <1>3, <1>4

\* The application is released; the books do not change.
LEMMA ReleasesStaleInv == ASSUME Inv, ReleasesStale PROVE Inv'
<1>1. TypeOK'
  BY DEF Inv, TypeOK, ReleasesStale, pageVars, netVars
<1>2. CanvasOK'
  BY DEF Inv, CanvasOK, ReleasesStale
<1>3. Books'
  BY DEF Inv, Books, OnTheirWay, AcksBack, ReleasesStale, pageVars, netVars
<1> QED BY <1>1, <1>2, <1>3 DEF Inv

\* A frame given up on excuses the one let out after it.
LEMMA GivesUpInv == ASSUME Inv, GivesUp PROVE Inv'
<1> USE DEF Inv
<1>1. /\ pipe' \in Seq(Message) /\ sentWidth' \in Widths \cup {0}
      /\ awaitingAck' \in BOOLEAN /\ inFlight' \in BOOLEAN /\ pending' \in Interval
      /\ waiting' \in BOOLEAN
      /\ FramesOut(pipe') = FramesOut(pipe) + (IF inFlight' THEN 1 ELSE 0)
      /\ UNCHANGED <<canvas, announced>>
  BY AcknowledgedKeeps DEF GivesUp
<1>2. /\ UNCHANGED <<drawn, commits, redrawn, pageVars, back, wire, acks, link, drops>>
      /\ inFlight /\ excused' = excused + 1
  BY DEF GivesUp
<1>3. TypeOK'
  BY <1>1, <1>2 DEF TypeOK, pageVars
<1>4. CanvasOK'
  BY <1>1 DEF CanvasOK
<1>5. wire' = wire /\ applying' = applying /\ acks' = acks /\ back' = back
  BY <1>2 DEF pageVars
<1>6. FramesOut(pipe') + FramesOut(wire) + Len(applying) + acks + Cardinality(AcksIn(back))
        <= excused + 1 + (IF inFlight' THEN 1 ELSE 0)
  BY <1>1, <1>2, BooksSummed
<1>7. Books'
  BY <1>1, <1>2, <1>5, <1>6, BooksSummed DEF Books, OnTheirWay, AcksBack
<1> QED BY <1>3, <1>4, <1>7

\* What is relayed is counted on the wire instead, or lost.
LEMMA NodeRelaysInv == ASSUME Inv, NodeRelays PROVE Inv'
<1> USE DEF Inv
<1>1. /\ pipe \in Seq(Message) /\ wire \in Seq(Message)
      /\ FramesOut(pipe) \in Nat /\ FramesOut(wire) \in Nat
  BY BooksTyped
<1>2. /\ Head(pipe) \in Message /\ pipe' \in Seq(Message)
      /\ FramesOut(pipe') = FramesOut(pipe) - (IF Head(pipe).kind = "frame" THEN 1 ELSE 0)
  BY <1>1, FramesTaken DEF NodeRelays
<1>3. /\ wire' \in Seq(Message) /\ FramesOut(wire') \in Nat
      /\ FramesOut(wire') <= FramesOut(wire) + (IF Head(pipe).kind = "frame" THEN 1 ELSE 0)
  <2>1. CASE link = "down"
    BY <1>1, <2>1 DEF NodeRelays
  <2>2. CASE link # "down"
    <3>1. wire' = Append(wire, Head(pipe))
      BY <2>2 DEF NodeRelays
    <3>2. /\ wire' \in Seq(Message)
          /\ FramesOut(wire') = FramesOut(wire) + (IF Head(pipe).kind = "frame" THEN 1 ELSE 0)
      BY <1>1, <1>2, <3>1, FramesAppended, AppendProperties
    <3> QED BY <1>1, <3>2
  <2> QED BY <2>1, <2>2
<1>4. FramesOut(pipe') \in Nat
  BY <1>2, FramesCounted
<1>5. UNCHANGED <<appVars, compVars, pageVars, back, acks, link, drops, excused>>
  BY DEF NodeRelays
<1>6. TypeOK'
  BY <1>2, <1>3, <1>5 DEF TypeOK, appVars, compVars, pageVars
<1>7. CanvasOK'
  BY <1>5 DEF CanvasOK, compVars
<1>8. FramesOut(pipe') + FramesOut(wire') <= FramesOut(pipe) + FramesOut(wire)
  BY <1>1, <1>2, <1>3, <1>4
<1>9. Books'
  <2> DEFINE before == IF inFlight THEN 1 ELSE 0
  <2>1. /\ FramesOut(pipe) \in Nat /\ FramesOut(wire) \in Nat /\ Len(applying) \in Nat
        /\ acks \in Nat /\ Cardinality(AcksIn(back)) \in Nat /\ excused \in Nat
        /\ FramesOut(pipe) + FramesOut(wire) + Len(applying) + acks + Cardinality(AcksIn(back))
             <= excused + before
    BY BooksSummed
  <2>2. before \in {0, 1}
    OBVIOUS
  <2>3. FramesOut(pipe') + FramesOut(wire') + Len(applying) + acks + Cardinality(AcksIn(back))
          <= excused + before
    <3> HIDE DEF before
    <3> QED BY <1>3, <1>4, <1>8, <2>1, <2>2, SumsKept
  <2>4. /\ applying' = applying /\ acks' = acks /\ back' = back
        /\ excused' = excused /\ inFlight' = inFlight
    BY <1>5 DEF pageVars, compVars
  <2> QED BY <1>3, <1>4, <2>1, <2>3, <2>4, BooksLater
<1> QED BY <1>6, <1>7, <1>9

\* Likewise an acknowledgement.
LEMMA NodeRelaysAckInv == ASSUME Inv, NodeRelaysAck PROVE Inv'
<1> USE DEF Inv
<1>1. /\ back' \in Seq(Word)
      /\ Cardinality(AcksIn(back')) = Cardinality(AcksIn(back)) + 1
  <2>1. "ack" \in Word
    BY DEF Word
  <2> QED BY <2>1, BooksTyped, AcksAppended DEF NodeRelaysAck
<1>2. acks' \in Nat /\ acks' = acks - 1
  BY DEF TypeOK, NodeRelaysAck
<1>3. UNCHANGED <<appVars, compVars, pageVars, pipe, wire, link, drops, excused>>
  BY DEF NodeRelaysAck
<1>4. TypeOK'
  BY <1>1, <1>2, <1>3 DEF TypeOK, appVars, compVars, pageVars, Word
<1>5. CanvasOK'
  BY <1>3 DEF CanvasOK, compVars
<1>6. Books'
  BY <1>1, <1>2, <1>3, BooksSummed DEF Books, OnTheirWay, AcksBack, pageVars, compVars
<1> QED BY <1>4, <1>5, <1>6

\* A new connection starts with no frame on it.
LEMMA AttachInv == ASSUME Inv, Attach PROVE Inv'
<1> USE DEF Inv
<1>1. /\ back' \in Seq(Word)
      /\ Cardinality(AcksIn(back')) = Cardinality(AcksIn(back))
  <2>1. "resync" \in Word /\ back' = Append(back, "resync")
    BY DEF Word, Attach
  <2>2. Cardinality(AcksIn(back')) =
          Cardinality(AcksIn(back)) + (IF "resync" = "ack" THEN 1 ELSE 0)
    BY <2>1, BooksTyped, AcksAppended
  <2> QED BY <2>1, <2>2, BooksTyped, AcksAppended
<1>2. wire' \in Seq(Message) /\ FramesOut(wire') = 0
  <2>1. wire' = <<Note("opened")>>
    BY DEF Attach
  <2>2. \A i \in DOMAIN wire' : wire'[i].kind = "opened"
    BY <2>1, NoteTyped
  <2>3. FramesIn(wire') = {}
    BY <2>2 DEF FramesIn
  <2> QED BY <2>1, <2>3, NoteTyped, FS_EmptySet DEF FramesOut
<1>3. UNCHANGED <<appVars, compVars, pageVars, pipe, acks, drops, excused>> /\ link' = "opening"
  BY DEF Attach
<1>4. TypeOK'
  BY <1>1, <1>2, <1>3 DEF TypeOK, appVars, compVars, pageVars, Word
<1>5. CanvasOK'
  BY <1>3 DEF CanvasOK, compVars
<1>6. /\ applying' = applying /\ acks' = acks /\ pipe' = pipe
      /\ excused' = excused /\ inFlight' = inFlight
  BY <1>3 DEF pageVars, compVars
<1>7. Books'
  BY <1>1, <1>2, <1>6, BooksSummed, BooksLater
<1> QED BY <1>4, <1>5, <1>7

\* A dropped one takes its frames and acknowledgements with it.
LEMMA DropInv == ASSUME Inv, Drop PROVE Inv'
<1> USE DEF Inv
<1>1. wire' \in Seq(Message) /\ FramesOut(wire') = 0
  <2>1. wire' = <<>> /\ DOMAIN wire' = {}
    BY DEF Drop
  <2>2. FramesIn(wire') = {}
    BY <2>1 DEF FramesIn
  <2> QED BY <2>1, <2>2, FS_EmptySet DEF FramesOut
<1>2. /\ UNCHANGED <<appVars, compVars, pageVars, pipe, back, excused>>
      /\ link' = "down" /\ acks' = 0
  BY DEF Drop
<1>3. drops' \in 0..MaxDrops
  BY FrameFlowAssumption DEF Drop, TypeOK
<1>4. TypeOK'
  BY <1>1, <1>2, <1>3 DEF TypeOK, appVars, compVars, pageVars
<1>5. CanvasOK'
  BY <1>2 DEF CanvasOK, compVars
<1>6. /\ applying' = applying /\ back' = back /\ pipe' = pipe
      /\ excused' = excused /\ inFlight' = inFlight
  BY <1>2 DEF pageVars, compVars
<1>7. Books'
  <2> DEFINE before == IF inFlight THEN 1 ELSE 0
  <2>1. /\ FramesOut(pipe) \in Nat /\ FramesOut(wire) \in Nat /\ Len(applying) \in Nat
        /\ acks \in Nat /\ Cardinality(AcksIn(back)) \in Nat /\ excused \in Nat
        /\ FramesOut(pipe) + FramesOut(wire) + Len(applying) + acks + Cardinality(AcksIn(back))
             <= excused + before
    BY BooksSummed
  <2>2. before \in {0, 1}
    OBVIOUS
  <2>3. FramesOut(pipe) + 0 + Len(applying) + 0 + Cardinality(AcksIn(back)) <= excused + before
    <3> HIDE DEF before
    <3> QED BY <2>1, <2>2
  <2> QED BY <1>1, <1>2, <1>6, <2>1, <2>3, BooksLater
<1> QED BY <1>4, <1>5, <1>7

\* A frame read goes on the chain.
LEMMA PageReadsInv == ASSUME Inv, PageReads PROVE Inv'
<1> USE DEF Inv
<1> DEFINE m == Head(wire)
<1>1. /\ wire \in Seq(Message) /\ applying \in Seq(Message) /\ FramesOut(wire) \in Nat
      /\ Len(applying) \in Nat
  BY BooksTyped
<1>2. /\ m \in Message /\ wire' \in Seq(Message)
      /\ FramesOut(wire') = FramesOut(wire) - (IF m.kind = "frame" THEN 1 ELSE 0)
  BY <1>1, FramesTaken DEF PageReads
<1>3. FramesOut(wire') \in Nat
  BY <1>2, FramesCounted
<1>4. /\ applying' = IF m.kind = "frame" THEN Append(applying, m) ELSE applying
      /\ link' = IF m.kind = "opened" THEN "up" ELSE link
      /\ known' = CASE m.kind = "window" -> TRUE
                    [] m.kind \in {"hidden", "opened"} -> FALSE
                    [] OTHER -> known
      /\ shown' = IF m.kind = "frame" \/ (m.kind = "window" /\ known) THEN shown ELSE <<>>
      /\ UNCHANGED <<appVars, compVars, pipe, back, acks, drops, excused>>
  BY DEF PageReads, Chained
<1> HIDE DEF m
<1>5. /\ applying' \in Seq(Message)
      /\ Len(applying') = Len(applying) + (IF m.kind = "frame" THEN 1 ELSE 0)
  BY <1>1, <1>2, <1>4, AppendProperties
<1>6. TypeOK'
  <2>1. known' \in BOOLEAN
    BY <1>4 DEF TypeOK
  <2>2. shown' \in Picture
    <3>1. <<>> \in Picture
      BY DEF Picture
    <3> QED BY <1>4, <3>1 DEF TypeOK
  <2>3. link' \in {"down", "opening", "up"}
    BY <1>4 DEF TypeOK
  <2> QED BY <1>2, <1>4, <1>5, <2>1, <2>2, <2>3 DEF TypeOK, appVars, compVars
<1>7. CanvasOK'
  BY <1>4 DEF CanvasOK, compVars
<1>8. pipe' = pipe /\ back' = back /\ acks' = acks /\ excused' = excused /\ inFlight' = inFlight
  BY <1>4 DEF compVars
<1>9. FramesOut(wire') + Len(applying') = FramesOut(wire) + Len(applying)
  BY <1>1, <1>2, <1>3, <1>5
<1>10. Books'
  <2> DEFINE before == IF inFlight THEN 1 ELSE 0
  <2>1. /\ FramesOut(pipe) \in Nat /\ FramesOut(wire) \in Nat /\ Len(applying) \in Nat
        /\ acks \in Nat /\ Cardinality(AcksIn(back)) \in Nat /\ excused \in Nat
        /\ FramesOut(pipe) + FramesOut(wire) + Len(applying) + acks + Cardinality(AcksIn(back))
             <= excused + before
    BY BooksSummed
  <2>2. before \in {0, 1}
    OBVIOUS
  <2>3. Len(applying') \in Nat
    BY <1>5
  <2>4. FramesOut(pipe) + FramesOut(wire') + Len(applying') + acks + Cardinality(AcksIn(back))
          <= excused + before
    <3> HIDE DEF before
    <3> QED BY <1>3, <1>9, <2>1, <2>2, <2>3
  <2> QED BY <1>3, <1>8, <2>1, <2>3, <2>4, BooksLater
<1> QED BY <1>6, <1>7, <1>10

\* A frame drawn becomes at most one acknowledgement.
LEMMA PageAppliesInv == ASSUME Inv, PageApplies PROVE Inv'
<1> USE DEF Inv
<1> DEFINE f == Head(applying)
           n == Len(f.cells)
           under == IF Len(shown) = n THEN shown ELSE Blanked(n)
<1>1. applying \in Seq(Message) /\ applying # <<>> /\ shown \in Picture
  BY BooksTyped DEF PageApplies, TypeOK
<1>2. /\ f \in Message /\ applying' \in Seq(Message) /\ Len(applying') = Len(applying) - 1
      /\ Len(applying') \in Nat
  <2>1. applying' = Tail(applying)
    BY DEF PageApplies
  <2> QED BY <1>1, <2>1, HeadTailProperties
<1>3. f.cells \in Picture /\ n \in Nat
  BY <1>2 DEF Message, Picture
<1>4. Landed(under, f.d, f.cells) \in Picture
  <2>1. under \in Picture /\ Len(under) = n
    BY <1>1, <1>3, BlankedTyped
  <2> HIDE DEF under, f
  <2> QED BY <1>3, <2>1, LandedTyped
<1>5. /\ shown' = IF known THEN Landed(under, f.d, f.cells) ELSE shown
      /\ acks' = IF link = "down" THEN acks ELSE acks + 1
      /\ UNCHANGED <<appVars, compVars, pipe, back, wire, link, known, drops, excused>>
  BY DEF PageApplies
<1> HIDE DEF f, n, under
<1>6. acks' \in Nat /\ acks' <= acks + 1
  BY <1>5 DEF TypeOK
<1>7. shown' \in Picture
  BY <1>1, <1>4, <1>5
<1>8. TypeOK'
  BY <1>2, <1>5, <1>6, <1>7 DEF TypeOK, appVars, compVars
<1>9. CanvasOK'
  BY <1>5 DEF CanvasOK, compVars
<1>10. pipe' = pipe /\ back' = back /\ wire' = wire /\ excused' = excused /\ inFlight' = inFlight
  BY <1>5 DEF compVars
<1>11. Books'
  <2> DEFINE before == IF inFlight THEN 1 ELSE 0
  <2>1. /\ FramesOut(pipe) \in Nat /\ FramesOut(wire) \in Nat /\ Len(applying) \in Nat
        /\ acks \in Nat /\ Cardinality(AcksIn(back)) \in Nat /\ excused \in Nat
        /\ FramesOut(pipe) + FramesOut(wire) + Len(applying) + acks + Cardinality(AcksIn(back))
             <= excused + before
    BY BooksSummed
  <2>2. before \in {0, 1}
    OBVIOUS
  <2>3. FramesOut(pipe) + FramesOut(wire) + Len(applying') + acks' + Cardinality(AcksIn(back))
          <= excused + before
    <3> HIDE DEF before
    <3> QED BY <1>2, <1>6, <2>1, <2>2
  <2> QED BY <1>2, <1>6, <1>10, <2>1, <2>3, BooksLater
<1> QED BY <1>8, <1>9, <1>11

-----------------------------------------------------------------------------
(* The theorems.                                                           *)

\* Every step keeps the books.
LEMMA StepInv == ASSUME Inv, [Next]_vars PROVE Inv'
<1>1. CASE Next
  BY <1>1, CommitInv, HideInv, CompositorReadsInv, ReleasesStaleInv, GivesUpInv, NodeRelaysInv,
     NodeRelaysAckInv, AttachInv, DropInv, PageReadsInv, PageAppliesInv DEF Next
<1>2. CASE UNCHANGED vars
  <2>1. TypeOK'
    BY <1>2 DEF Inv, TypeOK, vars, appVars, compVars, pageVars, netVars
  <2>2. CanvasOK'
    BY <1>2 DEF Inv, CanvasOK, vars, compVars
  <2>3. Books'
    BY <1>2 DEF Inv, Books, OnTheirWay, AcksBack, vars, compVars, pageVars, netVars
  <2> QED BY <2>1, <2>2, <2>3 DEF Inv
<1> QED BY <1>1, <1>2

\* So they hold throughout.
LEMMA Invariance == Spec => []Inv
BY InitInv, StepInv, PTL DEF Spec

\* Every variable keeps to its type: no rectangle, however clamped and merged,
\* reads a cell that is not there (wdcomp.c, emit_canvas_rect and canvas_update).
THEOREM TypesHold == Spec => []TypeOK
<1>1. Inv => TypeOK
  BY DEF Inv
<1> QED BY <1>1, Invariance, PTL

\* At most one frame of a surface is between the compositor and the page, and
\* one more for each resync and each frame given up on, whatever is lost,
\* resent and acknowledged twice on the way (wdcomp.c, frame_in_flight).
THEOREM OneFrameHolds == Spec => []OneFrameOut
<1>1. Inv => OneFrameOut
  <2> SUFFICES ASSUME Inv PROVE OneFrameOut
    OBVIOUS
  <2> QED BY BooksSummed DEF OneFrameOut, AcksBack
<1> QED BY <1>1, Invariance, PTL

-----------------------------------------------------------------------------
(* What the queues will make of the page. `q` holds what is on its way, in *)
(* order: frames the page has yet to draw, then what it has yet to read.   *)
(* `kn` and `sh` are what the page knows and shows, `c` the picture it     *)
(* should come to.                                                         *)

\* A message that takes the surface off the page.
Going(m) == m.kind \in {"hidden", "opened"}
\* The rectangle of frame m takes in cell i.
Covers(m, i) == i \in m.d[1]..m.d[2]

\* m does not spoil cell i of c; m draws it.
Fits(m, c, i) ==
  m.kind = "frame" => Len(m.cells) = Len(c) /\ (Covers(m, i) => m.cells[i] = c[i])
\* Frame m draws cell i as in c.
Brings(m, c, i) ==
  m.kind = "frame" /\ Len(m.cells) = Len(c) /\ Covers(m, i) /\ m.cells[i] = c[i]

\* From place j on the page has the surface and keeps it.
Opens(q, kn, j) ==
  /\ IF j = 0 THEN kn ELSE q[j].kind = "window"
  /\ \A x \in 1..Len(q) : x > j => ~Going(q[x])

\* Cell i is drawn as in c at some place from j on, and left so by all that follows.
Settles(q, sh, c, j, i) ==
  \E k \in j..Len(q) :
    /\ IF k = 0 THEN Len(sh) = Len(c) /\ sh[i] = c[i] ELSE Brings(q[k], c, i)
    /\ \A x \in 1..Len(q) : x > k => Fits(q[x], c, i)

\* The page comes to know the surface and to show the cells X of c.
Comes(q, kn, sh, c, X) ==
  \E j \in 0..Len(q) : Opens(q, kn, j) /\ \A i \in X : Settles(q, sh, c, j, i)

\* It comes to know it no more.
Goes(q, kn) ==
  \E j \in 0..Len(q) :
    /\ IF j = 0 THEN ~kn ELSE Going(q[j])
    /\ \A x \in 1..Len(q) : x > j => q[x].kind # "window"

\* r is q without the message m behind the first a.
Without(q, r, a, m) ==
  /\ a \in 0..Len(r) /\ Len(q) = Len(r) + 1 /\ q[a + 1] = m
  /\ \A x \in 1..a : q[x] = r[x]
  /\ \A x \in a + 1..Len(r) : q[x + 1] = r[x]

\* The first message taken off.
LEMMA WithoutHead ==
  ASSUME NEW q \in Seq(Message), q # <<>>
  PROVE  Tail(q) \in Seq(Message) /\ Without(q, Tail(q), 0, Head(q))
<1>1. /\ Tail(q) \in Seq(Message) /\ Len(Tail(q)) = Len(q) - 1 /\ Len(q) \in Nat /\ Len(q) > 0
      /\ Head(q) = q[1] /\ \A i \in 1..Len(q) - 1 : Tail(q)[i] = q[i + 1]
  BY HeadTailProperties
<1> QED BY <1>1 DEF Without

\* One taken out of the middle.
LEMMA WithoutMiddle ==
  ASSUME NEW s \in Seq(Message), NEW t \in Seq(Message), t # <<>>
  PROVE  Without(s \o t, s \o Tail(t), Len(s), Head(t))
<1> DEFINE q == s \o t
           r == s \o Tail(t)
           a == Len(s)
           b == Len(t)
<1>1. /\ Tail(t) \in Seq(Message) /\ Len(Tail(t)) = b - 1 /\ b \in Nat /\ b > 0 /\ a \in Nat
      /\ Head(t) = t[1] /\ \A i \in 1..b - 1 : Tail(t)[i] = t[i + 1]
  BY HeadTailProperties
<1>2. /\ Len(q) = a + b
      /\ \A i \in 1..a + b : q[i] = IF i <= a THEN s[i] ELSE t[i - a]
  BY ConcatProperties
<1>3. /\ Len(r) = a + (b - 1)
      /\ \A i \in 1..a + (b - 1) : r[i] = IF i <= a THEN s[i] ELSE Tail(t)[i - a]
  BY <1>1, ConcatProperties
<1> HIDE DEF q, r, a, b
<1>4. a \in 0..Len(r) /\ Len(q) = Len(r) + 1
  BY <1>1, <1>2, <1>3
<1>5. q[a + 1] = Head(t)
  BY <1>1, <1>2
<1>6. \A x \in 1..a : q[x] = r[x]
  BY <1>1, <1>2, <1>3
<1>7. ASSUME NEW x \in a + 1..Len(r) PROVE q[x + 1] = r[x]
  <2>1. x - a \in 1..b - 1 /\ (x + 1) - a = x - a + 1 /\ x \in 1..a + (b - 1) /\ ~(x <= a)
        /\ x + 1 \in 1..a + b /\ ~(x + 1 <= a)
    BY <1>1, <1>3
  <2>2. r[x] = t[x - a + 1]
    BY <1>1, <1>3, <2>1
  <2>3. q[x + 1] = t[(x + 1) - a]
    BY <1>2, <2>1
  <2> QED BY <2>1, <2>2, <2>3
<1> QED BY <1>4, <1>5, <1>6, <1>7 DEF Without, q, r, a

\* What is put in the pipe is put at the end of all there is to read.
LEMMA PutLast ==
  ASSUME NEW t \in Seq(Message), NEW u \in Seq(Message), NEW m \in Message
  PROVE  t \o Append(u, m) = Append(t \o u, m)
<1>1. t \o u \in Seq(Message) /\ <<m>> \in Seq(Message)
  BY ConcatProperties
<1>2. Append(u, m) = u \o <<m>> /\ Append(t \o u, m) = (t \o u) \o <<m>>
  BY <1>1, AppendIsConcat
<1>3. t \o (u \o <<m>>) = (t \o u) \o <<m>>
  BY <1>1, ConcatAssociative
<1> QED BY <1>2, <1>3

\* What the node relays, and what the page puts in its chain, keep their place.
LEMMA HandedOn ==
  ASSUME NEW s \in Seq(Message), NEW t \in Seq(Message), t # <<>>
  PROVE  Append(s, Head(t)) \o Tail(t) = s \o t
<1>1. /\ Tail(t) \in Seq(Message) /\ Head(t) \in Message /\ <<Head(t)>> \in Seq(Message)
      /\ t = <<Head(t)>> \o Tail(t)
  <2>1. /\ Tail(t) \in Seq(Message) /\ Head(t) \in Message /\ Head(t) = t[1]
        /\ Len(t) \in Nat /\ Len(t) > 0
    BY HeadTailProperties
  <2>2. 1 \in 1..Len(t) /\ Len(t) \in 1..Len(t) /\ 1 + 1 = 2
    BY <2>1
  <2>3. SubSeq(t, 1, Len(t)) = <<t[1]>> \o SubSeq(t, 2, Len(t))
    BY <2>2, SubSeqRecursiveFirst
  <2>4. SubSeq(t, 1, Len(t)) = t /\ Tail(t) = SubSeq(t, 2, Len(t))
    BY SubSeqFull, TailIsSubSeq
  <2> QED BY <2>1, <2>3, <2>4
<1>2. Append(s, Head(t)) = s \o <<Head(t)>>
  BY <1>1, AppendIsConcat
<1>3. (s \o <<Head(t)>>) \o Tail(t) = s \o (<<Head(t)>> \o Tail(t))
  BY <1>1, ConcatAssociative
<1> QED BY <1>1, <1>2, <1>3

\* The head of what is on its way is the head of what comes first.
LEMMA HeadFirst ==
  ASSUME NEW s \in Seq(Message), NEW t \in Seq(Message), s # <<>>
  PROVE  /\ s \o t \in Seq(Message) /\ s \o t # <<>>
         /\ Head(s \o t) = Head(s) /\ Tail(s \o t) = Tail(s) \o t
<1> DEFINE q == s \o t
           r == Tail(s) \o t
           a == Len(s)
           b == Len(t)
<1>1. /\ Tail(s) \in Seq(Message) /\ Len(Tail(s)) = a - 1 /\ a \in Nat /\ a > 0 /\ b \in Nat
      /\ Head(s) = s[1] /\ \A i \in 1..a - 1 : Tail(s)[i] = s[i + 1]
  BY HeadTailProperties
<1>2. /\ q \in Seq(Message) /\ Len(q) = a + b
      /\ \A i \in 1..a + b : q[i] = IF i <= a THEN s[i] ELSE t[i - a]
  BY ConcatProperties
<1>3. /\ r \in Seq(Message) /\ Len(r) = (a - 1) + b
      /\ \A i \in 1..(a - 1) + b : r[i] = IF i <= a - 1 THEN Tail(s)[i] ELSE t[i - (a - 1)]
  BY <1>1, ConcatProperties
<1> HIDE DEF q, r, a, b
<1>4. q # <<>>
  BY <1>1, <1>2
<1>5. /\ Tail(q) \in Seq(Message) /\ Len(Tail(q)) = Len(q) - 1 /\ Head(q) = q[1]
      /\ \A i \in 1..Len(q) - 1 : Tail(q)[i] = q[i + 1]
  BY <1>2, <1>4, HeadTailProperties
<1>6. Head(q) = Head(s)
  BY <1>1, <1>2, <1>5
<1>7. Len(Tail(q)) = Len(r)
  BY <1>1, <1>2, <1>3, <1>5
<1>8. ASSUME NEW i \in 1..Len(Tail(q)) PROVE Tail(q)[i] = r[i]
  <2>1. /\ i \in 1..Len(q) - 1 /\ i + 1 \in 1..a + b /\ i \in 1..(a - 1) + b
        /\ (i <= a - 1 <=> i + 1 <= a) /\ (i + 1) - a = i - (a - 1)
    BY <1>1, <1>2, <1>5
  <2>2. Tail(q)[i] = q[i + 1]
    BY <1>5, <2>1
  <2>3. CASE i <= a - 1
    <3>1. i \in 1..a - 1 /\ i + 1 <= a
      BY <1>1, <2>1, <2>3
    <3>2. q[i + 1] = s[i + 1] /\ r[i] = Tail(s)[i]
      BY <1>2, <1>3, <2>1, <2>3, <3>1
    <3> QED BY <1>1, <2>2, <3>1, <3>2
  <2>4. CASE ~(i <= a - 1)
    <3>1. ~(i + 1 <= a)
      BY <2>1, <2>4
    <3>2. q[i + 1] = t[(i + 1) - a]
      BY <1>2, <2>1, <3>1
    <3>3. r[i] = t[i - (a - 1)]
      BY <1>3, <2>1, <2>4
    <3> QED BY <2>1, <2>2, <3>2, <3>3
  <2> QED BY <2>3, <2>4
<1>9. Tail(q) = r
  BY <1>3, <1>5, <1>7, <1>8, SeqEqual
<1> QED BY <1>2, <1>4, <1>6, <1>9 DEF q, r

\* A cell asked for is a cell of the picture.
CellsOf(c) == 1..Len(c)

\* Fewer cells, or a picture that agrees on them.
LEMMA ComesTo ==
  ASSUME NEW q, NEW kn, NEW sh, NEW c, NEW X, NEW b, NEW Y \in SUBSET X,
         Comes(q, kn, sh, c, X), Y # {} => Len(b) = Len(c), \A i \in Y : b[i] = c[i]
  PROVE  Comes(q, kn, sh, b, Y)
<1>1. PICK j \in 0..Len(q) : Opens(q, kn, j) /\ \A i \in X : Settles(q, sh, c, j, i)
  BY DEF Comes
<1>2. ASSUME NEW i \in Y PROVE Settles(q, sh, b, j, i)
  <2>1. Len(b) = Len(c) /\ b[i] = c[i] /\ Settles(q, sh, c, j, i)
    BY <1>1, <1>2
  <2> QED BY <2>1 DEF Settles, Fits, Brings
<1> QED BY <1>1, <1>2 DEF Comes

\* A window announced opens the surface, whatever went before.
LEMMA ComesAnew ==
  ASSUME NEW q \in Seq(Message), NEW kn, NEW sh, NEW c
  PROVE  Comes(Append(q, Note("window")), kn, sh, c, {})
<1> DEFINE r == Append(q, Note("window"))
<1>1. Len(r) = Len(q) + 1 /\ r[Len(q) + 1] = Note("window") /\ Len(q) \in Nat
  BY NoteTyped, AppendProperties
<1> HIDE DEF r
<1>2. Opens(r, kn, Len(q) + 1)
  BY <1>1, NoteTyped DEF Opens
<1>3. Len(q) + 1 \in 0..Len(r)
  BY <1>1
<1> QED BY <1>2, <1>3 DEF Comes, r

\* A frame of the picture brings its cells and spoils none.
LEMMA ComesOn ==
  ASSUME NEW q \in Seq(Message), NEW kn, NEW sh, NEW c, NEW X, NEW m \in Message,
         m.kind = "frame", m.cells = c, Comes(q, kn, sh, c, X),
         NEW Y, \A i \in Y : i \in X \/ Covers(m, i)
  PROVE  Comes(Append(q, m), kn, sh, c, Y)
<1> DEFINE r == Append(q, m)
           n == Len(q)
<1>1. Len(r) = n + 1 /\ r[n + 1] = m /\ n \in Nat /\ \A x \in 1..n : r[x] = q[x]
  BY AppendProperties
<1>2. PICK j \in 0..n : Opens(q, kn, j) /\ \A i \in X : Settles(q, sh, c, j, i)
  BY DEF Comes
<1> HIDE DEF r
<1>3. j \in 0..Len(r) /\ n + 1 \in j..Len(r) /\ n + 1 # 0
  BY <1>1, <1>2
<1>4. Opens(r, kn, j)
  <2>1. IF j = 0 THEN kn ELSE r[j].kind = "window"
    BY <1>1, <1>2 DEF Opens
  <2>2. ASSUME NEW x \in 1..Len(r), x > j PROVE ~Going(r[x])
    BY <1>1, <1>2, <2>2 DEF Opens, Going
  <2> QED BY <2>1, <2>2 DEF Opens
<1>5. ASSUME NEW i \in Y PROVE Settles(r, sh, c, j, i)
  <2>1. CASE Covers(m, i)
    <3>1. Brings(r[n + 1], c, i)
      BY <1>1, <2>1 DEF Brings
    <3>2. \A x \in 1..Len(r) : ~(x > n + 1)
      BY <1>1
    <3> QED BY <1>3, <3>1, <3>2 DEF Settles
  <2>2. CASE i \in X
    <3>1. PICK k \in j..n :
            /\ IF k = 0 THEN Len(sh) = Len(c) /\ sh[i] = c[i] ELSE Brings(q[k], c, i)
            /\ \A x \in 1..n : x > k => Fits(q[x], c, i)
      BY <1>2, <2>2 DEF Settles
    <3>2. CASE Covers(m, i)
      BY <2>1, <3>2
    <3>3. CASE ~Covers(m, i)
      <4>1. Fits(r[n + 1], c, i)
        BY <1>1, <3>3 DEF Fits
      <4>2. ASSUME NEW x \in 1..Len(r), x > k PROVE Fits(r[x], c, i)
        BY <1>1, <3>1, <4>1, <4>2
      <4>3. IF k = 0 THEN Len(sh) = Len(c) /\ sh[i] = c[i] ELSE Brings(r[k], c, i)
        BY <1>1, <3>1
      <4>4. k \in j..Len(r)
        BY <1>1, <3>1
      <4> QED BY <4>2, <4>3, <4>4 DEF Settles
    <3> QED BY <3>2, <3>3
  <2> QED BY <1>5, <2>1, <2>2
<1> QED BY <1>3, <1>4, <1>5 DEF Comes, r

\* The cells on their way stay on their way when the first frame is drawn.
LEMMA ComesDrawn ==
  ASSUME NEW q, NEW r, NEW m, Without(q, r, 0, m), m.kind = "frame",
         NEW kn \in BOOLEAN, NEW sh, NEW after, NEW c, NEW X, Len(r) \in Nat,
         kn /\ Len(m.cells) = Len(c) => Len(after) = Len(c),
         kn => \A i \in X : Len(m.cells) = Len(c) => after[i] =
                 IF Covers(m, i) THEN m.cells[i] ELSE IF Len(sh) = Len(c) THEN sh[i] ELSE after[i],
         Comes(q, kn, sh, c, X)
  PROVE  Comes(r, kn, after, c, X)
<1>1. PICK j \in 0..Len(q) : Opens(q, kn, j) /\ \A i \in X : Settles(q, sh, c, j, i)
  BY DEF Comes
<1>2. /\ Len(q) = Len(r) + 1 /\ q[1] = m
      /\ \A x \in 1..Len(r) : q[x + 1] = r[x]
  BY DEF Without
<1>3. j # 1
  BY <1>1, <1>2 DEF Opens
<1> DEFINE l == IF j = 0 THEN 0 ELSE j - 1
<1>4. l \in 0..Len(r) /\ (l = 0 <=> j = 0) /\ (j # 0 => j = l + 1 /\ l \in 1..Len(r))
  BY <1>1, <1>2, <1>3
<1>5. Opens(r, kn, l)
  <2>1. IF l = 0 THEN kn ELSE r[l].kind = "window"
    BY <1>1, <1>2, <1>4 DEF Opens
  <2>2. ASSUME NEW x \in 1..Len(r), x > l PROVE ~Going(r[x])
    <3>1. x + 1 \in 1..Len(q) /\ x + 1 > j /\ q[x + 1] = r[x]
      BY <1>2, <1>4, <2>2
    <3> QED BY <1>1, <3>1 DEF Opens
  <2> QED BY <2>1, <2>2 DEF Opens
<1>6. ASSUME NEW i \in X PROVE Settles(r, after, c, l, i)
  <2>1. PICK k \in j..Len(q) :
          /\ IF k = 0 THEN Len(sh) = Len(c) /\ sh[i] = c[i] ELSE Brings(q[k], c, i)
          /\ \A x \in 1..Len(q) : x > k => Fits(q[x], c, i)
    BY <1>1 DEF Settles
  <2> DEFINE g == IF k = 0 THEN 0 ELSE k - 1
  <2>2. g \in l..Len(r) /\ g \in Nat
    BY <1>1, <1>2, <1>4, <2>1
  <2>3. ASSUME NEW x \in 1..Len(r), x > g PROVE Fits(r[x], c, i)
    <3>1. x + 1 \in 1..Len(q) /\ x + 1 > k /\ q[x + 1] = r[x]
      BY <1>2, <2>1, <2>3
    <3> QED BY <2>1, <3>1
  <2>4. CASE k > 1
    <3>1. g # 0 /\ g \in 1..Len(r) /\ k = g + 1
      BY <1>2, <2>1, <2>4
    <3>2. Brings(r[g], c, i)
      BY <1>2, <2>1, <3>1
    <3> QED BY <2>2, <2>3, <3>1, <3>2 DEF Settles
  <2>5. CASE k <= 1
    <3>1. j = 0 /\ kn /\ g = 0
      BY <1>1, <1>3, <2>1, <2>5 DEF Opens
    <3>2. k = 0 \/ k = 1
      BY <1>1, <2>1, <2>5
    <3>3. Fits(m, c, i)
      <4>1. CASE k = 0
        <5>1. 1 \in 1..Len(q) /\ 1 > k
          BY <1>2, <4>1
        <5> QED BY <1>2, <2>1, <5>1
      <4>2. CASE k = 1
        BY <1>2, <2>1, <4>2 DEF Fits, Brings
      <4> QED BY <3>2, <4>1, <4>2
    <3>4. Len(m.cells) = Len(c) /\ (Covers(m, i) => m.cells[i] = c[i])
      BY <3>3 DEF Fits
    <3>5. ~Covers(m, i) => Len(sh) = Len(c) /\ sh[i] = c[i]
      BY <1>2, <2>1, <3>2 DEF Brings
    <3>6. Len(after) = Len(c) /\ after[i] = c[i]
      BY <3>1, <3>4, <3>5
    <3> QED BY <2>2, <2>3, <3>1, <3>6 DEF Settles
  <2> HIDE DEF g
  <2> QED BY <1>1, <2>1, <2>4, <2>5
<1> HIDE DEF l
<1> QED BY <1>4, <1>5, <1>6 DEF Comes

\* And when a note is read, with only frames ahead of it: the window it opens
\* is the page's own from now on.
LEMMA ComesRead ==
  ASSUME NEW q, NEW r, NEW a, NEW m, Without(q, r, a, m), m.kind # "frame", Len(r) \in Nat,
         \A x \in 1..a : q[x].kind = "frame",
         NEW kn \in BOOLEAN, NEW knows \in BOOLEAN, NEW sh, NEW after, NEW c, NEW X,
         m.kind = "window" => knows,
         kn /\ ~Going(m) => knows /\ after = sh,
         Comes(q, kn, sh, c, X)
  PROVE  Comes(r, knows, after, c, X)
<1>1. PICK j \in 0..Len(q) : Opens(q, kn, j) /\ \A i \in X : Settles(q, sh, c, j, i)
  BY DEF Comes
<1>2. /\ Len(q) = Len(r) + 1 /\ q[a + 1] = m /\ a \in 0..Len(r)
      /\ \A x \in 1..a : q[x] = r[x]
      /\ \A x \in a + 1..Len(r) : q[x + 1] = r[x]
  BY DEF Without
<1>3. j = 0 \/ j > a
  <2>1. j \in 1..a => q[j].kind = "frame"
    OBVIOUS
  <2>2. j # 0 => q[j].kind = "window"
    BY <1>1 DEF Opens
  <2> QED BY <1>1, <1>2, <2>1, <2>2
<1> DEFINE l == IF j <= a + 1 THEN 0 ELSE j - 1
<1>4. l \in 0..Len(r) /\ (l # 0 => j = l + 1 /\ l \in a + 1..Len(r)) /\ (l = 0 => j = 0 \/ j = a + 1)
  BY <1>1, <1>2, <1>3
<1>5. Opens(r, knows, l)
  <2>1. IF l = 0 THEN knows ELSE r[l].kind = "window"
    <3>1. CASE l = 0
      <4>1. CASE j = a + 1
        <5>1. j # 0
          BY <1>2, <4>1
        <5> QED BY <1>1, <1>2, <3>1, <4>1, <5>1 DEF Opens
      <4>2. CASE j = 0
        <5>1. a + 1 \in 1..Len(q) /\ a + 1 > j /\ kn
          BY <1>1, <1>2, <4>2 DEF Opens
        <5>2. ~Going(m)
          BY <1>1, <1>2, <5>1 DEF Opens
        <5> QED BY <3>1, <5>1, <5>2
      <4> QED BY <1>4, <3>1, <4>1, <4>2
    <3>2. CASE l # 0
      <4>0. j = l + 1 /\ l \in a + 1..Len(r)
        BY <1>4, <3>2
      <4>1. j # 0 /\ q[j] = r[l]
        <5>1. q[l + 1] = r[l]
          BY <1>2, <4>0
        <5> QED BY <1>2, <4>0, <5>1
      <4> QED BY <1>1, <3>2, <4>1 DEF Opens
    <3> QED BY <3>1, <3>2
  <2>2. ASSUME NEW x \in 1..Len(r), x > l PROVE ~Going(r[x])
    <3>1. CASE x <= a
      <4>1. x \in 1..a
        BY <1>2, <3>1
      <4>2. r[x].kind = "frame"
        BY <1>2, <4>1
      <4> QED BY <4>2 DEF Going
    <3>2. CASE x > a
      <4>1. x + 1 \in 1..Len(q) /\ x + 1 > j /\ x \in a + 1..Len(r)
        BY <1>2, <1>4, <2>2, <3>2
      <4> QED BY <1>1, <1>2, <4>1 DEF Opens
    <3> QED BY <1>2, <3>1, <3>2
  <2> QED BY <2>1, <2>2 DEF Opens
<1>6. ASSUME NEW i \in X PROVE Settles(r, after, c, l, i)
  <2>1. PICK k \in j..Len(q) :
          /\ IF k = 0 THEN Len(sh) = Len(c) /\ sh[i] = c[i] ELSE Brings(q[k], c, i)
          /\ \A x \in 1..Len(q) : x > k => Fits(q[x], c, i)
    BY <1>1 DEF Settles
  <2>2. k # a + 1
    <3>1. a + 1 # 0 /\ ~Brings(q[a + 1], c, i)
      BY <1>2 DEF Brings
    <3> QED BY <2>1, <3>1
  <2> DEFINE g == IF k <= a THEN k ELSE k - 1
  <2>3. /\ g \in l..Len(r) /\ g \in Nat
        /\ k > a + 1 => g # 0 /\ k = g + 1 /\ g \in a + 1..Len(r)
        /\ k <= a => g = k /\ j = 0
    BY <1>1, <1>2, <1>3, <1>4, <2>1, <2>2
  <2>4. k <= a \/ k > a + 1
    BY <1>1, <1>2, <2>1, <2>2
  <2> HIDE DEF g
  <2>5. ASSUME NEW x \in 1..Len(r), x > g PROVE Fits(r[x], c, i)
    <3>1. CASE x <= a
      <4>1. x \in 1..a /\ x \in 1..Len(q) /\ x > k
        BY <1>2, <2>3, <2>4, <2>5, <3>1
      <4> QED BY <1>2, <2>1, <4>1
    <3>2. CASE x > a
      <4>1. x + 1 \in 1..Len(q) /\ x + 1 > k /\ x \in a + 1..Len(r)
        BY <1>2, <2>1, <2>3, <2>4, <2>5, <3>2
      <4> QED BY <1>2, <2>1, <4>1
    <3> QED BY <1>2, <3>1, <3>2
  <2>6. CASE k > a + 1
    <3>1. k # 0 /\ q[k] = r[g] /\ g # 0
      BY <1>2, <2>3, <2>6
    <3>2. Brings(r[g], c, i)
      BY <2>1, <3>1
    <3> QED BY <2>3, <2>5, <3>1, <3>2 DEF Settles
  <2>7. CASE k <= a
    <3>1. g = k /\ j = 0
      BY <2>3, <2>7
    <3>2. CASE k = 0
      <4>1. kn /\ a + 1 \in 1..Len(q) /\ a + 1 > j
        BY <1>1, <1>2, <3>1 DEF Opens
      <4>2. after = sh
        BY <1>1, <1>2, <4>1 DEF Opens
      <4>3. IF g = 0 THEN Len(after) = Len(c) /\ after[i] = c[i] ELSE Brings(r[g], c, i)
        BY <2>1, <3>1, <3>2, <4>2
      <4> QED BY <2>3, <2>5, <4>3 DEF Settles
    <3>3. CASE k # 0
      <4>1. k \in 1..a
        BY <2>3, <2>7, <3>1, <3>3
      <4>2. Brings(r[g], c, i)
        BY <1>2, <2>1, <3>1, <3>3, <4>1
      <4> QED BY <2>3, <2>5, <3>1, <3>3, <4>2 DEF Settles
    <3> QED BY <3>2, <3>3
  <2> QED BY <2>4, <2>6, <2>7
<1> HIDE DEF l
<1> QED BY <1>4, <1>5, <1>6 DEF Comes

\* A window hidden is lost to the page, whatever went before.
LEMMA GoesAnew ==
  ASSUME NEW q \in Seq(Message), NEW kn
  PROVE  Goes(Append(q, Note("hidden")), kn)
<1> DEFINE r == Append(q, Note("hidden"))
<1>1. Len(r) = Len(q) + 1 /\ r[Len(q) + 1] = Note("hidden") /\ Len(q) \in Nat
  BY NoteTyped, AppendProperties
<1> HIDE DEF r
<1>2. Len(q) + 1 \in 0..Len(r) /\ Len(q) + 1 # 0 /\ Going(r[Len(q) + 1])
      /\ \A x \in 1..Len(r) : ~(x > Len(q) + 1)
  BY <1>1, NoteTyped DEF Going
<1>3. Goes(r, kn)
  BY <1>2 DEF Goes
<1> QED BY <1>3 DEF r

\* One message fewer.
LEMMA GoesOn ==
  ASSUME NEW q, NEW r, NEW m, Without(q, r, 0, m), Len(r) \in Nat,
         NEW kn, NEW knows, m.kind # "window" => ~knows \/ (~Going(m) /\ (knows => kn)),
         Goes(q, kn)
  PROVE  Goes(r, knows)
<1>1. PICK j \in 0..Len(q) :
        /\ IF j = 0 THEN ~kn ELSE Going(q[j])
        /\ \A x \in 1..Len(q) : x > j => q[x].kind # "window"
  BY DEF Goes
<1>2. /\ Len(q) = Len(r) + 1 /\ q[1] = m /\ \A x \in 1..Len(r) : q[x + 1] = r[x]
      /\ 1 \in 1..Len(q)
  BY DEF Without
<1>3. ASSUME NEW x \in 1..Len(r), x + 1 > j PROVE r[x].kind # "window"
  <2>1. x + 1 \in 1..Len(q) /\ q[x + 1] = r[x]
    BY <1>2
  <2> QED BY <1>1, <1>3, <2>1
<1>4. CASE j > 1
  <2>1. j - 1 \in 0..Len(r) /\ j - 1 # 0 /\ (j - 1) + 1 = j /\ j - 1 \in 1..Len(r)
    BY <1>1, <1>2, <1>4
  <2>2. q[(j - 1) + 1] = r[j - 1]
    BY <1>2, <2>1
  <2>3. Going(r[j - 1])
    BY <1>1, <1>4, <2>1, <2>2
  <2>4. \A x \in 1..Len(r) : x > j - 1 => r[x].kind # "window"
    BY <1>1, <1>3
  <2> QED BY <2>1, <2>3, <2>4 DEF Goes
<1>5. CASE j <= 1
  <2>1. j = 0 \/ j = 1
    BY <1>1, <1>5
  <2>2. ~knows
    <3>1. CASE j = 0
      <4>1. m.kind # "window" /\ ~kn
        BY <1>1, <1>2, <3>1
      <4> QED BY <4>1
    <3>2. CASE j = 1
      <4>1. Going(m)
        BY <1>1, <1>2, <3>2
      <4> QED BY <4>1 DEF Going
    <3> QED BY <2>1, <3>1, <3>2
  <2>3. \A x \in 1..Len(r) : x > 0 => r[x].kind # "window"
    BY <1>1, <1>3, <2>1
  <2>4. 0 \in 0..Len(r)
    OBVIOUS
  <2> QED BY <2>2, <2>3, <2>4 DEF Goes
<1> QED BY <1>1, <1>4, <1>5

\* The tail of what is read is read later: a queue cut at the front, or begun
\* anew with "opened", loses the surface no less.
LEMMA GoesCut ==
  ASSUME NEW s \in Seq(Message), NEW t \in Seq(Message), NEW kn, Goes(s \o t, kn)
  PROVE  Goes(t, FALSE)
<1> DEFINE q == s \o t
           a == Len(s)
<1>1. /\ Len(q) = a + Len(t) /\ a \in Nat /\ Len(t) \in Nat
      /\ \A i \in 1..a + Len(t) : q[i] = IF i <= a THEN s[i] ELSE t[i - a]
  BY ConcatProperties
<1>2. PICK j \in 0..Len(q) :
        /\ IF j = 0 THEN ~kn ELSE Going(q[j])
        /\ \A x \in 1..Len(q) : x > j => q[x].kind # "window"
  BY DEF Goes
<1> HIDE DEF q, a
<1>3. ASSUME NEW x \in 1..Len(t) PROVE a + x \in 1..Len(q) /\ q[a + x] = t[x]
  <2>1. a + x \in 1..a + Len(t) /\ ~(a + x <= a) /\ (a + x) - a = x
    BY <1>1
  <2> QED BY <1>1, <2>1
<1>4. CASE j <= a
  <2>1. \A x \in 1..Len(t) : x > 0 => t[x].kind # "window"
    BY <1>1, <1>2, <1>3, <1>4
  <2>2. 0 \in 0..Len(t)
    BY <1>1
  <2> QED BY <2>1, <2>2 DEF Goes
<1>5. CASE j > a
  <2>1. j - a \in 1..Len(t) /\ a + (j - a) = j /\ j # 0 /\ j - a \in 0..Len(t) /\ j - a # 0
    BY <1>1, <1>2, <1>5
  <2>2. q[a + (j - a)] = t[j - a]
    BY <1>3, <2>1
  <2>3. Going(t[j - a])
    BY <1>2, <2>1, <2>2
  <2>4. \A x \in 1..Len(t) : x > j - a => t[x].kind # "window"
    BY <1>1, <1>2, <1>3, <2>1
  <2> QED BY <2>1, <2>3, <2>4 DEF Goes
<1>6. j <= a \/ j > a
  BY <1>1, <1>2
<1> QED BY <1>4, <1>5, <1>6

\* And so does one that begins with "opened".
LEMMA GoesReopened ==
  ASSUME NEW t \in Seq(Message), NEW kn, Goes(t, FALSE)
  PROVE  Goes(<<Note("opened")>> \o t, kn)
<1> DEFINE s == <<Note("opened")>>
           q == s \o t
<1>1. s \in Seq(Message) /\ Len(s) = 1 /\ s[1] = Note("opened")
  BY NoteTyped
<1> HIDE DEF s
<1>2. /\ Len(q) = 1 + Len(t) /\ Len(t) \in Nat
      /\ \A i \in 1..1 + Len(t) : q[i] = IF i <= 1 THEN s[i] ELSE t[i - 1]
  <2>0. s \in Seq(Message) /\ t \in Seq(Message)
    BY <1>1
  <2>1. /\ Len(q) = Len(s) + Len(t) /\ Len(t) \in Nat
        /\ \A i \in 1..Len(s) + Len(t) : q[i] = IF i <= Len(s) THEN s[i] ELSE t[i - Len(s)]
    BY <2>0, ConcatProperties
  <2> HIDE DEF q
  <2> QED BY <1>1, <2>1
<1>3. PICK j \in 0..Len(t) :
        /\ IF j = 0 THEN ~FALSE ELSE Going(t[j])
        /\ \A x \in 1..Len(t) : x > j => t[x].kind # "window"
  BY DEF Goes
<1> HIDE DEF q
<1>4. Going(q[1])
  <2>1. 1 \in 1..1 + Len(t) /\ 1 <= 1
    BY <1>2
  <2> QED BY <1>1, <1>2, <2>1, NoteTyped DEF Going
<1>5. ASSUME NEW x \in 1..Len(t) PROVE q[x + 1] = t[x]
  <2>1. x + 1 \in 1..1 + Len(t) /\ ~(x + 1 <= 1) /\ (x + 1) - 1 = x
    BY <1>2
  <2> QED BY <1>2, <2>1
<1>6. j + 1 \in 0..Len(q) /\ j + 1 # 0
  BY <1>2, <1>3
<1>7. Going(q[j + 1])
  <2>1. CASE j = 0
    BY <1>4, <2>1
  <2>2. CASE j # 0
    BY <1>3, <1>5, <2>2
  <2> QED BY <2>1, <2>2
<1>8. ASSUME NEW x \in 1..Len(q), x > j + 1 PROVE q[x].kind # "window"
  <2>1. x - 1 \in 1..Len(t) /\ (x - 1) + 1 = x /\ x - 1 > j
    BY <1>2, <1>3, <1>8
  <2>2. q[(x - 1) + 1] = t[x - 1]
    BY <1>5, <2>1
  <2> QED BY <1>3, <2>1, <2>2
<1>9. Goes(q, kn)
  BY <1>6, <1>7, <1>8 DEF Goes
<1> QED BY <1>9 DEF q, s

-----------------------------------------------------------------------------
(* The invariant of the picture. While the connection is up and the        *)
(* compositor owes it no resync, every cell it does not hold back is on    *)
(* its way to the page, or there; and a window that was taken off the      *)
(* screen is on its way off the page.                                      *)

\* All that is on its way to the page, in order.
Coming == applying \o (wire \o pipe)
\* A resync is on its way to the compositor.
Asked == \E i \in 1..Len(back) : back[i] = "resync"
\* The cells that are not held back.
Sent == {i \in CellsOf(canvas) : i \notin pending[1]..pending[2]}

\* The kept copy is as wide as the application's picture, and is that picture if it was all
\* drawn since it got that width; a surface is announced while there is one.
KeptCopy ==
  /\ Len(canvas) = Len(drawn) /\ (redrawn => canvas = drawn)
  /\ announced <=> canvas # <<>>
\* A copy of another size than the frame last sent is held back whole.
ResizedHeld ==
  /\ canvas = <<>> => sentWidth = 0
  /\ canvas # <<>> /\ sentWidth # Len(canvas) => pending[1] <= 1 /\ pending[2] >= Len(canvas)
\* With no frame in flight nothing is held back.
NothingHeld == ~inFlight => Sent = CellsOf(canvas)
\* The chain holds frames only, and a connection that is down holds nothing.
QueuesInv ==
  /\ \A x \in 1..Len(applying) : applying[x].kind = "frame"
  /\ link = "down" => wire = <<>>
\* A hidden window is on its way off the page.
GoneInv == ~announced => Goes(wire \o pipe, known /\ link # "down")
\* What was sent is on its way to the page, or there.
ShownInv ==
  announced /\ link # "down" /\ ~Asked => Comes(Coming, known, shown, canvas, Sent)

\* The invariant of the picture.
PictureInv == KeptCopy /\ ResizedHeld /\ NothingHeld /\ QueuesInv /\ GoneInv /\ ShownInv

\* The parts that read no more than these do not change with the rest.
LEMMA PictureKept ==
  ASSUME PictureInv, UNCHANGED <<appVars, compVars, pageVars, pipe, wire, link>>,
         Asked => Asked'
  PROVE  PictureInv'
<1>1. /\ drawn' = drawn /\ canvas' = canvas /\ announced' = announced /\ inFlight' = inFlight
      /\ redrawn' = redrawn /\ sentWidth' = sentWidth /\ pending' = pending /\ applying' = applying /\ wire' = wire /\ pipe' = pipe
      /\ known' = known /\ shown' = shown /\ link' = link /\ redrawn' = redrawn
      /\ sentWidth' = sentWidth
  BY DEF appVars, compVars, pageVars
<1>2. Coming' = Coming /\ Sent' = Sent
  BY <1>1 DEF Coming, Sent, CellsOf
<1>3. KeptCopy' /\ ResizedHeld' /\ QueuesInv' /\ GoneInv'
  BY <1>1 DEF PictureInv, KeptCopy, ResizedHeld, QueuesInv, GoneInv
<1>4. NothingHeld'
  BY <1>1, <1>2 DEF PictureInv, NothingHeld, CellsOf
<1>5. ShownInv'
  BY <1>1, <1>2 DEF PictureInv, ShownInv
<1> QED BY <1>3, <1>4, <1>5 DEF PictureInv

\* What a commit draws: all that differs from the kept copy is in the rectangle, or was held
\* back before.
LEMMA CommitDraws ==
  ASSUME Inv, KeptCopy, ResizedHeld, NEW w \in Widths, NEW damage \in Damages(w),
         Commit(w, damage)
  PROVE  LET d == DamageBounds(w, damage)
         IN  /\ canvas' \in Picture /\ Len(canvas') = w /\ w \in Nat /\ w > 0
             /\ canvas' # <<>> /\ announced' = TRUE
             /\ d \in Interval /\ d[1] >= 1 /\ d[2] <= w
             /\ sentWidth # w => d = <<1, w>>
             /\ \A i \in 1..w : i \notin d[1]..d[2] =>
                  \/ Len(canvas) = w /\ canvas'[i] = canvas[i]
                  \/ i \in CellsOf(canvas) /\ i \in pending[1]..pending[2]
             /\ IF inFlight
                THEN pending' = Widened(d) /\ pipe' = Announced /\ inFlight' = TRUE
                     /\ sentWidth' = sentWidth
                ELSE Emit(canvas', d, Announced)
             /\ KeptCopy'
<1> DEFINE n == commits + 1
           p == Drawing(w, damage, n)
           d == DamageBounds(w, damage)
           under == IF Len(canvas) = w THEN canvas ELSE Blanked(w)
<1> USE DEF Inv
<1>1. n \in Nat /\ w \in Nat /\ w > 0 /\ canvas \in Picture /\ drawn \in Picture
  BY FrameFlowAssumption DEF TypeOK
<1>2. p \in Picture /\ Len(p) = w
  BY <1>1, DrawingTyped
<1>3. under \in Picture /\ Len(under) = w
  BY <1>1, BlankedTyped DEF TypeOK
<1>4. /\ drawn' = p /\ canvas' = Landed(under, d, p) /\ announced' = TRUE
      /\ redrawn' = (damage \in {None, <<1, w>>} \/ (redrawn /\ w = Len(drawn)))
      /\ IF inFlight
         THEN pending' = Widened(d) /\ pipe' = Announced /\ inFlight' = TRUE
              /\ sentWidth' = sentWidth
         ELSE Emit(canvas', d, Announced)
  BY DEF Commit, CanvasUpdate, Held
<1>5. canvas' \in Picture /\ Len(canvas') = w
  <2> HIDE DEF under, p, d
  <2> QED BY <1>2, <1>3, <1>4, LandedTyped
<1>6. \/ damage = None
      \/ /\ damage \in (1..w) \X (1..w)
         /\ w > Len(drawn) => damage[1] <= Len(drawn) + 1 /\ damage[2] = w
  BY DEF Damages
<1>7. d \in Interval /\ d[1] >= 1 /\ d[2] <= w /\ (sentWidth # w => d = <<1, w>>)
  BY <1>1, <1>6 DEF DamageBounds, Interval, None
<1>8. ASSUME NEW i \in 1..w, i \notin d[1]..d[2]
      PROVE  /\ d = damage /\ damage # None /\ damage # <<1, w>> /\ sentWidth = w
             /\ p[i] = drawn[i] /\ canvas'[i] = under[i]
  <2>1. d # <<1, w>>
    BY <1>8
  <2>2. d = damage /\ damage # None /\ damage # <<1, w>> /\ sentWidth = w
    BY <2>1 DEF DamageBounds
  <2>3. p[i] = drawn[i]
    BY <1>8, <2>2 DEF Drawing
  <2>4. canvas'[i] = under[i]
    <3> HIDE DEF under, p, d
    <3> QED BY <1>3, <1>4, <1>8 DEF Landed
  <2> QED BY <2>2, <2>3, <2>4
<1>9. ASSUME NEW i \in 1..w, i \notin d[1]..d[2]
      PROVE  \/ Len(canvas) = w /\ canvas'[i] = canvas[i]
             \/ i \in CellsOf(canvas) /\ i \in pending[1]..pending[2]
  <2>1. CASE Len(canvas) = w
    BY <1>8, <1>9, <2>1
  <2>2. CASE Len(canvas) # w
    <3>1. sentWidth = w /\ canvas # <<>>
      BY <1>1, <1>8, <1>9 DEF ResizedHeld
    <3>2. pending[1] <= 1 /\ pending[2] >= Len(canvas)
      BY <2>2, <3>1 DEF ResizedHeld
    <3>3. Len(canvas) \in Nat /\ Len(drawn) = Len(canvas) /\ pending[1] \in Nat /\ pending[2] \in Nat
      BY <1>1 DEF Picture, KeptCopy, TypeOK, Interval
    <3>4. damage \in (1..w) \X (1..w) /\ d = damage
      BY <1>6, <1>8, <1>9
    <3>5. damage[1] \in Nat /\ damage[2] \in Nat
      BY <1>1, <3>4
    <3>6. i <= Len(canvas)
      <4>1. CASE w > Len(drawn)
        <5>1. damage[1] <= Len(drawn) + 1 /\ damage[2] = w
          BY <1>6, <1>8, <1>9, <4>1
        <5>2. i < damage[1]
          BY <1>1, <1>9, <3>4, <3>5, <5>1
        <5> QED BY <1>1, <3>3, <3>5, <5>1, <5>2
      <4>2. CASE ~(w > Len(drawn))
        BY <1>1, <3>3, <4>2
      <4> QED BY <4>1, <4>2
    <3> QED BY <1>1, <3>2, <3>3, <3>6 DEF CellsOf
  <2> QED BY <2>1, <2>2
<1>10. ASSUME redrawn' PROVE canvas' = p
  <2>1. ASSUME NEW i \in 1..w PROVE canvas'[i] = p[i]
    <3>1. CASE i \in d[1]..d[2]
      <4> HIDE DEF under, p, d
      <4> QED BY <1>3, <1>4, <3>1 DEF Landed
    <3>2. CASE i \notin d[1]..d[2]
      <4>1. damage \notin {None, <<1, w>>}
        BY <1>8, <3>2
      <4>2. redrawn /\ w = Len(drawn)
        BY <1>4, <1>10, <4>1
      <4>3. canvas = drawn
        BY <4>2 DEF KeptCopy
      <4>4. under = canvas
        BY <4>2, <4>3
      <4>5. canvas'[i] = under[i] /\ p[i] = drawn[i]
        BY <1>8, <3>2
      <4> QED BY <4>3, <4>4, <4>5
    <3> QED BY <3>1, <3>2
  <2> HIDE DEF p
  <2> QED BY <1>2, <1>5, <2>1, SeqEqual DEF Picture
<1> HIDE DEF p, d, under, n
<1>11. canvas' # <<>>
  BY <1>1, <1>5
<1>12. KeptCopy'
  BY <1>2, <1>4, <1>5, <1>10, <1>11 DEF KeptCopy
<1> QED BY <1>1, <1>4, <1>5, <1>7, <1>9, <1>11, <1>12 DEF d

\* Every cell of a frame's own rectangle is in it.
LEMMA FrameCovers ==
  ASSUME NEW p \in Picture, NEW d \in Interval, NEW i \in CellsOf(p), i \in d[1]..d[2]
  PROVE  Covers(Frame(Clamped(p, d), p), i)
<1>1. Len(p) \in Nat /\ d[1] \in Nat /\ d[2] \in Nat
  BY DEF Picture, Interval
<1>2. i \in Upper(d[1], 1)..Lower(d[2], Len(p))
  BY <1>1 DEF Upper, Lower, CellsOf
<1> QED BY <1>2 DEF Covers, Frame, Clamped

\* Nothing is held back in a step that lets out what was.
LEMMA NonePending ==
  ASSUME NEW p \in Picture
  PROVE  {i \in CellsOf(p) : i \notin None[1]..None[2]} = CellsOf(p)
<1>1. None[1] = 0 /\ None[2] = 0 /\ Len(p) \in Nat
  BY DEF None, Picture
<1> QED BY <1>1 DEF CellsOf

\* A frame let out on a connection that is up brings what was held back.
LEMMA EmitShows ==
  ASSUME NEW p \in Picture, NEW d \in Interval, NEW said \in Seq(Message),
         NEW a \in Seq(Message), NEW b \in Seq(Message), NEW kn, NEW sh, NEW X,
         Emit(p, d, said), Comes(a \o (b \o said), kn, sh, p, X),
         \A i \in CellsOf(p) : i \in X \/ i \in d[1]..d[2]
  PROVE  Comes(a \o (b \o pipe'), kn, sh, p, CellsOf(p))
<1> DEFINE m == Frame(Clamped(p, d), p)
           q == a \o (b \o said)
<1>1. m \in Message /\ m.kind = "frame" /\ m.cells = p /\ pipe' = Append(said, m)
  BY FrameTyped DEF Emit, Frame
<1>2. \A i \in CellsOf(p) : i \in X \/ Covers(m, i)
  BY FrameCovers
<1> HIDE DEF m
<1>3. b \o said \in Seq(Message) /\ q \in Seq(Message) /\ a \o (b \o pipe') = Append(q, m)
  <2>1. b \o said \in Seq(Message)
    BY ConcatProperties
  <2>2. q \in Seq(Message)
    BY <2>1, ConcatProperties
  <2>3. b \o Append(said, m) = Append(b \o said, m)
    <3>1. m \in Message
      BY <1>1
    <3> QED BY <3>1, PutLast
  <2>4. a \o Append(b \o said, m) = Append(q, m)
    <3>1. m \in Message
      BY <1>1
    <3> DEFINE u == b \o said
    <3>2. u \in Seq(Message)
      BY <2>1
    <3> HIDE DEF u
    <3>3. a \o Append(u, m) = Append(a \o u, m)
      BY <3>1, <3>2, PutLast
    <3> QED BY <3>3 DEF u
  <2>5. a \o (b \o pipe') = Append(q, m)
    BY <1>1, <2>3, <2>4
  <2> QED BY <2>1, <2>2, <2>5
<1> HIDE DEF q
<1>4. Comes(q, kn, sh, p, X)
  BY DEF q
<1>5. Comes(Append(q, m), kn, sh, p, CellsOf(p))
  BY <1>1, <1>2, <1>3, <1>4, ComesOn
<1> QED BY <1>3, <1>5

\* The queues are what their types say.
LEMMA QueuesTyped ==
  ASSUME TypeOK
  PROVE  /\ pipe \in Seq(Message) /\ wire \in Seq(Message) /\ applying \in Seq(Message)
         /\ wire \o pipe \in Seq(Message) /\ Coming \in Seq(Message)
         /\ canvas \in Picture /\ shown \in Picture /\ pending \in Interval
         /\ back \in Seq(Word)
<1>1. /\ pipe \in Seq(Message) /\ wire \in Seq(Message) /\ applying \in Seq(Message)
      /\ canvas \in Picture /\ shown \in Picture /\ pending \in Interval
      /\ back \in Seq(Word)
  BY DEF TypeOK, Word
<1>2. wire \o pipe \in Seq(Message)
  BY <1>1, ConcatProperties
<1>3. Coming \in Seq(Message)
  BY <1>1, <1>2, ConcatProperties DEF Coming
<1> QED BY <1>1, <1>2, <1>3

\* A commit sends what it drew, or holds it back behind the frame in flight.
LEMMA CommitShows ==
  ASSUME Inv, PictureInv, NEW w \in Widths, NEW damage \in Damages(w),
         Commit(w, damage)
  PROVE  PictureInv'
<1> DEFINE d == DamageBounds(w, damage)
           X == {i \in Sent : Len(canvas) = w /\ i \notin d[1]..d[2]}
<1> USE DEF PictureInv
<1>1. /\ canvas' \in Picture /\ Len(canvas') = w /\ w \in Nat /\ w > 0
      /\ canvas' # <<>> /\ announced' = TRUE
      /\ d \in Interval /\ d[1] >= 1 /\ d[2] <= w
      /\ sentWidth # w => d = <<1, w>>
      /\ \A i \in 1..w : i \notin d[1]..d[2] =>
           \/ Len(canvas) = w /\ canvas'[i] = canvas[i]
           \/ i \in CellsOf(canvas) /\ i \in pending[1]..pending[2]
      /\ IF inFlight
         THEN pending' = Widened(d) /\ pipe' = Announced /\ inFlight' = TRUE
              /\ sentWidth' = sentWidth
         ELSE Emit(canvas', d, Announced)
      /\ KeptCopy'
  BY CommitDraws DEF Inv
<1>2. UNCHANGED <<pageVars, back, wire, link>>
  BY DEF Commit
<1>3. /\ pipe \in Seq(Message) /\ wire \in Seq(Message) /\ applying \in Seq(Message)
      /\ wire \o pipe \in Seq(Message) /\ canvas \in Picture /\ pending \in Interval
  BY QueuesTyped DEF Inv
<1>4. Announced \in Seq(Message)
  BY AnnouncedKeeps DEF Inv
<1> HIDE DEF d
<1>5. KeptCopy' /\ QueuesInv' /\ GoneInv'
  BY <1>1, <1>2 DEF QueuesInv, GoneInv, pageVars
<1>11. ResizedHeld'
  <2>1. CASE inFlight /\ sentWidth # w
    <3>1. d[1] = 1 /\ d[2] = w /\ pending' = Widened(d)
      BY <1>1, <2>1
    <3>2. pending[1] \in Nat /\ pending[2] \in Nat
      BY <1>3 DEF Interval
    <3>3. pending'[1] <= 1 /\ pending'[2] >= w
      BY <1>1, <3>1, <3>2 DEF Widened, Union, Lower, Upper
    <3> QED BY <1>1, <3>3 DEF ResizedHeld
  <2>2. CASE inFlight /\ sentWidth = w
    BY <1>1, <2>2 DEF ResizedHeld
  <2>3. CASE ~inFlight
    BY <1>1, <2>3 DEF ResizedHeld, Emit
  <2> QED BY <2>1, <2>2, <2>3
<1>6. inFlight' = TRUE
  BY <1>1 DEF Emit
<1>7. NothingHeld'
  BY <1>6 DEF NothingHeld
<1>8. ASSUME link # "down", ~Asked
      PROVE  Comes(applying \o (wire \o Announced), known, shown, canvas', X)
  <2>1. \A i \in X : i \in Sent /\ i \in 1..w /\ Len(canvas) = w /\ canvas'[i] = canvas[i]
    BY <1>1 DEF Sent, CellsOf
  <2>2. CASE announced
    <3>1. Comes(applying \o (wire \o pipe), known, shown, canvas, Sent)
      BY <1>8, <2>2 DEF ShownInv, Coming
    <3>2. Announced = pipe /\ X \in SUBSET Sent
      BY <2>2 DEF Announced
    <3>3. X # {} => Len(canvas') = Len(canvas)
      BY <1>1, <2>1
    <3>4. \A i \in X : canvas'[i] = canvas[i]
      BY <2>1
    <3> DEFINE q == applying \o (wire \o pipe)
    <3> HIDE DEF X, q
    <3>5. Comes(q, known, shown, canvas, Sent)
      BY <3>1 DEF q
    <3>6. Comes(q, known, shown, canvas', X)
      BY <3>2, <3>3, <3>4, <3>5, ComesTo
    <3> QED BY <3>2, <3>6 DEF q
  <2>3. CASE ~announced
    <3>1. canvas = <<>>
      BY <2>3 DEF KeptCopy
    <3>2. X = {}
      BY <3>1 DEF Sent, CellsOf
    <3>3. Announced = Append(pipe, Note("window"))
      BY <2>3 DEF Announced
    <3>4. Note("window") \in Message
      BY NoteTyped
    <3>5. wire \o Append(pipe, Note("window")) = Append(wire \o pipe, Note("window"))
      BY <1>3, <3>4, PutLast
    <3> DEFINE u == wire \o pipe
    <3>6. u \in Seq(Message)
      BY <1>3
    <3> HIDE DEF u, X
    <3>7. applying \o Append(u, Note("window")) = Append(applying \o u, Note("window"))
      BY <1>3, <3>4, <3>6, PutLast
    <3>8. applying \o u \in Seq(Message)
      BY <1>3, <3>6, ConcatProperties
    <3>9. Comes(Append(applying \o u, Note("window")), known, shown, canvas', {})
      BY <3>8, ComesAnew
    <3> QED BY <3>2, <3>3, <3>5, <3>7, <3>9 DEF u
  <2> QED BY <2>2, <2>3
<1>9. ASSUME link # "down", ~Asked
      PROVE  Comes(applying \o (wire \o pipe'), known, shown, canvas', Sent')
  <2>1. CASE inFlight
    <3>1. pending' = Widened(d) /\ pipe' = Announced
      BY <1>1, <2>1
    <3>2. Sent' \in SUBSET X
      <4> SUFFICES ASSUME NEW i \in 1..w, i \notin Widened(d)[1]..Widened(d)[2] PROVE i \in X
        BY <1>1, <3>1 DEF Sent, CellsOf
      <4>1. d[1] \in Nat /\ d[2] \in Nat /\ pending[1] \in Nat /\ pending[2] \in Nat
        BY <1>1, <1>3 DEF Interval
      <4>2. i \notin d[1]..d[2] /\ (pending # None => i \notin pending[1]..pending[2])
        BY <4>1 DEF Widened, Union, Lower, Upper
      <4>3. pending = None => i \notin pending[1]..pending[2]
        BY DEF None
      <4>4. Len(canvas) = w
        BY <1>1, <4>2, <4>3
      <4>5. i \in Sent
        BY <4>2, <4>3, <4>4 DEF Sent, CellsOf
      <4> QED BY <4>2, <4>4, <4>5
    <3> DEFINE q == applying \o (wire \o Announced)
               Y == Sent'
    <3>3. Comes(q, known, shown, canvas', X)
      BY <1>8, <1>9
    <3>4. Y \in SUBSET X
      BY <3>2
    <3>5. Y # {} => Len(canvas') = Len(canvas')
      OBVIOUS
    <3>6. \A i \in Y : canvas'[i] = canvas'[i]
      OBVIOUS
    <3> HIDE DEF q, X, Y
    <3>7. Comes(q, known, shown, canvas', Y)
      BY <3>3, <3>4, <3>5, <3>6, ComesTo
    <3> QED BY <3>1, <3>7 DEF q, Y
  <2>2. CASE ~inFlight
    <3>1. Emit(canvas', d, Announced)
      BY <1>1, <2>2
    <3>2. Sent' = CellsOf(canvas')
      <4>1. pending' = None
        BY <3>1 DEF Emit
      <4>2. {i \in CellsOf(canvas') : i \notin None[1]..None[2]} = CellsOf(canvas')
        BY <1>1, NonePending
      <4> QED BY <4>1, <4>2 DEF Sent, CellsOf
    <3>3. \A i \in CellsOf(canvas') : i \in X \/ i \in d[1]..d[2]
      <4> SUFFICES ASSUME NEW i \in 1..w, i \notin d[1]..d[2] PROVE i \in X
        BY <1>1 DEF CellsOf
      <4>1. Sent = CellsOf(canvas) /\ Len(canvas) = w
        BY <1>1, <2>2 DEF NothingHeld, Sent
      <4> QED BY <4>1 DEF CellsOf
    <3>4. Comes(applying \o (wire \o Announced), known, shown, canvas', X)
      BY <1>8, <1>9
    <3> HIDE DEF X
    <3>5. Comes(applying \o (wire \o pipe'), known, shown, canvas', CellsOf(canvas'))
      BY <1>1, <1>3, <1>4, <3>1, <3>3, <3>4, EmitShows
    <3> QED BY <3>2, <3>5
  <2> QED BY <2>1, <2>2
<1>10. ShownInv'
  <2>1. /\ applying' = applying /\ wire' = wire /\ known' = known /\ shown' = shown
        /\ link' = link /\ back' = back
    BY <1>2 DEF pageVars
  <2>2. Asked' = Asked /\ Coming' = applying \o (wire \o pipe')
    BY <2>1 DEF Asked, Coming
  <2>3. CASE link # "down" /\ ~Asked
    <3>1. Comes(applying \o (wire \o pipe'), known, shown, canvas', Sent')
      BY <1>9, <2>3
    <3> QED BY <2>1, <2>2, <3>1 DEF ShownInv
  <2>4. CASE ~(link # "down" /\ ~Asked)
    BY <2>1, <2>2, <2>4 DEF ShownInv
  <2> QED BY <2>3, <2>4
<1> QED BY <1>5, <1>7, <1>10, <1>11

\* Hiding sends the page away from the surface.
LEMMA HideShows == ASSUME Inv, PictureInv, Hide PROVE PictureInv'
<1> USE DEF PictureInv
<1>1. /\ drawn' = <<>> /\ canvas' = <<>> /\ announced' = FALSE /\ sentWidth' = 0
      /\ pipe' = Append(pipe, Note("hidden")) /\ applying' = applying /\ wire' = wire
      /\ link' = link /\ known' = known
  BY DEF Hide, pageVars
<1>2. KeptCopy' /\ ResizedHeld' /\ QueuesInv'
  BY <1>1 DEF KeptCopy, ResizedHeld, QueuesInv
<1>3. Sent' = {} /\ CellsOf(canvas)' = {}
  BY <1>1 DEF Sent, CellsOf
<1>4. NothingHeld' /\ ShownInv'
  BY <1>1, <1>3 DEF NothingHeld, ShownInv, CellsOf
<1>5. GoneInv'
  <2>1. pipe \in Seq(Message) /\ wire \in Seq(Message) /\ wire \o pipe \in Seq(Message)
    BY QueuesTyped DEF Inv
  <2>2. Note("hidden") \in Message
    BY NoteTyped
  <2>3. wire \o Append(pipe, Note("hidden")) = Append(wire \o pipe, Note("hidden"))
    BY <2>1, <2>2, PutLast
  <2> DEFINE u == wire \o pipe
             kn == known /\ link # "down"
  <2>4. u \in Seq(Message)
    BY <2>1
  <2> HIDE DEF u, kn
  <2>5. Goes(Append(u, Note("hidden")), kn)
    BY <2>4, GoesAnew
  <2>6. Goes(wire' \o pipe', (known /\ link # "down")')
    BY <1>1, <2>3, <2>5 DEF u, kn
  <2> QED BY <2>6 DEF GoneInv
<1> QED BY <1>2, <1>4, <1>5

\* What an acknowledgement lets out.
LEMMA AcknowledgedShows ==
  ASSUME Inv, PictureInv, Acknowledged, UNCHANGED <<drawn, redrawn, pageVars, wire, link>>,
         Asked => Asked'
  PROVE  PictureInv'
<1> USE DEF PictureInv
<1>1. /\ drawn' = drawn /\ canvas' = canvas /\ announced' = announced /\ applying' = applying
      /\ wire' = wire /\ link' = link /\ known' = known /\ shown' = shown /\ redrawn' = redrawn
  BY DEF Acknowledged, pageVars
<1>2. /\ pipe \in Seq(Message) /\ wire \in Seq(Message) /\ applying \in Seq(Message)
      /\ canvas \in Picture /\ pending \in Interval
  BY QueuesTyped DEF Inv
<1>3. KeptCopy' /\ QueuesInv'
  BY <1>1 DEF KeptCopy, QueuesInv
<1>4. CASE pending # None /\ Sendable(canvas, pending)
  <2>1. Emit(canvas, pending, pipe) /\ announced
    BY <1>4 DEF Acknowledged, Sendable, KeptCopy
  <2>2. inFlight' = TRUE /\ pending' = None /\ sentWidth' = Len(canvas)
    BY <2>1 DEF Emit
  <2>3. NothingHeld' /\ GoneInv' /\ ResizedHeld'
    BY <1>1, <2>1, <2>2 DEF NothingHeld, GoneInv, ResizedHeld
  <2>4. Sent' = CellsOf(canvas)
    <3>1. {i \in CellsOf(canvas) : i \notin None[1]..None[2]} = CellsOf(canvas)
      BY <1>2, NonePending
    <3> QED BY <1>1, <2>2, <3>1 DEF Sent, CellsOf
  <2>5. ShownInv'
    <3> SUFFICES ASSUME link # "down", ~Asked
                 PROVE  Comes(Coming', known, shown, canvas, CellsOf(canvas))
      BY <1>1, <2>4 DEF ShownInv
    <3> DEFINE X == Sent
    <3>1. Comes(applying \o (wire \o pipe), known, shown, canvas, X)
      BY <2>1 DEF ShownInv, Coming
    <3>2. \A i \in CellsOf(canvas) : i \in X \/ i \in pending[1]..pending[2]
      BY DEF Sent
    <3> HIDE DEF X
    <3>3. Comes(applying \o (wire \o pipe'), known, shown, canvas, CellsOf(canvas))
      BY <1>2, <2>1, <3>1, <3>2, EmitShows
    <3> QED BY <1>1, <3>3 DEF Coming
  <2> QED BY <1>3, <2>3, <2>5
<1>5. CASE ~(pending # None /\ Sendable(canvas, pending))
  <2>1. inFlight' = FALSE /\ UNCHANGED <<pipe, pending, sentWidth>>
    BY <1>5 DEF Acknowledged
  <2>2. Sent' = Sent /\ Coming' = Coming
    BY <1>1, <2>1 DEF Sent, Coming, CellsOf
  <2>3. Sent = CellsOf(canvas)
    <3>1. CASE pending = None
      <4>1. {i \in CellsOf(canvas) : i \notin None[1]..None[2]} = CellsOf(canvas)
        BY <1>2, NonePending
      <4> QED BY <3>1, <4>1 DEF Sent
    <3>2. CASE canvas = <<>>
      BY <3>2 DEF Sent, CellsOf
    <3>3. CASE canvas # <<>> /\ pending # None
      <4>1. ~(Upper(pending[1], 1) <= Lower(pending[2], Len(canvas)))
        BY <1>5, <3>3 DEF Sendable, Clamped
      <4>2. pending[1] \in Nat /\ pending[2] \in Nat /\ Len(canvas) \in Nat
        BY <1>2 DEF Interval, Picture
      <4>3. \A i \in 1..Len(canvas) : i \notin pending[1]..pending[2]
        BY <4>1, <4>2 DEF Upper, Lower
      <4> QED BY <4>3 DEF Sent, CellsOf
    <3> QED BY <3>1, <3>2, <3>3
  <2>4. NothingHeld'
    BY <1>1, <2>2, <2>3 DEF NothingHeld, CellsOf
  <2>5. GoneInv' /\ ShownInv' /\ ResizedHeld'
    BY <1>1, <2>1, <2>2 DEF GoneInv, ShownInv, ResizedHeld
  <2> QED BY <1>3, <2>4, <2>5
<1> QED BY <1>4, <1>5

\* What a resync lets out: the surface anew, and all of it.
LEMMA ResyncShows ==
  ASSUME Inv, PictureInv, Resync, UNCHANGED <<drawn, redrawn, pageVars, wire, link>>
  PROVE  PictureInv'
<1> USE DEF PictureInv
<1>1. /\ drawn' = drawn /\ canvas' = canvas /\ announced' = announced /\ applying' = applying
      /\ wire' = wire /\ link' = link /\ known' = known /\ shown' = shown /\ redrawn' = redrawn
  BY DEF Resync, pageVars
<1>2. /\ pipe \in Seq(Message) /\ wire \in Seq(Message) /\ applying \in Seq(Message)
      /\ wire \o pipe \in Seq(Message) /\ canvas \in Picture /\ Note("window") \in Message
  BY QueuesTyped, NoteTyped DEF Inv
<1>3. KeptCopy' /\ QueuesInv'
  BY <1>1 DEF KeptCopy, QueuesInv
<1>4. CASE announced
  <2> DEFINE said == Append(pipe, Note("window"))
  <2>1. Emit(canvas, Whole(canvas), said)
    BY <1>4 DEF Resync
  <2>2. inFlight' = TRUE /\ pending' = None /\ sentWidth' = Len(canvas)
    BY <2>1 DEF Emit
  <2>3. NothingHeld' /\ GoneInv' /\ ResizedHeld'
    BY <1>1, <1>4, <2>2 DEF NothingHeld, GoneInv, KeptCopy, ResizedHeld
  <2>4. Sent' = CellsOf(canvas)
    <3>1. {i \in CellsOf(canvas) : i \notin None[1]..None[2]} = CellsOf(canvas)
      BY <1>2, NonePending
    <3> QED BY <1>1, <2>2, <3>1 DEF Sent, CellsOf
  <2>5. Whole(canvas) \in Interval /\ said \in Seq(Message)
    BY <1>2, AppendProperties DEF Whole, Interval, Picture
  <2>6. \A i \in CellsOf(canvas) : i \in {} \/ i \in Whole(canvas)[1]..Whole(canvas)[2]
    BY DEF Whole, CellsOf
  <2>7. Comes(applying \o (wire \o said), known, shown, canvas, {})
    <3>1. wire \o said = Append(wire \o pipe, Note("window"))
      BY <1>2, PutLast
    <3> DEFINE u == wire \o pipe
    <3>2. u \in Seq(Message)
      BY <1>2
    <3> HIDE DEF u, said
    <3>3. applying \o Append(u, Note("window")) = Append(applying \o u, Note("window"))
      BY <1>2, <3>2, PutLast
    <3>4. applying \o u \in Seq(Message)
      BY <1>2, <3>2, ConcatProperties
    <3>5. Comes(Append(applying \o u, Note("window")), known, shown, canvas, {})
      BY <3>4, ComesAnew
    <3> QED BY <3>1, <3>3, <3>5 DEF u
  <2> HIDE DEF said
  <2>8. Comes(applying \o (wire \o pipe'), known, shown, canvas, CellsOf(canvas))
    BY <1>2, <2>1, <2>5, <2>6, <2>7, EmitShows
  <2>9. ShownInv'
    BY <1>1, <2>4, <2>8 DEF ShownInv, Coming
  <2> QED BY <1>3, <2>3, <2>9
<1>5. CASE ~announced
  <2>1. UNCHANGED <<pipe, inFlight, pending, sentWidth>>
    BY <1>5 DEF Resync
  <2>2. Sent' = Sent
    BY <1>1, <2>1 DEF Sent, CellsOf
  <2>3. NothingHeld' /\ GoneInv' /\ ShownInv' /\ ResizedHeld'
    BY <1>1, <1>5, <2>1, <2>2 DEF NothingHeld, GoneInv, ShownInv, ResizedHeld, CellsOf
  <2> QED BY <1>3, <2>3
<1> QED BY <1>4, <1>5

\* A resync asked for stays asked for while only acknowledgements are read.
LEMMA StillAsked ==
  ASSUME NEW s \in Seq(Word), s # <<>>, NEW i \in 1..Len(s), s[i] = "resync", Head(s) # "resync"
  PROVE  \E k \in 1..Len(Tail(s)) : Tail(s)[k] = "resync"
<1>1. /\ Len(s) \in Nat /\ Head(s) = s[1] /\ Len(Tail(s)) = Len(s) - 1
      /\ \A k \in 1..Len(s) - 1 : Tail(s)[k] = s[k + 1]
  BY HeadTailProperties
<1>2. i # 1
  BY <1>1
<1>3. i - 1 \in 1..Len(s) - 1 /\ (i - 1) + 1 = i
  BY <1>1, <1>2
<1> QED BY <1>1, <1>3

\* An acknowledgement lets out what was held back; a resync lets out all.
LEMMA CompositorReadsShows == ASSUME Inv, PictureInv, CompositorReads PROVE PictureInv'
<1>1. /\ back # <<>> /\ back' = Tail(back) /\ back \in Seq(Word)
      /\ UNCHANGED <<drawn, redrawn, pageVars, wire, link>>
  BY QueuesTyped DEF CompositorReads, Inv
<1>2. CASE Head(back) = "ack"
  <2>1. Acknowledged
    BY <1>2 DEF CompositorReads
  <2>2. Asked => Asked'
    BY <1>1, <1>2, StillAsked DEF Asked
  <2> QED BY <1>1, <2>1, <2>2, AcknowledgedShows
<1>3. CASE Head(back) # "ack"
  <2>1. Resync
    BY <1>3 DEF CompositorReads
  <2> QED BY <1>1, <2>1, ResyncShows
<1> QED BY <1>2, <1>3

\* So does giving up on a frame.
LEMMA GivesUpShows == ASSUME Inv, PictureInv, GivesUp PROVE PictureInv'
<1>1. Acknowledged /\ UNCHANGED <<drawn, redrawn, pageVars, wire, link>> /\ back' = back
  BY DEF GivesUp
<1>2. Asked => Asked'
  BY <1>1 DEF Asked
<1> QED BY <1>1, <1>2, AcknowledgedShows

\* Releasing the application sends nothing.
LEMMA ReleasesStaleShows == ASSUME PictureInv, ReleasesStale PROVE PictureInv'
<1>1. /\ drawn' = drawn /\ canvas' = canvas /\ announced' = announced /\ inFlight' = inFlight
      /\ redrawn' = redrawn /\ sentWidth' = sentWidth /\ pending' = pending /\ applying' = applying /\ wire' = wire /\ pipe' = pipe
      /\ known' = known /\ shown' = shown /\ link' = link /\ back' = back
  BY DEF ReleasesStale, pageVars, netVars
<1>2. Coming' = Coming /\ Sent' = Sent /\ Asked' = Asked
  BY <1>1 DEF Coming, Sent, CellsOf, Asked
<1> QED BY <1>1, <1>2
        DEF PictureInv, KeptCopy, ResizedHeld, NothingHeld, QueuesInv, GoneInv, ShownInv, CellsOf

\* The node keeps the order of what it relays, and drops it while there is no
\* page.
LEMMA NodeRelaysShows == ASSUME Inv, PictureInv, NodeRelays PROVE PictureInv'
<1> USE DEF PictureInv
<1>1. /\ pipe # <<>> /\ pipe' = Tail(pipe)
      /\ wire' = IF link = "down" THEN wire ELSE Append(wire, Head(pipe))
      /\ drawn' = drawn /\ canvas' = canvas /\ announced' = announced /\ inFlight' = inFlight
      /\ redrawn' = redrawn /\ sentWidth' = sentWidth /\ pending' = pending /\ applying' = applying /\ back' = back
      /\ known' = known /\ shown' = shown /\ link' = link
  BY DEF NodeRelays, appVars, compVars, pageVars
<1>2. /\ pipe \in Seq(Message) /\ wire \in Seq(Message) /\ applying \in Seq(Message)
  BY QueuesTyped DEF Inv
<1>3. Sent' = Sent /\ Asked' = Asked
  BY <1>1 DEF Sent, CellsOf, Asked
<1>4. KeptCopy' /\ ResizedHeld' /\ NothingHeld' /\ QueuesInv'
  BY <1>1, <1>3 DEF KeptCopy, ResizedHeld, NothingHeld, QueuesInv, CellsOf
<1>5. CASE link # "down"
  <2>1. wire' \o pipe' = wire \o pipe
    BY <1>1, <1>2, <1>5, HandedOn
  <2>2. GoneInv' /\ ShownInv'
    BY <1>1, <1>3, <2>1 DEF GoneInv, ShownInv, Coming
  <2> QED BY <1>4, <2>2
<1>6. CASE link = "down"
  <2>1. ShownInv'
    BY <1>1, <1>6 DEF ShownInv
  <2>2. GoneInv'
    <3> SUFFICES ASSUME ~announced PROVE Goes(wire \o Tail(pipe), FALSE)
      BY <1>1, <1>6 DEF GoneInv
    <3>1. wire = <<>>
      BY <1>6 DEF QueuesInv
    <3>2. Goes(wire \o pipe, FALSE)
      BY <1>6 DEF GoneInv
    <3>3. wire \o pipe = pipe
      BY <1>2, <3>1, ConcatEmptySeq
    <3>4. Tail(pipe) \in Seq(Message) /\ Without(pipe, Tail(pipe), 0, Head(pipe))
      BY <1>1, <1>2, WithoutHead
    <3>5. wire \o Tail(pipe) = Tail(pipe) /\ Len(Tail(pipe)) \in Nat
      BY <3>1, <3>4, ConcatEmptySeq, LenProperties
    <3>6. Goes(Tail(pipe), FALSE)
      <4> DEFINE m == Head(pipe)
                 r == Tail(pipe)
      <4>1. Without(pipe, r, 0, m) /\ Len(r) \in Nat /\ Goes(pipe, FALSE)
        BY <3>2, <3>3, <3>4, <3>5
      <4>2. m.kind # "window" => ~FALSE \/ (~Going(m) /\ (FALSE => FALSE))
        OBVIOUS
      <4> HIDE DEF m, r
      <4>3. Goes(r, FALSE)
        BY <4>1, <4>2, GoesOn
      <4> QED BY <4>3 DEF r
    <3> QED BY <3>5, <3>6
  <2> QED BY <1>4, <2>1, <2>2
<1> QED BY <1>5, <1>6

\* An acknowledgement relayed takes no resync away.
LEMMA NodeRelaysAckShows == ASSUME Inv, PictureInv, NodeRelaysAck PROVE PictureInv'
<1>1. /\ back' = Append(back, "ack") /\ back \in Seq(Word) /\ "ack" \in Word
      /\ UNCHANGED <<appVars, compVars, pageVars, pipe, wire, link>>
  BY QueuesTyped DEF NodeRelaysAck, Inv, Word
<1>2. /\ Len(back') = Len(back) + 1 /\ \A i \in 1..Len(back) : back'[i] = back[i]
      /\ Len(back) \in Nat
  BY <1>1, AppendProperties
<1>3. Asked => Asked'
  BY <1>2 DEF Asked
<1> QED BY <1>1, <1>3, PictureKept

\* A new connection asks for everything.
LEMMA AttachShows == ASSUME Inv, PictureInv, Attach PROVE PictureInv'
<1> USE DEF PictureInv
<1>1. /\ link = "down" /\ link' = "opening" /\ wire' = <<Note("opened")>> /\ pipe' = pipe
      /\ back' = Append(back, "resync") /\ back \in Seq(Word) /\ "resync" \in Word
      /\ drawn' = drawn /\ canvas' = canvas /\ announced' = announced /\ inFlight' = inFlight
      /\ redrawn' = redrawn /\ sentWidth' = sentWidth /\ pending' = pending /\ applying' = applying /\ known' = known /\ shown' = shown
  BY QueuesTyped DEF Attach, Inv, Word, appVars, compVars, pageVars
<1>2. Sent' = Sent
  BY <1>1 DEF Sent, CellsOf
<1>3. KeptCopy' /\ ResizedHeld' /\ NothingHeld' /\ QueuesInv'
  BY <1>1, <1>2 DEF KeptCopy, ResizedHeld, NothingHeld, QueuesInv, CellsOf
<1>4. Asked'
  <2>1. Len(back') = Len(back) + 1 /\ back'[Len(back) + 1] = "resync" /\ Len(back) \in Nat
    BY <1>1, AppendProperties
  <2> QED BY <2>1 DEF Asked
<1>5. ShownInv'
  BY <1>4 DEF ShownInv
<1>6. GoneInv'
  <2>0. (known' /\ link' # "down") = known
    <3>1. known \in BOOLEAN
      BY DEF Inv, TypeOK
    <3> QED BY <1>1, <3>1
  <2> SUFFICES ASSUME ~announced PROVE Goes(<<Note("opened")>> \o pipe, known)
    BY <1>1, <2>0 DEF GoneInv
  <2>1. pipe \in Seq(Message) /\ wire = <<>>
    BY <1>1, QueuesTyped DEF QueuesInv, Inv
  <2>2. Goes(wire \o pipe, FALSE)
    BY <1>1 DEF GoneInv
  <2>3. wire \o pipe = pipe
    BY <2>1, ConcatEmptySeq
  <2>4. Goes(pipe, FALSE)
    BY <2>2, <2>3
  <2> QED BY <2>1, <2>4, GoesReopened
<1> QED BY <1>3, <1>5, <1>6

\* A dropped one owes the page nothing.
LEMMA DropShows == ASSUME Inv, PictureInv, Drop PROVE PictureInv'
<1> USE DEF PictureInv
<1>1. /\ link' = "down" /\ wire' = <<>> /\ pipe' = pipe
      /\ drawn' = drawn /\ canvas' = canvas /\ announced' = announced /\ inFlight' = inFlight
      /\ redrawn' = redrawn /\ sentWidth' = sentWidth /\ pending' = pending /\ applying' = applying
  BY DEF Drop, appVars, compVars, pageVars
<1>2. Sent' = Sent
  BY <1>1 DEF Sent, CellsOf
<1>3. KeptCopy' /\ ResizedHeld' /\ NothingHeld' /\ QueuesInv' /\ ShownInv'
  BY <1>1, <1>2 DEF KeptCopy, ResizedHeld, NothingHeld, QueuesInv, ShownInv, CellsOf
<1>4. GoneInv'
  <2>0. (known' /\ link' # "down") = FALSE
    BY <1>1
  <2> SUFFICES ASSUME ~announced PROVE Goes(wire' \o pipe, FALSE)
    BY <1>1, <2>0 DEF GoneInv
  <2> DEFINE kn == known /\ link # "down"
  <2>1. pipe \in Seq(Message) /\ wire \in Seq(Message)
    BY QueuesTyped DEF Inv
  <2>2. Goes(wire \o pipe, kn)
    BY DEF GoneInv
  <2> HIDE DEF kn
  <2>3. Goes(pipe, FALSE)
    BY <2>1, <2>2, GoesCut
  <2>4. wire' \o pipe = pipe
    BY <1>1, <2>1, ConcatEmptySeq
  <2> QED BY <2>3, <2>4
<1> QED BY <1>3, <1>4

\* Reading moves a frame to the chain, or opens or closes the surface at its
\* place in the order.
LEMMA PageReadsShows == ASSUME Inv, PictureInv, PageReads PROVE PictureInv'
<1> USE DEF PictureInv
<1> DEFINE m == Head(wire)
           t == wire \o pipe
<1>1. /\ pipe \in Seq(Message) /\ wire \in Seq(Message) /\ applying \in Seq(Message)
      /\ t \in Seq(Message) /\ wire # <<>> /\ m \in Message /\ Tail(wire) \in Seq(Message)
      /\ known \in BOOLEAN
  <2>1. wire # <<>>
    BY DEF PageReads
  <2>2. /\ pipe \in Seq(Message) /\ wire \in Seq(Message) /\ applying \in Seq(Message)
        /\ t \in Seq(Message)
    BY QueuesTyped DEF Inv
  <2> QED BY <2>1, <2>2, HeadTailProperties DEF Inv, TypeOK
<1>2. /\ wire' = Tail(wire) /\ pipe' = pipe
      /\ link' = IF m.kind = "opened" THEN "up" ELSE link
      /\ applying' = IF m.kind = "frame" THEN Append(applying, m) ELSE applying
      /\ known' = CASE m.kind = "window" -> TRUE
                    [] m.kind \in {"hidden", "opened"} -> FALSE
                    [] OTHER -> known
      /\ shown' = IF m.kind = "frame" \/ (m.kind = "window" /\ known) THEN shown ELSE <<>>
      /\ drawn' = drawn /\ canvas' = canvas /\ announced' = announced /\ inFlight' = inFlight
      /\ pending' = pending /\ back' = back /\ redrawn' = redrawn /\ sentWidth' = sentWidth
  BY DEF PageReads, Chained, appVars, compVars
<1>3. link # "down" /\ link' # "down"
  BY <1>1, <1>2 DEF QueuesInv
<1>4. Sent' = Sent /\ Asked' = Asked
  BY <1>2 DEF Sent, CellsOf, Asked
<1>5. KeptCopy' /\ ResizedHeld' /\ NothingHeld'
  BY <1>2, <1>4 DEF KeptCopy, ResizedHeld, NothingHeld, CellsOf
<1>6. m.kind \in {"frame", "window", "hidden", "opened"}
  BY <1>1 DEF Message
<1>7. known' \in BOOLEAN /\ (m.kind = "window" => known') /\ (Going(m) => ~known')
      /\ (m.kind = "frame" => known' = known /\ shown' = shown)
      /\ (known /\ m.kind = "window" => shown' = shown)
  BY <1>1, <1>2, <1>6 DEF Going
<1>8. /\ t # <<>> /\ Head(t) = m /\ Tail(t) = Tail(wire) \o pipe /\ Tail(t) \in Seq(Message)
      /\ Len(Tail(t)) \in Nat
  <2>1. t # <<>> /\ Head(t) = m /\ Tail(t) = Tail(wire) \o pipe
    BY <1>1, HeadFirst
  <2>2. Tail(t) \in Seq(Message)
    BY <1>1, <2>1, HeadTailProperties
  <2> HIDE DEF t
  <2> QED BY <2>1, <2>2, LenProperties
<1>9. wire' \o pipe' = Tail(t)
  BY <1>2, <1>8
<1>10. QueuesInv'
  <2>1. ASSUME m.kind = "frame", NEW x \in 1..Len(applying') PROVE applying'[x].kind = "frame"
    <3>1. /\ applying' = Append(applying, m)
      BY <1>2, <2>1
    <3>2. /\ Len(applying') = Len(applying) + 1 /\ Len(applying) \in Nat
          /\ \A i \in 1..Len(applying) : applying'[i] = applying[i]
          /\ applying'[Len(applying) + 1] = m
      BY <1>1, <3>1, AppendProperties
    <3>3. x \in 1..Len(applying) \/ x = Len(applying) + 1
      BY <2>1, <3>2
    <3> QED BY <2>1, <3>2, <3>3 DEF QueuesInv
  <2>2. m.kind # "frame" => applying' = applying
    BY <1>2
  <2> QED BY <1>3, <2>1, <2>2 DEF QueuesInv
<1> HIDE DEF m, t
<1>11. GoneInv'
  <2> SUFFICES ASSUME ~announced PROVE Goes(Tail(t), known')
    BY <1>2, <1>3, <1>7, <1>9 DEF GoneInv
  <2>1. Goes(t, known)
    BY <1>1, <1>3 DEF GoneInv, t
  <2>2. Without(t, Tail(t), 0, m)
    BY <1>1, <1>8, WithoutHead
  <2>3. m.kind # "window" => ~known' \/ (~Going(m) /\ (known' => known))
    BY <1>6, <1>7 DEF Going
  <2> DEFINE r == Tail(t)
             knows == known'
  <2>4. Without(t, r, 0, m) /\ Len(r) \in Nat
        /\ (m.kind # "window" => ~knows \/ (~Going(m) /\ (knows => known)))
    BY <1>8, <2>2, <2>3
  <2> HIDE DEF r, knows
  <2>5. Goes(r, knows)
    BY <2>1, <2>4, GoesOn
  <2> QED BY <2>5 DEF r, knows
<1>12. ShownInv'
  <2> SUFFICES ASSUME announced, ~Asked PROVE Comes(Coming', known', shown', canvas, Sent)
    BY <1>2, <1>4 DEF ShownInv
  <2>1. Comes(applying \o t, known, shown, canvas, Sent)
    BY <1>3 DEF ShownInv, Coming, t
  <2>2. CASE m.kind = "frame"
    <3>0. applying' = Append(applying, Head(t)) /\ wire' \o pipe' = Tail(t)
      BY <1>2, <1>8, <1>9, <2>2
    <3>a. Append(applying, Head(t)) \o Tail(t) = applying \o t
      BY <1>1, <1>8, HandedOn
    <3>1. applying' \o (wire' \o pipe') = applying \o t
      BY <3>0, <3>a
    <3> QED BY <1>7, <2>1, <2>2, <3>1 DEF Coming
  <2>3. CASE m.kind # "frame"
    <3> DEFINE q == applying \o t
               r == applying \o Tail(t)
               a == Len(applying)
               knows == known'
               after == shown'
               X == Sent
    <3>1. Coming' = r
      BY <1>2, <1>9, <2>3 DEF Coming
    <3>2. Without(q, r, a, m)
      BY <1>1, <1>8, WithoutMiddle
    <3>3. Len(r) \in Nat
      <4>1. r \in Seq(Message)
        BY <1>1, <1>8, ConcatProperties
      <4> QED BY <4>1, LenProperties
    <3>4. \A x \in 1..a : q[x].kind = "frame"
      <4>1. /\ a \in Nat /\ Len(t) \in Nat
            /\ \A x \in 1..a + Len(t) : q[x] = IF x <= a THEN applying[x] ELSE t[x - a]
        BY <1>1, ConcatProperties
      <4> QED BY <4>1 DEF QueuesInv
    <3>5. knows \in BOOLEAN /\ (m.kind = "window" => knows)
      BY <1>7
    <3>6. known /\ ~Going(m) => knows /\ after = shown
      BY <1>6, <1>7, <2>3 DEF Going
    <3>7. Comes(q, known, shown, canvas, X)
      BY <2>1
    <3> HIDE DEF q, r, a, knows, after, X
    <3>8. Comes(r, knows, after, canvas, X)
      BY <1>1, <2>3, <3>2, <3>3, <3>4, <3>5, <3>6, <3>7, ComesRead
    <3> QED BY <3>1, <3>8 DEF knows, after, X
  <2> QED BY <2>2, <2>3
<1> QED BY <1>5, <1>10, <1>11, <1>12

\* Drawing a frame puts its cells where they were expected.
LEMMA PageAppliesShows == ASSUME Inv, PictureInv, PageApplies PROVE PictureInv'
<1> USE DEF PictureInv
<1> DEFINE m == Head(applying)
           n == Len(m.cells)
           under == IF Len(shown) = n THEN shown ELSE Blanked(n)
           t == wire \o pipe
<1>1. /\ applying \in Seq(Message) /\ t \in Seq(Message) /\ applying # <<>>
      /\ m \in Message /\ Tail(applying) \in Seq(Message) /\ known \in BOOLEAN
      /\ shown \in Picture /\ canvas \in Picture
  <2>1. applying # <<>>
    BY DEF PageApplies
  <2>2. applying \in Seq(Message) /\ t \in Seq(Message) /\ shown \in Picture /\ canvas \in Picture
    BY QueuesTyped DEF Inv
  <2> QED BY <2>1, <2>2, HeadTailProperties DEF Inv, TypeOK
<1>2. /\ applying' = Tail(applying) /\ wire' = wire /\ pipe' = pipe /\ link' = link
      /\ shown' = (IF known THEN Landed(under, m.d, m.cells) ELSE shown) /\ known' = known
      /\ drawn' = drawn /\ canvas' = canvas /\ announced' = announced /\ inFlight' = inFlight
      /\ pending' = pending /\ back' = back /\ redrawn' = redrawn /\ sentWidth' = sentWidth
  BY DEF PageApplies, appVars, compVars
<1>3. Sent' = Sent /\ Asked' = Asked
  BY <1>2 DEF Sent, CellsOf, Asked
<1>4. KeptCopy' /\ ResizedHeld' /\ NothingHeld' /\ GoneInv'
  BY <1>2, <1>3 DEF KeptCopy, ResizedHeld, NothingHeld, GoneInv, CellsOf
<1>5. /\ m = applying[1] /\ Len(applying) \in Nat /\ Len(applying) > 0
      /\ Len(applying') = Len(applying) - 1
      /\ \A i \in 1..Len(applying) - 1 : applying'[i] = applying[i + 1]
  BY <1>1, <1>2, HeadTailProperties
<1>6. m.kind = "frame" /\ QueuesInv'
  <2>1. m.kind = "frame"
    BY <1>5 DEF QueuesInv
  <2>2. \A i \in 1..Len(applying') : applying'[i].kind = "frame"
    BY <1>5 DEF QueuesInv
  <2> QED BY <1>2, <2>1, <2>2 DEF QueuesInv
<1>7. n \in Nat /\ Len(under) = n
  <2>1. n \in Nat
    BY <1>1 DEF Message, Picture
  <2> QED BY <2>1, BlankedTyped
<1>8. known => Len(shown') = n
               /\ \A i \in 1..n : shown'[i] = IF Covers(m, i) THEN m.cells[i] ELSE under[i]
  <2> HIDE DEF under
  <2> QED BY <1>2, <1>7 DEF Landed, Covers
<1>9. ShownInv'
  <2> SUFFICES ASSUME announced, link # "down", ~Asked
               PROVE  Comes(Coming', known, shown', canvas, Sent)
    BY <1>2, <1>3 DEF ShownInv
  <2> DEFINE q == applying \o t
             r == Tail(applying) \o t
             after == shown'
             X == Sent
  <2>1. Coming' = r /\ Comes(q, known, shown, canvas, X)
    BY <1>2 DEF ShownInv, Coming
  <2>2. Without(q, r, 0, m) /\ Len(r) \in Nat
    <3>1. q \in Seq(Message) /\ q # <<>> /\ Head(q) = m /\ Tail(q) = r
      BY <1>1, HeadFirst
    <3> HIDE DEF q, r, m
    <3>2. Tail(q) \in Seq(Message) /\ Without(q, Tail(q), 0, Head(q))
      BY <3>1, WithoutHead
    <3>3. Len(Tail(q)) \in Nat
      BY <3>2, LenProperties
    <3> QED BY <3>1, <3>2, <3>3
  <2>3. known /\ Len(m.cells) = Len(canvas) => Len(after) = Len(canvas)
    BY <1>8
  <2>4. known => \A i \in X : Len(m.cells) = Len(canvas) => after[i] =
                   IF Covers(m, i) THEN m.cells[i]
                   ELSE IF Len(shown) = Len(canvas) THEN shown[i] ELSE after[i]
    <3> SUFFICES ASSUME known, NEW i \in X, n = Len(canvas)
                 PROVE  after[i] = IF Covers(m, i) THEN m.cells[i]
                                   ELSE IF Len(shown) = n THEN shown[i] ELSE after[i]
      OBVIOUS
    <3>1. i \in 1..n
      BY DEF Sent, CellsOf
    <3>2. after[i] = IF Covers(m, i) THEN m.cells[i] ELSE under[i]
      BY <1>8, <3>1
    <3>3. Len(shown) = n => under = shown
      OBVIOUS
    <3> HIDE DEF under, after, n, m
    <3> QED BY <3>2, <3>3
  <2> HIDE DEF q, r, after, X, m
  <2>5. Comes(r, known, after, canvas, X)
    BY <1>1, <1>6, <2>1, <2>2, <2>3, <2>4, ComesDrawn
  <2> QED BY <2>1, <2>5 DEF after, X
<1> QED BY <1>4, <1>6, <1>9

\* At first there is no surface.
LEMMA InitShows == ASSUME Init PROVE PictureInv
<1>1. KeptCopy /\ ResizedHeld /\ QueuesInv
  BY DEF Init, KeptCopy, ResizedHeld, QueuesInv
<1>2. Sent = {} /\ CellsOf(canvas) = {}
  BY DEF Init, Sent, CellsOf
<1>3. NothingHeld /\ ShownInv
  BY <1>2 DEF Init, NothingHeld, ShownInv
<1>4. GoneInv
  <2>1. wire \o pipe = <<>>
    BY DEF Init
  <2>2. Goes(<<>>, FALSE)
    BY DEF Goes
  <2>3. (known /\ link # "down") = FALSE
    BY DEF Init
  <2> QED BY <2>1, <2>2, <2>3 DEF GoneInv
<1> QED BY <1>1, <1>3, <1>4 DEF PictureInv

\* Every step keeps the picture on its way.
LEMMA StepShows ==
  ASSUME Inv, PictureInv, [Next]_vars
  PROVE  PictureInv'
<1>1. CASE Next
  BY <1>1, CommitShows, HideShows, CompositorReadsShows, ReleasesStaleShows, GivesUpShows,
     NodeRelaysShows, NodeRelaysAckShows, AttachShows, DropShows, PageReadsShows,
     PageAppliesShows DEF Next
<1>2. CASE UNCHANGED vars
  <2>1. UNCHANGED <<appVars, compVars, pageVars, pipe, wire, link>> /\ back' = back
    BY <1>2 DEF vars, netVars
  <2>2. Asked => Asked'
    BY <2>1 DEF Asked
  <2> QED BY <2>1, <2>2, PictureKept
<1> QED BY <1>1, <1>2

\* With nothing on its way and nothing held back, the page shows the copy.
LEMMA QuietShows ==
  ASSUME Inv, PictureInv, Quiet, ~inFlight
  PROVE  IF drawn = <<>> THEN ~known ELSE known /\ shown = canvas /\ (redrawn => shown = drawn)
<1> USE DEF PictureInv
<1>1. /\ link = "up" /\ pipe = <<>> /\ wire = <<>> /\ applying = <<>> /\ back = <<>>
      /\ wire \o pipe = <<>> /\ Coming = <<>> /\ ~Asked
  BY DEF Quiet, Coming, Asked
<1>2. /\ announced <=> canvas # <<>>
      /\ canvas = <<>> <=> drawn = <<>>
      /\ canvas \in Picture /\ shown \in Picture
  BY QueuesTyped DEF KeptCopy, Inv, TypeOK, Picture
<1>3. CASE drawn = <<>>
  <2>1. Goes(<<>>, known /\ link # "down")
    BY <1>1, <1>2, <1>3 DEF GoneInv
  <2>2. ~(known /\ link # "down")
    <3> DEFINE kn == known /\ link # "down"
    <3>1. Goes(<<>>, kn)
      BY <2>1
    <3> HIDE DEF kn
    <3>2. ~kn
      BY <3>1 DEF Goes
    <3> QED BY <3>2 DEF kn
  <2> QED BY <1>1, <1>3, <2>2
<1>4. CASE drawn # <<>>
  <2>1. Comes(<<>>, known, shown, canvas, CellsOf(canvas))
    BY <1>1, <1>2, <1>4 DEF ShownInv, NothingHeld
  <2>2. PICK j \in 0..Len(<<>>) : Opens(<<>>, known, j)
                                  /\ \A i \in CellsOf(canvas) : Settles(<<>>, shown, canvas, j, i)
    BY <2>1 DEF Comes
  <2>3. j = 0 /\ known
    BY <2>2 DEF Opens
  <2>4. ASSUME NEW i \in CellsOf(canvas) PROVE Len(shown) = Len(canvas) /\ shown[i] = canvas[i]
    BY <2>2, <2>4 DEF Settles
  <2>5. 1 \in CellsOf(canvas)
    BY <1>2, <1>4 DEF CellsOf, Picture
  <2>6. Len(shown) = Len(canvas)
    BY <2>4, <2>5
  <2>7. shown = canvas
    BY <1>2, <2>4, <2>6, SeqEqual DEF CellsOf, Picture
  <2> QED BY <1>4, <2>3, <2>7 DEF KeptCopy
<1> QED BY <1>3, <1>4

\* Whenever nothing is on its way and none in flight, the page shows what the compositor has
\* kept of the window, or nothing once it is hidden: through damage held, clamped and merged
\* behind a frame, sizes that change back, connections dropped with frames on them, resyncs,
\* stale acknowledgements and frames given up on. It is the application's last picture if
\* that was drawn whole since its size last changed (wdcomp.c, emit_frame_ipc, emit_canvas_rect
\* and surface_acknowledged; client/src/apps/wayland/index.ts, applyFrame).
THEOREM PictureHolds == Spec => []PictureCatchesUp
<1>1. Init => Inv /\ PictureInv
  BY InitInv, InitShows
<1>2. (Inv /\ PictureInv) /\ [Next]_vars => (Inv /\ PictureInv)'
  BY StepInv, StepShows
<1>3. Inv /\ PictureInv => PictureCatchesUp
  BY QuietShows DEF PictureCatchesUp
<1> QED BY <1>1, <1>2, <1>3, PTL DEF Spec
=============================================================================
