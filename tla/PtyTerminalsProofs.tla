------------------------ MODULE PtyTerminalsProofs ------------------------
(***************************************************************************)
(* What holds of the shells of a server for any number of shells, sessions *)
(* and ids. TermInv and ChanInv tie the two ends of the link between a     *)
(* shell and the channel that shows it; every property follows from them.  *)
(***************************************************************************)
EXTENDS PtyTerminals, TLAPS

\* A channel is a pair.
LEMMA ChanIsPair ==
  ASSUME NEW c \in Chans
  PROVE  c[1] \in Sessions /\ c[2] \in Ids /\ c # None
BY PtyAssumption DEF Chans

\* onClose() keeps the tables of shells typed.
LEMMA OnCloseType ==
  ASSUME TypeOK, NEW C \in SUBSET Chans, NEW lost \in BOOLEAN, OnClose(C, lost)
  PROVE  /\ proc' = proc /\ keep' = keep
         /\ alive' \in [Terms -> BOOLEAN] /\ grace' \in [Terms -> BOOLEAN]
         /\ ctx' \in [Terms -> Chans \cup {None}]
         /\ owner' \in [Terms -> Sessions \cup {None}]
<1>1. ctx' \in [Terms -> Chans \cup {None}]
  BY DEF OnClose, TypeOK
<1>2. owner' \in [Terms -> Sessions \cup {None}]
  BY DEF OnClose, Disown, TypeOK
<1>3. alive' \in [Terms -> BOOLEAN]
  <2> DEFINE kept(t) == alive[t] /\ (t \in {u \in Held(C) : alive[u]} => Spared(t, lost))
  <2>1. \A t \in Terms : kept(t) \in BOOLEAN
    OBVIOUS
  <2>2. alive' = [t \in Terms |-> kept(t)]
    BY DEF OnClose
  <2> QED BY <2>1, <2>2
<1>4. grace' \in [Terms -> BOOLEAN]
  <2> DEFINE clock(t) == grace[t] \/ (t \in {u \in Held(C) : alive[u]} /\ Spared(t, lost) /\ WaitsOnTimer(t))
  <2>1. \A t \in Terms : clock(t) \in BOOLEAN
    OBVIOUS
  <2>2. grace' = [t \in Terms |-> clock(t)]
    BY DEF OnClose
  <2> QED BY <2>1, <2>2
<1> QED BY <1>1, <1>2, <1>3, <1>4 DEF OnClose

\* attach() keeps them typed.
LEMMA ClaimType ==
  ASSUME TypeOK, NEW t \in Terms, NEW c \in Chans, Claim(t, c)
  PROVE  /\ terminalGrace' = terminalGrace /\ gone' = gone
         /\ chan' \in [Chans -> {"none", "placeholder", "overtaken", "live", "closed"}]
         /\ term' \in [Chans -> Terms \cup {None}]
         /\ ctx' \in [Terms -> Chans \cup {None}]
         /\ owner' \in [Terms -> Sessions \cup {None}]
         /\ grace' \in [Terms -> BOOLEAN]
<1>1. chan' \in [Chans -> {"none", "placeholder", "overtaken", "live", "closed"}]
  BY DEF Claim, Displace, Closed, TypeOK
<1>2. term' \in [Chans -> Terms \cup {None}] /\ ctx' \in [Terms -> Chans \cup {None}]
  BY DEF Claim, TypeOK
<1>3. owner' \in [Terms -> Sessions \cup {None}] /\ grace' \in [Terms -> BOOLEAN]
  BY ChanIsPair DEF Claim, OwnerOf, ClaimTimer, TypeOK
<1> QED BY <1>1, <1>2, <1>3 DEF Claim

\* Every step keeps the types.
LEMMA TypeStep ==
  ASSUME TypeOK, Next
  PROVE  TypeOK'
<1>1. ASSUME NEW t \in Terms, NEW c \in Chans, Spawn(t, c) PROVE TypeOK'
  BY <1>1, ClaimType DEF Spawn, TypeOK
<1>2. ASSUME NEW t \in Terms, NEW c \in Chans, Attach(t, c) PROVE TypeOK'
  BY <1>2, ClaimType DEF Attach, TypeOK
<1>3. ASSUME NEW t \in Terms, NEW c \in Chans, AttachFails(t, c) PROVE TypeOK'
  BY <1>3 DEF AttachFails, TypeOK, termVars
<1>4. ASSUME NEW c \in Chans, Resume(c) PROVE TypeOK'
  <2>1. CASE UNCHANGED termVars
    BY <1>4, <2>1 DEF Resume, TypeOK, termVars
  <2>2. CASE OnClose({c}, FALSE)
    BY <1>4, <2>2, OnCloseType DEF Resume, TypeOK
  <2> QED BY <1>4, <2>1, <2>2 DEF Resume
<1>5. ASSUME NEW c \in Chans, WindowCloses(c) PROVE TypeOK'
  <2>1. CASE UNCHANGED termVars
    BY <1>5, <2>1 DEF WindowCloses, TypeOK, termVars
  <2>2. CASE OnClose({c}, FALSE)
    BY <1>5, <2>2, OnCloseType DEF WindowCloses, TypeOK
  <2> QED BY <1>5, <2>1, <2>2 DEF WindowCloses
<1>6. ASSUME NEW t \in Terms, NEW s \in Sessions, Keep(t, s) PROVE TypeOK'
  BY <1>6 DEF Keep, TypeOK, chanVars
<1>7. ASSUME NEW s \in Sessions, SessionDrops(s) PROVE TypeOK'
  <2> DEFINE C == {c \in Chans : c[1] = s /\ chan[c] = "live"}
  <2>1. /\ terminalGrace' \in {"zero", "finite", "forever"}
        /\ gone' \subseteq Sessions
        /\ chan' \in [Chans -> {"none", "placeholder", "overtaken", "live", "closed"}]
        /\ term' \in [Chans -> Terms \cup {None}]
    BY <1>7 DEF SessionDrops, TypeOK
  <2>2. OnClose(C, TRUE)
    BY <1>7 DEF SessionDrops
  <2> QED BY <2>1, <2>2, OnCloseType DEF TypeOK
<1>8. ASSUME NEW t \in Terms, GraceElapses(t) PROVE TypeOK'
  BY <1>8 DEF GraceElapses, TypeOK, chanVars
<1>9. ASSUME NEW t \in Terms, Exits(t) PROVE TypeOK'
  BY <1>9 DEF Exits, TypeOK
<1> QED BY <1>1, <1>2, <1>3, <1>4, <1>5, <1>6, <1>7, <1>8, <1>9 DEF Next

\* Shells, channels and sessions keep their types, however many there are.
THEOREM TypeCorrect == Spec => []TypeOK
<1>1. Init => TypeOK
  BY DEF Init, TypeOK
<1>2. TypeOK /\ [Next]_vars => TypeOK'
  <2>1. CASE UNCHANGED vars
    BY <2>1 DEF TypeOK, vars, chanVars, termVars
  <2> QED BY <2>1, TypeStep
<1> QED BY <1>1, <1>2, PTL DEF Spec

-----------------------------------------------------------------------------
(* The two ends of a window.                                               *)

\* A shell and the channel it believes to be shown by.
TermInv(t) ==
  /\ alive[t] => proc[t] = "running"
  /\ proc[t] = "unborn" => ~keep[t]
  /\ ctx[t] # None =>
       /\ alive[t] /\ ~grace[t] /\ term[ctx[t]] = t
       /\ chan[ctx[t]] \in {"placeholder", "overtaken", "live"}
  /\ owner[t] = IF ctx[t] = None THEN None ELSE ctx[t][1]
  /\ grace[t] => alive[t] /\ ~keep[t]
  /\ alive[t] /\ ctx[t] = None => grace[t] \/ keep[t] \/ terminalGrace = "forever"

\* A channel and the shell it shows.
ChanInv(c) ==
  chan[c] \in {"placeholder", "live"} =>
    term[c] \in Terms /\ alive[term[c]] /\ ctx[term[c]] = c

Inv == (\A t \in Terms : TermInv(t)) /\ (\A c \in Chans : ChanInv(c))

\* onClose(), shell by shell.
LEMMA OnCloseAt ==
  ASSUME TypeOK, NEW C \in SUBSET Chans, NEW lost \in BOOLEAN, OnClose(C, lost), NEW u \in Terms
  PROVE  /\ proc'[u] = proc[u] /\ keep'[u] = keep[u]
         /\ ctx[u] \in C =>
              /\ ctx'[u] = None /\ owner'[u] = None
              /\ alive'[u] = (alive[u] /\ Spared(u, lost))
              /\ grace'[u] = (grace[u] \/ (alive[u] /\ Spared(u, lost) /\ WaitsOnTimer(u)))
         /\ ctx[u] \notin C =>
              /\ ctx'[u] = ctx[u] /\ owner'[u] = owner[u]
              /\ alive'[u] = alive[u] /\ grace'[u] = grace[u]
<1>1. alive[u] \in BOOLEAN /\ grace[u] \in BOOLEAN
  BY DEF TypeOK
<1>2. /\ proc'[u] = proc[u] /\ keep'[u] = keep[u]
      /\ ctx'[u] = IF ctx[u] \in C THEN None ELSE ctx[u]
      /\ owner'[u] = IF ctx[u] \in C THEN None ELSE owner[u]
  BY DEF OnClose, Disown, Held
<1>3. u \in {v \in Held(C) : alive[v]} <=> ctx[u] \in C /\ alive[u]
  BY DEF Held
<1>4. /\ alive'[u] = (alive[u] /\ (ctx[u] \in C /\ alive[u] => Spared(u, lost)))
      /\ grace'[u] = (grace[u] \/ (ctx[u] \in C /\ alive[u] /\ Spared(u, lost) /\ WaitsOnTimer(u)))
  BY <1>3, Zenon DEF OnClose
<1> HIDE DEF OnClose
<1> QED BY <1>1, <1>2, <1>4, Zenon

\* Channels C that end, for whatever reason, leave the rest as it was.
LEMMA OnCloseInv ==
  ASSUME TypeOK, Inv, NEW C \in SUBSET Chans, NEW lost \in BOOLEAN, OnClose(C, lost),
         UNCHANGED <<terminalGrace, term>>,
         \A c \in Chans : chan'[c] = IF c \in C THEN "closed" ELSE chan[c]
  PROVE  Inv'
<1>1. ASSUME NEW u \in Terms PROVE TermInv(u)'
  <2>1. TermInv(u)
    BY DEF Inv
  <2>2. CASE ctx[u] \in C
    <3>1. ctx[u] # None
      BY <2>2, ChanIsPair
    <3>2. /\ proc'[u] = proc[u] /\ keep'[u] = keep[u]
          /\ ctx'[u] = None /\ owner'[u] = None
          /\ alive'[u] = (alive[u] /\ Spared(u, lost))
          /\ grace'[u] = (grace[u] \/ (alive[u] /\ Spared(u, lost) /\ WaitsOnTimer(u)))
      BY <2>2, OnCloseAt
    <3>3. IF Spared(u, lost)
            THEN alive'[u] = TRUE /\ (grace'[u] <=> WaitsOnTimer(u))
            ELSE alive'[u] = FALSE /\ grace'[u] = FALSE
      <4>1. alive[u] = TRUE /\ grace[u] = FALSE
        BY <2>1, <3>1 DEF TermInv, TypeOK
      <4>2. alive'[u] = (TRUE /\ Spared(u, lost))
        BY <3>2, <4>1
      <4>3. grace'[u] = (FALSE \/ (TRUE /\ Spared(u, lost) /\ WaitsOnTimer(u)))
        BY <3>2, <4>1
      <4>4. CASE Spared(u, lost)
        BY <4>2, <4>3, <4>4
      <4>5. CASE ~Spared(u, lost)
        BY <4>2, <4>3, <4>5
      <4> QED BY <4>4, <4>5
    <3>4. Spared(u, lost) => keep[u] \/ terminalGrace \in {"finite", "forever"}
      BY DEF Spared, TypeOK
    <3> QED BY <2>1, <3>1, <3>2, <3>3, <3>4 DEF TermInv, WaitsOnTimer
  <2>3. CASE ctx[u] \notin C
    <3>1. /\ proc'[u] = proc[u] /\ keep'[u] = keep[u] /\ ctx'[u] = ctx[u]
          /\ owner'[u] = owner[u] /\ alive'[u] = alive[u] /\ grace'[u] = grace[u]
      BY <2>3, OnCloseAt
    <3>2. ctx[u] # None => chan'[ctx[u]] = chan[ctx[u]]
      BY <2>3 DEF TypeOK
    <3> QED BY <2>1, <3>1, <3>2 DEF TermInv
  <2> QED BY <2>2, <2>3
<1>2. ASSUME NEW d \in Chans PROVE ChanInv(d)'
  <2>1. ChanInv(d)
    BY DEF Inv
  <2>2. CASE d \in C
    BY <2>2 DEF ChanInv
  <2>3. CASE d \notin C
    <3>1. SUFFICES ASSUME chan[d] \in {"placeholder", "live"}
          PROVE  term'[d] \in Terms /\ alive'[term'[d]] /\ ctx'[term'[d]] = d
      BY <2>3 DEF ChanInv
    <3>2. term[d] \in Terms /\ alive[term[d]] /\ ctx[term[d]] = d
      BY <2>1, <3>1 DEF ChanInv
    <3>3. alive'[term[d]] = alive[term[d]] /\ ctx'[term[d]] = ctx[term[d]]
      <4> DEFINE u == term[d]
      <4>1. u \in Terms /\ ctx[u] \notin C
        BY <2>3, <3>2
      <4> HIDE DEF u
      <4>2. alive'[u] = alive[u] /\ ctx'[u] = ctx[u]
        BY <4>1, OnCloseAt
      <4> QED BY <4>2 DEF u
    <3> QED BY <3>2, <3>3
  <2> QED BY <2>2, <2>3
<1> QED BY <1>1, <1>2 DEF Inv

\* attach(): the shell t gets the channel c, which nothing has used.
LEMMA ClaimInv ==
  ASSUME TypeOK, Inv, NEW t \in Terms, NEW c \in Chans, Claim(t, c), chan[c] = "none",
         alive' = [alive EXCEPT ![t] = TRUE], proc' = [proc EXCEPT ![t] = "running"],
         UNCHANGED keep
  PROVE  Inv'
<1>1. /\ ctx' = [ctx EXCEPT ![t] = c] /\ owner' = [owner EXCEPT ![t] = c[1]]
      /\ grace' = [grace EXCEPT ![t] = FALSE] /\ term' = [term EXCEPT ![c] = t]
      /\ terminalGrace' = terminalGrace
  BY DEF Claim, OwnerOf, ClaimTimer
<1>2. \A d \in Chans : chan'[d] = IF d = c THEN "placeholder"
                                  ELSE IF d = ctx[t] THEN Closed(chan[d]) ELSE chan[d]
  BY DEF Claim, Displace
<1>3. c # None
  BY ChanIsPair
<1>4. \A u \in Terms : ctx[u] # c
  BY <1>3 DEF Inv, TermInv
<1>5. ASSUME NEW u \in Terms PROVE TermInv(u)'
  <2>1. TermInv(u)
    BY DEF Inv
  <2>2. CASE u = t
    <3>1. /\ ctx'[u] = c /\ owner'[u] = c[1] /\ grace'[u] = FALSE
          /\ alive'[u] = TRUE /\ proc'[u] = "running" /\ keep'[u] = keep[u]
      BY <1>1, <2>2 DEF TypeOK
    <3>2. term'[c] = t /\ chan'[c] = "placeholder"
      BY <1>1, <1>2 DEF TypeOK
    <3> QED BY <1>3, <2>2, <3>1, <3>2 DEF TermInv
  <2>3. CASE u # t
    <3>1. /\ ctx'[u] = ctx[u] /\ owner'[u] = owner[u] /\ grace'[u] = grace[u]
          /\ alive'[u] = alive[u] /\ proc'[u] = proc[u] /\ keep'[u] = keep[u]
      BY <1>1, <2>3 DEF TypeOK
    <3>2. ASSUME ctx[u] # None
          PROVE  term'[ctx[u]] = term[ctx[u]] /\ chan'[ctx[u]] = chan[ctx[u]]
      <4>1. ctx[u] \in Chans /\ ctx[u] # c
        BY <1>4, <3>2 DEF TypeOK
      <4>2. ctx[u] # ctx[t]
        BY <2>1, <2>3, <3>2 DEF Inv, TermInv
      <4> QED BY <1>1, <1>2, <4>1, <4>2 DEF TypeOK
    <3> QED BY <1>1, <2>1, <3>1, <3>2 DEF TermInv
  <2> QED BY <2>2, <2>3
<1>6. ASSUME NEW d \in Chans PROVE ChanInv(d)'
  <2>1. ChanInv(d)
    BY DEF Inv
  <2>2. CASE d = c
    <3>1. term'[d] = t /\ alive'[t] = TRUE /\ ctx'[t] = d
      BY <1>1, <2>2 DEF TypeOK
    <3> QED BY <3>1 DEF ChanInv
  <2>3. CASE d # c /\ d = ctx[t]
    BY <1>2, <2>3 DEF ChanInv, Closed
  <2>4. CASE d # c /\ d # ctx[t]
    <3>1. chan'[d] = chan[d] /\ term'[d] = term[d]
      BY <1>1, <1>2, <2>4 DEF TypeOK
    <3>2. ASSUME chan[d] \in {"placeholder", "live"}
          PROVE  alive'[term[d]] = alive[term[d]] /\ ctx'[term[d]] = ctx[term[d]]
      <4>1. term[d] \in Terms /\ term[d] # t
        BY <2>1, <2>4, <3>2 DEF ChanInv
      <4> QED BY <1>1, <4>1 DEF TypeOK
    <3> QED BY <2>1, <3>1, <3>2 DEF ChanInv
  <2> QED BY <2>2, <2>3, <2>4
<1> QED BY <1>5, <1>6 DEF Inv

\* Steps that leave the shells alone and no window holding one.
LEMMA ChannelOnlyInv ==
  ASSUME TypeOK, Inv, NEW c \in Chans, UNCHANGED <<terminalGrace, term, termVars>>,
         \/ chan[c] = "placeholder" /\ chan' = [chan EXCEPT ![c] = "live"]
         \/ chan[c] = "placeholder" /\ chan' = [chan EXCEPT ![c] = "overtaken"]
         \/ chan[c] = "none" /\ chan' = [chan EXCEPT ![c] = "closed"]
  PROVE  Inv'
<1>1. ASSUME NEW u \in Terms PROVE TermInv(u)'
  <2>1. TermInv(u)
    BY DEF Inv
  <2>2. ctx[u] # None => chan'[ctx[u]] \in {"placeholder", "overtaken", "live"}
    BY <2>1 DEF TermInv, TypeOK
  <2> QED BY <2>1, <2>2 DEF TermInv, termVars
<1>2. ASSUME NEW d \in Chans PROVE ChanInv(d)'
  <2>1. ChanInv(d)
    BY DEF Inv
  <2>2. chan'[d] \in {"placeholder", "live"} => chan[d] \in {"placeholder", "live"}
    BY DEF TypeOK
  <2> QED BY <2>1, <2>2 DEF ChanInv, termVars
<1> QED BY <1>1, <1>2 DEF Inv

\* keep() is for a shell that is shown, so no clock runs.
LEMMA KeepInv ==
  ASSUME TypeOK, Inv, NEW t \in Terms, NEW s \in Sessions, Keep(t, s)
  PROVE  Inv'
<1>1. /\ keep' = [keep EXCEPT ![t] = ~keep[t]] /\ proc[t] = "running" /\ owner[t] = s
      /\ UNCHANGED <<terminalGrace, chan, term, proc, alive, ctx, owner, grace>>
  BY DEF Keep, MayKeep, chanVars
<1>2. ctx[t] # None
  BY <1>1, PtyAssumption DEF Inv, TermInv
<1>3. ASSUME NEW u \in Terms PROVE TermInv(u)'
  <2>1. TermInv(u)
    BY DEF Inv
  <2>2. u # t => keep'[u] = keep[u]
    BY <1>1 DEF TypeOK
  <2> QED BY <1>1, <1>2, <2>1, <2>2 DEF TermInv
<1>4. ASSUME NEW d \in Chans PROVE ChanInv(d)'
  BY <1>1 DEF Inv, ChanInv
<1> QED BY <1>3, <1>4 DEF Inv

\* The clock of a shell runs only while nothing shows it.
LEMMA GraceElapsesInv ==
  ASSUME TypeOK, Inv, NEW t \in Terms, GraceElapses(t)
  PROVE  Inv'
<1>1. /\ grace[t] /\ grace' = [grace EXCEPT ![t] = FALSE] /\ alive' = [alive EXCEPT ![t] = FALSE]
      /\ UNCHANGED <<terminalGrace, chan, term, proc, ctx, owner, keep>>
  BY DEF GraceElapses, chanVars
<1>2. ctx[t] = None
  BY <1>1 DEF Inv, TermInv
<1>3. ASSUME NEW u \in Terms PROVE TermInv(u)'
  <2>1. TermInv(u)
    BY DEF Inv
  <2>2. CASE u = t
    <3>1. alive'[u] = FALSE /\ grace'[u] = FALSE
      BY <1>1, <2>2 DEF TypeOK
    <3> QED BY <1>1, <1>2, <2>1, <2>2, <3>1 DEF TermInv
  <2>3. CASE u # t
    <3>1. alive'[u] = alive[u] /\ grace'[u] = grace[u]
      BY <1>1, <2>3 DEF TypeOK
    <3> QED BY <1>1, <2>1, <3>1 DEF TermInv
  <2> QED BY <2>2, <2>3
<1>4. ASSUME NEW d \in Chans PROVE ChanInv(d)'
  <2>1. ChanInv(d)
    BY DEF Inv
  <2>2. ASSUME chan[d] \in {"placeholder", "live"} PROVE alive'[term[d]] = alive[term[d]]
    <3>1. term[d] # t /\ term[d] \in Terms
      BY <1>2, <2>1, <2>2, ChanIsPair DEF ChanInv
    <3> QED BY <1>1, <3>1 DEF TypeOK
  <2> QED BY <1>1, <2>1, <2>2 DEF ChanInv
<1> QED BY <1>3, <1>4 DEF Inv

\* A shell that exits takes the window that shows it along.
LEMMA ExitsInv ==
  ASSUME TypeOK, Inv, NEW t \in Terms, Exits(t)
  PROVE  Inv'
<1>1. /\ proc' = [proc EXCEPT ![t] = "exited"]
      /\ alive' = [alive EXCEPT ![t] = FALSE] /\ grace' = [grace EXCEPT ![t] = FALSE]
      /\ ctx' = [ctx EXCEPT ![t] = None] /\ owner' = [owner EXCEPT ![t] = None]
      /\ chan' = [c \in Chans |-> IF c = ctx[t] THEN "closed" ELSE chan[c]]
      /\ UNCHANGED <<terminalGrace, term, keep>>
  BY DEF Exits
<1>2. ASSUME NEW u \in Terms, u # t
      PROVE  /\ proc'[u] = proc[u] /\ alive'[u] = alive[u] /\ grace'[u] = grace[u]
             /\ ctx'[u] = ctx[u] /\ owner'[u] = owner[u]
  BY <1>1, <1>2 DEF TypeOK
<1>3. ASSUME NEW u \in Terms PROVE TermInv(u)'
  <2>1. TermInv(u)
    BY DEF Inv
  <2>2. CASE u = t
    <3>1. /\ proc'[u] = "exited" /\ alive'[u] = FALSE /\ grace'[u] = FALSE
          /\ ctx'[u] = None /\ owner'[u] = None
      BY <1>1, <2>2 DEF TypeOK
    <3> QED BY <3>1 DEF TermInv
  <2>3. CASE u # t
    <3>1. ctx[u] # None => chan'[ctx[u]] = chan[ctx[u]]
      <4>1. ctx[u] # None => ctx[u] \in Chans /\ ctx[u] # ctx[t]
        BY <2>1, <2>3 DEF TypeOK, Inv, TermInv
      <4> QED BY <1>1, <4>1
    <3> QED BY <1>1, <1>2, <2>1, <2>3, <3>1 DEF TermInv
  <2> QED BY <2>2, <2>3
<1>4. ASSUME NEW d \in Chans PROVE ChanInv(d)'
  <2>1. ChanInv(d)
    BY DEF Inv
  <2>2. CASE d = ctx[t]
    BY <1>1, <2>2 DEF ChanInv
  <2>3. CASE d # ctx[t]
    <3>1. ASSUME chan[d] \in {"placeholder", "live"}
          PROVE  alive'[term[d]] = alive[term[d]] /\ ctx'[term[d]] = ctx[term[d]]
      BY <1>2, <2>1, <2>3, <3>1 DEF ChanInv
    <3> QED BY <1>1, <2>1, <2>3, <3>1 DEF ChanInv
  <2> QED BY <2>2, <2>3
<1> QED BY <1>3, <1>4 DEF Inv

\* Every step preserves the inductive invariant.
LEMMA InvStep ==
  ASSUME TypeOK, Inv, Next
  PROVE  Inv'
<1>1. ASSUME NEW t \in Terms, NEW c \in Chans, Spawn(t, c) PROVE Inv'
  BY <1>1, ClaimInv DEF Spawn
<1>2. ASSUME NEW t \in Terms, NEW c \in Chans, Attach(t, c) PROVE Inv'
  <2>1. alive = [alive EXCEPT ![t] = TRUE] /\ proc = [proc EXCEPT ![t] = "running"]
    BY <1>2 DEF Attach, TypeOK
  <2> QED BY <1>2, <2>1, ClaimInv DEF Attach
<1>3. ASSUME NEW t \in Terms, NEW c \in Chans, AttachFails(t, c) PROVE Inv'
  BY <1>3, ChannelOnlyInv DEF AttachFails
<1>4. ASSUME NEW c \in Chans, Resume(c) PROVE Inv'
  <2>1. CASE chan[c] = "placeholder"
    <3>1. chan' = [chan EXCEPT ![c] = "live"] /\ UNCHANGED <<terminalGrace, term, termVars>>
      BY <1>4, <2>1 DEF Resume
    <3> QED BY <2>1, <3>1, ChannelOnlyInv
  <2>2. CASE chan[c] = "overtaken"
    <3>1. chan' = [chan EXCEPT ![c] = "closed"] /\ OnClose({c}, FALSE) /\ UNCHANGED <<terminalGrace, term>>
      BY <1>4, <2>2 DEF Resume
    <3>2. \A d \in Chans : chan'[d] = IF d \in {c} THEN "closed" ELSE chan[d]
      BY <3>1 DEF TypeOK
    <3> QED BY <3>1, <3>2, OnCloseInv
  <2> QED BY <1>4, <2>1, <2>2 DEF Resume
<1>5. ASSUME NEW c \in Chans, WindowCloses(c) PROVE Inv'
  <2>1. CASE chan[c] = "placeholder"
    <3>1. chan' = [chan EXCEPT ![c] = "overtaken"] /\ UNCHANGED <<terminalGrace, term, termVars>>
      BY <1>5, <2>1 DEF WindowCloses
    <3> QED BY <2>1, <3>1, ChannelOnlyInv
  <2>2. CASE chan[c] = "live"
    <3>1. chan' = [chan EXCEPT ![c] = "closed"] /\ OnClose({c}, FALSE) /\ UNCHANGED <<terminalGrace, term>>
      BY <1>5, <2>2 DEF WindowCloses
    <3>2. \A d \in Chans : chan'[d] = IF d \in {c} THEN "closed" ELSE chan[d]
      BY <3>1 DEF TypeOK
    <3> QED BY <3>1, <3>2, OnCloseInv
  <2> QED BY <1>5, <2>1, <2>2 DEF WindowCloses
<1>6. ASSUME NEW s \in Sessions, SessionDrops(s) PROVE Inv'
  <2> DEFINE C == {c \in Chans : c[1] = s /\ chan[c] = "live"}
  <2>1. OnClose(C, TRUE) /\ UNCHANGED <<terminalGrace, term>>
    BY <1>6 DEF SessionDrops
  <2>2. \A d \in Chans : chan'[d] = IF d \in C THEN "closed" ELSE chan[d]
    BY <1>6 DEF SessionDrops
  <2>3. C \in SUBSET Chans
    OBVIOUS
  <2> HIDE DEF C
  <2> QED BY <2>1, <2>2, <2>3, OnCloseInv
<1> QED BY <1>1, <1>2, <1>3, <1>4, <1>5, <1>6, KeepInv, GraceElapsesInv, ExitsInv DEF Next

\* The inductive invariant holds, however many shells, sessions and channels.
THEOREM InvCorrect == Spec => []Inv
<1>1. Init => Inv
  BY DEF Init, Inv, TermInv, ChanInv
<1>2. TypeOK /\ Inv /\ [Next]_vars => Inv'
  <2>1. CASE UNCHANGED vars
    BY <2>1 DEF Inv, TermInv, ChanInv, vars, chanVars, termVars
  <2> QED BY <2>1, InvStep
<1> QED BY <1>1, <1>2, TypeCorrect, PTL DEF Spec

\* A living shell without a window has a clock running or may wait for good.
THEOREM NobodyForgotten == Spec => []NobodyWaitsForgotten
<1>1. Inv => NobodyWaitsForgotten
  BY DEF Inv, TermInv, NobodyWaitsForgotten
<1> QED BY <1>1, InvCorrect, PTL

\* No grace period runs for a shell that is shown or marked to be kept.
THEOREM ClockOnlyWhenAlone == Spec => []NoClockUnderAWindow
<1>1. Inv => NoClockUnderAWindow
  BY DEF Inv, TermInv, NoClockUnderAWindow
<1> QED BY <1>1, InvCorrect, PTL

\* Every window that is up holds a living shell, and no two hold the same.
THEOREM WindowsHoldTheirShells == Spec => []LiveWindowHoldsItsShell
<1>1. Inv => LiveWindowHoldsItsShell
  BY DEF Inv, ChanInv, LiveWindowHoldsItsShell
<1> QED BY <1>1, InvCorrect, PTL

\* Only the connection whose window shows a shell owns it.
THEOREM OwnersHoldTheirShells == Spec => []OwnerHoldsTheShell
<1>1. Inv => OwnerHoldsTheShell
  BY DEF Inv, TermInv, OwnerHoldsTheShell
<1> QED BY <1>1, InvCorrect, PTL

-----------------------------------------------------------------------------
(* A server's shells live the life ShellLife describes.                    *)

\* `life` of one shell.
LEMMA LifeAt ==
  ASSUME TypeOK, NEW t \in Terms
  PROVE  /\ proc[t] = "unborn" => life[t] = "unborn"
         /\ proc[t] = "exited" => life[t] = "dead"
         /\ proc[t] = "running" /\ ~alive[t] => life[t] = "hungup"
         /\ proc[t] = "running" /\ alive[t] /\ ctx[t] = None => life[t] = "alone"
         /\ proc[t] = "running" /\ alive[t] /\ ctx[t] # None => life[t] = "shown"
         /\ proc[t] \in {"unborn", "running", "exited"}
BY DEF life, TypeOK

\* What one step may do to one shell, in the terms of this module.
ShellStep(t) ==
  \/ UNCHANGED <<proc[t], alive[t], ctx[t], keep[t]>>
  \/ /\ proc[t] = "unborn" \/ (proc[t] = "running" /\ alive[t]) \* Spawn, Attach
     /\ proc'[t] = "running" /\ alive'[t] /\ ctx'[t] # None /\ keep'[t] = keep[t]
  \/ /\ proc[t] = "running" /\ alive[t] /\ ctx[t] # None        \* its window ends
     /\ proc'[t] = "running" /\ ctx'[t] = None /\ keep'[t] = keep[t]
  \/ /\ proc[t] = "running" /\ alive[t] /\ ctx[t] = None        \* GraceElapses
     /\ proc'[t] = "running" /\ ~alive'[t] /\ ~keep[t] /\ keep'[t] = keep[t]
  \/ /\ proc[t] = "running" /\ proc'[t] = "exited"              \* Exits
     /\ keep'[t] = keep[t]
  \/ /\ proc[t] = "running" /\ alive[t] /\ ctx[t] # None        \* Keep
     /\ UNCHANGED <<proc[t], alive[t], ctx[t]>>

\* A step that moves `life` along Moves is a step of ShellLife.
LEMMA ShellStepMoves ==
  ASSUME TypeOK, TypeOK', NEW t \in Terms, ShellStep(t)
  PROVE  Shells!Step(t)
<1>1. /\ proc'[t] = "unborn" => life'[t] = "unborn"
      /\ proc'[t] = "exited" => life'[t] = "dead"
      /\ proc'[t] = "running" /\ ~alive'[t] => life'[t] = "hungup"
      /\ proc'[t] = "running" /\ alive'[t] /\ ctx'[t] = None => life'[t] = "alone"
      /\ proc'[t] = "running" /\ alive'[t] /\ ctx'[t] # None => life'[t] = "shown"
      /\ proc'[t] \in {"unborn", "running", "exited"}
  BY DEF life, TypeOK
<1> QED BY <1>1, LifeAt DEF ShellStep, Shells!Step, Shells!Moves

\* onClose() of any channels, shell by shell: spared, hung up or untouched.
LEMMA OnCloseStep ==
  ASSUME TypeOK, Inv, NEW C \in SUBSET Chans, NEW lost \in BOOLEAN, OnClose(C, lost),
         NEW u \in Terms
  PROVE  ShellStep(u)
<1>1. CASE ctx[u] \in C
  <2>1. ctx[u] # None
    BY <1>1, ChanIsPair
  <2>2. alive[u] /\ proc[u] = "running"
    BY <2>1 DEF Inv, TermInv
  <2>3. proc'[u] = proc[u] /\ keep'[u] = keep[u] /\ ctx'[u] = None
    BY <1>1, OnCloseAt
  <2> QED BY <2>1, <2>2, <2>3 DEF ShellStep
<1>2. CASE ctx[u] \notin C
  BY <1>2, OnCloseAt DEF ShellStep
<1> QED BY <1>1, <1>2

\* Every step is a step of ShellLife for every shell.
LEMMA StepOfShell ==
  ASSUME TypeOK, Inv, Next, NEW u \in Terms
  PROVE  ShellStep(u)
<1>1. ASSUME NEW t \in Terms, NEW c \in Chans, Spawn(t, c) \/ Attach(t, c) PROVE ShellStep(u)
  <2>1. ctx' = [ctx EXCEPT ![t] = c] /\ keep' = keep
    BY <1>1 DEF Spawn, Attach, Claim
  <2>2. CASE u = t
    <3>1. proc[t] = "unborn" \/ (proc[t] = "running" /\ alive[t])
      BY <1>1 DEF Spawn, Attach
    <3>2. proc'[t] = "running" /\ alive'[t]
      <4>1. CASE Spawn(t, c)
        BY <4>1 DEF Spawn, TypeOK
      <4>2. CASE Attach(t, c)
        BY <4>2 DEF Attach
      <4> QED BY <1>1, <4>1, <4>2
    <3>3. ctx'[t] = c /\ c # None
      BY <2>1, ChanIsPair DEF TypeOK
    <3> QED BY <2>1, <2>2, <3>1, <3>2, <3>3 DEF ShellStep
  <2>3. CASE u # t
    <3>1. proc'[u] = proc[u] /\ alive'[u] = alive[u]
      BY <1>1, <2>3 DEF Spawn, Attach, TypeOK
    <3>2. ctx'[u] = ctx[u]
      BY <2>1, <2>3 DEF TypeOK
    <3> QED BY <2>1, <3>1, <3>2 DEF ShellStep
  <2> QED BY <2>2, <2>3
<1>2. ASSUME UNCHANGED termVars PROVE ShellStep(u)
  BY <1>2 DEF termVars, ShellStep
<1>3. ASSUME NEW t \in Terms, NEW s \in Sessions, Keep(t, s) PROVE ShellStep(u)
  <2>1. /\ keep' = [keep EXCEPT ![t] = ~keep[t]] /\ UNCHANGED <<proc, alive, ctx>>
        /\ proc[t] = "running" /\ alive[t] /\ owner[t] = s
    BY <1>3 DEF Keep, MayKeep
  <2>2. ctx[t] # None
    BY <2>1, PtyAssumption DEF Inv, TermInv
  <2>3. u # t => keep'[u] = keep[u]
    BY <2>1 DEF TypeOK
  <2> QED BY <2>1, <2>2, <2>3 DEF ShellStep
<1>4. ASSUME NEW s \in Sessions, SessionDrops(s) PROVE ShellStep(u)
  <2> DEFINE C == {c \in Chans : c[1] = s /\ chan[c] = "live"}
  <2>1. OnClose(C, TRUE) /\ C \in SUBSET Chans
    BY <1>4 DEF SessionDrops
  <2> HIDE DEF C
  <2> QED BY <2>1, OnCloseStep
<1>5. ASSUME NEW t \in Terms, GraceElapses(t) PROVE ShellStep(u)
  <2>1. grace[t] /\ alive' = [alive EXCEPT ![t] = FALSE] /\ UNCHANGED <<proc, ctx, keep>>
    BY <1>5 DEF GraceElapses
  <2>2. alive[t] /\ proc[t] = "running" /\ ctx[t] = None /\ ~keep[t]
    BY <2>1 DEF Inv, TermInv
  <2>3. CASE u = t
    <3>1. alive'[t] = FALSE
      BY <2>1 DEF TypeOK
    <3> QED BY <2>1, <2>2, <2>3, <3>1 DEF ShellStep
  <2>4. CASE u # t
    <3>1. alive'[u] = alive[u]
      BY <2>1, <2>4 DEF TypeOK
    <3> QED BY <2>1, <3>1 DEF ShellStep
  <2> QED BY <2>3, <2>4
<1>6. ASSUME NEW t \in Terms, Exits(t) PROVE ShellStep(u)
  <2>1. /\ proc[t] = "running" /\ proc' = [proc EXCEPT ![t] = "exited"]
        /\ alive' = [alive EXCEPT ![t] = FALSE] /\ ctx' = [ctx EXCEPT ![t] = None]
        /\ UNCHANGED keep
    BY <1>6 DEF Exits
  <2>2. CASE u = t
    BY <2>1, <2>2 DEF ShellStep, TypeOK
  <2>3. CASE u # t
    <3>1. proc'[u] = proc[u] /\ alive'[u] = alive[u] /\ ctx'[u] = ctx[u]
      BY <2>1, <2>3 DEF TypeOK
    <3> QED BY <2>1, <3>1 DEF ShellStep
  <2> QED BY <2>2, <2>3
<1>7. ASSUME NEW c \in Chans, Resume(c) \/ WindowCloses(c) PROVE ShellStep(u)
  <2>1. UNCHANGED termVars \/ OnClose({c}, FALSE)
    BY <1>7 DEF Resume, WindowCloses
  <2> QED BY <1>2, <2>1, OnCloseStep
<1>8. ASSUME NEW t \in Terms, NEW c \in Chans, AttachFails(t, c) PROVE ShellStep(u)
  BY <1>2, <1>8 DEF AttachFails
<1> QED BY <1>1, <1>3, <1>4, <1>5, <1>6, <1>7, <1>8 DEF Next

\* However many windows, connections and shells there are, a shell is hung up
\* only when its window ends or its wait is over, and never while it waits
\* marked to be kept; a hung up one is never shown again.
THEOREM ShellsLiveAsPromised == Spec => ImplementsShellLife
<1>1. Init => Shells!Init
  BY DEF Init, Shells!Init, life
<1>2. TypeOK /\ TypeOK' /\ Inv /\ [Next]_vars
        => [\A t \in Terms : Shells!Step(t)]_<<life, keep>>
  <2>1. CASE UNCHANGED vars
    <3>1. UNCHANGED <<life, keep>>
      BY <2>1 DEF vars, termVars, life
    <3> QED BY <3>1
  <2>2. ASSUME TypeOK, TypeOK', Inv, Next PROVE \A t \in Terms : Shells!Step(t)
    BY <2>2, StepOfShell, ShellStepMoves
  <2> QED BY <2>1, <2>2
<1> QED BY <1>1, <1>2, TypeCorrect, InvCorrect, PTL DEF Spec, ImplementsShellLife, Shells!Spec

\* For every shell, window and connection: a clock runs where nobody would look
\* after the shell otherwise, and none runs under a window.
THEOREM ClocksRight == Spec => []ClocksAreRight
<1> QED BY NobodyForgotten, ClockOnlyWhenAlone, PTL DEF ClocksAreRight
=============================================================================
