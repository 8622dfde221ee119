------------------------------ MODULE BusProxy ------------------------------
(***************************************************************************)
(* One connection of a snap to the machine's bus (server/src/busproxy.ts). *)
(* Every frame goes through, in order, except the calls of the portal,     *)
(* which are answered by FilePortal.tla's into the application's stream;   *)
(* and the owner of the portal's name, by which such a call is recognised, *)
(* learned from a lookup and from NameOwnerChanged. A frame travels in two *)
(* halves, each a chunk of its own. The handshake's lines are left out but *)
(* for its last, and a connection that goes is FilePortal!Leaves.          *)
(***************************************************************************)
EXTENDS Naturals, Sequences

CONSTANTS
  Calls,       \* bound: frames the application sends
  Signals,     \* bound: frames the bus sends of its own
  Owners,      \* bound: owners the portal's name has, one after the other
  Coalesced    \* the answer of the lookup and a signal may be in one chunk

\* What the constants have to be; where the module is instantiated it is assumed.
BusProxyAssumption ==
  Calls \in Nat /\ Signals \in Nat /\ Owners \in Nat /\ Coalesced \in BOOLEAN

VARIABLES
  asks,         \* which of the application's frames are for the portal
  wrote,        \* halves the application has written; the first frame is its Hello
  early, fromClient,
  authed,       \* the bus has let us in
  onward,       \* the frames passed on, in order: each to the bus or to the portal
  helloed, unique,  \* the Hello has gone by; its reply has
  busSends,     \* halves the bus has under way
  fromBus, toApp,   \* the half held; what was written to the application
  nameOwner,    \* at the bus
  ownerNews, ownerName

busVars == <<asks, wrote, early, fromClient, authed, onward, helloed, unique, busSends,
             fromBus, toApp>>
ownerVars == <<nameOwner, ownerNews, ownerName>>
proxyVars == <<busVars, ownerVars>>

Half(k) == <<(k + 1) \div 2, IF k % 2 = 1 THEN "first" ELSE "last">>
Hello == 1

Init ==
  /\ asks \in SUBSET (2..Calls) /\ wrote = 0
  /\ early = <<>> /\ fromClient = <<>> /\ authed = FALSE
  /\ onward = <<>> /\ helloed = FALSE /\ unique = FALSE
  /\ busSends = <<>> /\ fromBus = <<>> /\ toApp = <<>>
  /\ nameOwner = 1 /\ ownerNews = <<[kind |-> "lookup", owner |-> 1]>> /\ ownerName = 0

\* fromClient(), for the halves of `chunk`: the frames that are whole go on, one by one. A
\* frame is as long as its own header says, whatever comes after it: two halves.
FramesOf(hs) == [k \in 1..Len(hs) \div 2 |-> hs[2 * k][1]]
Rest(hs) == SubSeq(hs, 2 * (Len(hs) \div 2) + 1, Len(hs))
Intercepts(frame) == frame \in asks
Onward(frame) == <<frame, IF Intercepts(frame) THEN "portal" ELSE "bus">>

FromClient(chunk) ==
  LET frames == FramesOf(fromClient \o chunk)
  IN /\ fromClient' = Rest(fromClient \o chunk)
     /\ onward' = onward \o [k \in DOMAIN frames |-> Onward(frames[k])]
     /\ helloed' = (helloed \/ \E k \in DOMAIN frames : frames[k] = Hello)

\* Mutant of Kept: what comes before the bus has let us in is dropped.
NoneKept(chunk) == early

\* What is kept of a chunk for later.
Kept(chunk) == early \o chunk

AppWrites ==
  /\ wrote < 2 * Calls /\ wrote' = wrote + 1
  /\ IF authed THEN FromClient(<<Half(wrote + 1)>>) /\ UNCHANGED early
     ELSE early' = Kept(<<Half(wrote + 1)>>) /\ UNCHANGED <<fromClient, onward, helloed>>
  /\ UNCHANGED <<asks, authed, unique, busSends, fromBus, toApp, ownerVars>>

\* The bus answers OK.
LetIn ==
  /\ ~authed /\ authed' = TRUE
  /\ FromClient(early) /\ early' = <<>>
  /\ UNCHANGED <<asks, wrote, unique, busSends, fromBus, toApp, ownerVars>>

\* The bus sends: the reply to a Hello it has had, or a signal.
BusSends(kind) ==
  /\ Len(busSends) + Len(toApp) < 2 * Signals
  /\ kind = "hello" => helloed /\ ~unique /\ \A k \in DOMAIN busSends : busSends[k][1] # "hello"
  /\ busSends' = busSends \o <<<<kind, "first">>, <<kind, "last">>>>
  /\ UNCHANGED <<asks, wrote, early, fromClient, authed, onward, helloed, unique,
                 fromBus, toApp, ownerVars>>

\* Mutant of Passed: a chunk is passed on as it comes.
PassedAtOnce(half) == <<half>>

\* fromBus(): what is written to the application when a half has come.
Passed(half) == IF half[2] = "first" THEN <<>> ELSE fromBus \o <<half>>

FromBus ==
  /\ busSends # <<>> /\ authed
  /\ LET half == Head(busSends)
     IN /\ busSends' = Tail(busSends)
        /\ toApp' = toApp \o Passed(half)
        /\ fromBus' = IF half[2] = "first" THEN <<half>> ELSE <<>>
        /\ unique' = (unique \/ half = <<"hello", "last">>)
  /\ UNCHANGED <<asks, wrote, early, fromClient, authed, onward, helloed, ownerVars>>

\* inject(): an answer of ours, to a connection whose name is known.
Injects ==
  /\ unique /\ (\E k \in DOMAIN onward : onward[k][2] = "portal") /\ Len(busSends) + Len(toApp) < 2 * Signals
  /\ toApp' = toApp \o <<<<"ours", "first">>, <<"ours", "last">>>>
  /\ UNCHANGED <<asks, wrote, early, fromClient, authed, onward, helloed, unique,
                 busSends, fromBus, ownerVars>>

\* The portal's name changes hands at the bus, which tells the control connection.
OwnerChanges ==
  /\ nameOwner < Owners /\ nameOwner' = nameOwner + 1
  /\ ownerNews' = Append(ownerNews, [kind |-> "changed", owner |-> nameOwner + 1])
  /\ UNCHANGED <<busVars, ownerName>>

\* onSignal is called as the chunk is read; open() goes on with the answer of the
\* lookup once the whole chunk has been.
AfterChunk(chunk) ==
  IF Head(chunk).kind = "lookup" THEN Head(chunk).owner ELSE chunk[Len(chunk)].owner

\* Mutant of Learned: the signals are not listened to.
LearnedOnce(chunk) == IF Head(chunk).kind = "lookup" THEN Head(chunk).owner ELSE ownerName

Learned(chunk) == AfterChunk(chunk)

ControlReads(n) ==
  /\ n \in 1..Len(ownerNews)
  /\ (n > 1 /\ Head(ownerNews).kind = "lookup") => Coalesced
  /\ ownerName' = Learned(SubSeq(ownerNews, 1, n))
  /\ ownerNews' = SubSeq(ownerNews, n + 1, Len(ownerNews))
  /\ UNCHANGED <<busVars, nameOwner>>

Next ==
  \/ AppWrites \/ LetIn \/ FromBus \/ Injects \/ OwnerChanges
  \/ \E kind \in {"hello", "signal"} : BusSends(kind)
  \/ \E n \in 1..Owners : ControlReads(n)

Spec == Init /\ [][Next]_proxyVars

\* Nothing an application writes is lost or overtaken, however it is cut up and
\* whenever the bus lets it in (busproxy.ts 263-295), and no answer of ours is
\* written into the middle of a frame of the bus.
StreamsStayWhole ==
  /\ authed => onward = [k \in 1..wrote \div 2 |-> <<k, IF k \in asks THEN "portal" ELSE "bus">>]
  /\ \A k \in DOMAIN toApp : toApp[k][2] = "first" =>
       k < Len(toApp) /\ toApp[k + 1] = <<toApp[k][1], "last">>

\* The owner the portal's answers are signed with is the one the bus has (110-117).
OwnerIsCurrent == ownerNews = <<>> => ownerName = nameOwner
=============================================================================
