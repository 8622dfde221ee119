---------------------------- MODULE JournalStream ----------------------------
(***************************************************************************)
(* What is sent of the journal (server/src/services/journal.ts): the run   *)
(* of journalctl that reads the backlog, the one that follows from its     *)
(* last entry, the batches. The entries that match are 1, 2, ... in the    *)
(* order they are logged; lines and their chunks are left out. The window  *)
(* is JournalViewer's.                                                     *)
(***************************************************************************)
EXTENDS Naturals, Sequences

CONSTANTS
  Entries,       \* bound: entries logged
  BacklogLines,         \* the backlog asked for
  BatchSize,     \* MAX_PER_FLUSH
  EarlyExit      \* a child may be reported to have ended before what it wrote is read

\* What the constants have to be; where the module is instantiated it is assumed.
JournalStreamAssumption ==
  /\ {Entries, BacklogLines, BatchSize} \subseteq Nat \ {0} /\ EarlyExit \in BOOLEAN

VARIABLES
  follows,       \* filters.follow
  logged,        \* entries there are
  run,           \* "backlog", "follow" or "over"
  next,          \* the next entry the child reads
  ends,          \* the last one the backlog has, or Open
  pipes,         \* per run, what it wrote and is not read yet
  lastCursor, batch, dropped,
  sentOn,        \* what the channel was given, in order: entries and Done
  taken,         \* how much of it the browser has taken
  streamClosed

streamVars == <<follows, logged, run, next, ends, pipes, lastCursor, batch, dropped, sentOn,
                taken, streamClosed>>

Open == Entries + 1
Done == 0
Larger(a, b) == IF a > b THEN a ELSE b
FirstOf(n) == Larger(1, n + 1 - BacklogLines)

Init ==
  /\ follows \in BOOLEAN /\ logged \in 0..Entries
  /\ run = "backlog" /\ next = FirstOf(logged) /\ ends = logged
  /\ pipes = [r \in {"backlog", "follow"} |-> <<>>]
  /\ lastCursor = 0 /\ batch = <<>> /\ dropped = 0
  /\ sentOn = <<>> /\ taken = 0 /\ streamClosed = FALSE

Logs ==
  /\ logged < Entries /\ logged' = logged + 1
  /\ UNCHANGED <<follows, run, next, ends, pipes, lastCursor, batch, dropped, sentOn, taken, streamClosed>>

ChildWrites ==
  /\ run \in {"backlog", "follow"} /\ next <= logged /\ next <= ends
  /\ pipes' = [pipes EXCEPT ![run] = Append(@, next)] /\ next' = next + 1
  /\ UNCHANGED <<follows, logged, run, ends, lastCursor, batch, dropped, sentOn, taken, streamClosed>>

\* queue(): a batch that is full goes at once.
Queue(entry) ==
  /\ lastCursor' = entry
  /\ IF Len(batch) >= 4 * BatchSize
     THEN dropped' = dropped + 1 /\ UNCHANGED <<batch, sentOn>>
     ELSE IF Len(batch) + 1 >= BatchSize
     THEN sentOn' = sentOn \o Append(batch, entry) /\ batch' = <<>> /\ dropped' = 0
     ELSE batch' = Append(batch, entry) /\ UNCHANGED <<dropped, sentOn>>

Reads(r) ==
  /\ pipes[r] # <<>> /\ pipes' = [pipes EXCEPT ![r] = Tail(@)]
  /\ Queue(Head(pipes[r]))
  /\ UNCHANGED <<follows, logged, run, next, ends, taken, streamClosed>>

\* flush(), by its timer.
Flushes ==
  /\ batch # <<>> /\ ~streamClosed
  /\ sentOn' = sentOn \o batch /\ batch' = <<>> /\ dropped' = 0
  /\ UNCHANGED <<follows, logged, run, next, ends, pipes, lastCursor, taken, streamClosed>>

\* Mutant of Resumes: from the entries there are by then.
ResumesFromNow == logged + 1

\* follow(): after the last entry read; without one, since the backlog was asked for.
Resumes == IF lastCursor # 0 THEN lastCursor + 1 ELSE ends + 1

\* The backlog's child has ended.
BacklogEnds ==
  /\ run = "backlog" /\ next > ends /\ ~streamClosed
  /\ pipes["backlog"] = <<>> \/ EarlyExit
  /\ sentOn' = sentOn \o batch \o <<Done>> /\ batch' = <<>> /\ dropped' = 0
  /\ IF follows THEN run' = "follow" /\ next' = Resumes /\ ends' = Open /\ UNCHANGED streamClosed
     ELSE run' = "over" /\ streamClosed' = TRUE /\ UNCHANGED <<next, ends>>
  /\ UNCHANGED <<follows, logged, pipes, lastCursor, taken>>

\* journalctl fails, whatever it was doing; or the panel goes: stop().
Stops ==
  /\ ~streamClosed /\ streamClosed' = TRUE /\ run' = "over"
  /\ UNCHANGED <<follows, logged, next, ends, pipes, lastCursor, batch, dropped, sentOn, taken>>

BrowserTakes ==
  /\ taken < Len(sentOn) /\ taken' = taken + 1
  /\ UNCHANGED <<follows, logged, run, next, ends, pipes, lastCursor, batch, dropped, sentOn, streamClosed>>

Next ==
  \/ Logs \/ ChildWrites \/ Flushes \/ BacklogEnds \/ Stops \/ BrowserTakes
  \/ \E r \in DOMAIN pipes : Reads(r)

Spec == Init /\ [][Next]_streamVars

\* What is sent at a place is an entry, and `to` is the place of the next one.
IsEntry(k) == k \in DOMAIN sentOn /\ sentOn[k] # Done
OnlyDone(ks) == \A k \in ks : sentOn[k] = Done
NextAfter(k, to) == IsEntry(k) /\ IsEntry(to) /\ k < to /\ OnlyDone(k + 1 .. to - 1)
IsLastEntry(k) == IsEntry(k) /\ OnlyDone(k + 1 .. Len(sentOn))

\* The entries come one after the other, none twice and none left out, across the
\* end of one journalctl and the start of the next; and before "nothing matched" may
\* be said the whole backlog is there (journal.ts 287-296).
NoneTwiceNoneMissing ==
  /\ \A j, k \in DOMAIN sentOn : NextAfter(j, k) => sentOn[k] = sentOn[j] + 1
  /\ (run = "follow" /\ pipes["follow"] = <<>> /\ batch = <<>>)
       => \A k \in DOMAIN sentOn : IsLastEntry(k) => sentOn[k] = next - 1
  /\ \A k \in DOMAIN sentOn :
       sentOn[k] = Done /\ k < Len(sentOn) => \A j \in 1..k - 1 : sentOn[j] < sentOn[k + 1]

\* "A flood that outruns the batch is counted rather than queued without bound"
\* (journal.ts, on queue()). A batch that is full goes at once, so that it never
\* reaches the length at which entries are counted; what a browser has not taken
\* is held by its channel, however much it is.
HeldIsBounded == Len(sentOn) - taken + Len(batch) <= 4 * BatchSize + 1
=============================================================================
