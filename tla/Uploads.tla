------------------------------- MODULE Uploads -------------------------------
(***************************************************************************)
(* Files sent to the server (server/src/transfer.ts, uploadTo of           *)
(* client/src/core/transfer.ts): the name each gets, the file it fills and *)
(* the one a failed upload takes away. Pages upload at the same time; each *)
(* sends its files, here all of one name, one after the other.             *)
(***************************************************************************)
EXTENDS Naturals

CONSTANTS
  Pages,
  ToSend,        \* bound: files a page sends
  Names,         \* bound: "report", "report (1)", ...; 1000 in the code
  RemovesEarly   \* somebody removes a file that is still being uploaded

\* What the constants have to be; where the module is instantiated it is assumed.
UploadsAssumption ==
  ToSend \in Nat /\ Names \in Nat \ {0} /\ RemovesEarly \in BOOLEAN

VARIABLES
  there,       \* per name, the upload whose file it is, or Absent
  upload,      \* per page, the name of the current upload and what it is at
  sent,        \* per page, the uploads that are over
  owed         \* the uploads reported to have arrived, and not removed since

uploadVars == <<there, upload, sent, owed>>

Absent == [of |-> <<>>, whole |-> FALSE]
NoUpload == [at |-> "none", name |-> 0]

Init ==
  /\ there = [k \in 1..Names |-> Absent]
  /\ upload = [p \in Pages |-> NoUpload]
  /\ sent = [p \in Pages |-> 0] /\ owed = {}

This(p) == <<p, sent[p]>>
Holds(p, k) == there[k] # Absent /\ there[k].of = This(p)
Free == {k \in 1..Names : there[k] = Absent}

\* Mutant of OpenUnique: `w` where the code has `wx`.
OpenAnyway == 1

\* The first name that did not exist.
OpenUnique == CHOOSE k \in Free : \A j \in Free : k <= j

\* handleUpload(); without a name left the request fails.
Starts(p) ==
  /\ upload[p] = NoUpload /\ sent[p] < ToSend
  /\ IF Free = {} THEN sent' = [sent EXCEPT ![p] = @ + 1] /\ UNCHANGED <<there, upload>>
     ELSE /\ there' = [there EXCEPT ![OpenUnique] = [of |-> This(p), whole |-> FALSE]]
          /\ upload' = [upload EXCEPT ![p] = [at |-> "writing", name |-> OpenUnique]]
          /\ UNCHANGED sent
  /\ UNCHANGED owed

\* The page goes, or the disk is full: what there is, is to be unlinked.
Fails(p) ==
  /\ upload[p].at = "writing"
  /\ upload' = [upload EXCEPT ![p].at = "failed"]
  /\ UNCHANGED <<there, sent, owed>>

Over(p) == upload' = [upload EXCEPT ![p] = NoUpload] /\ sent' = [sent EXCEPT ![p] = @ + 1]

\* Mutant of Unlinked: the file is left behind.
NothingUnlinked(p) == there

\* By its name, whoever it belongs to by now.
Unlinked(p) == [there EXCEPT ![upload[p].name] = Absent]

Unlinks(p) ==
  /\ upload[p].at = "failed"
  /\ there' = Unlinked(p) /\ Over(p) /\ UNCHANGED owed

\* `finish`, and the page hears of it or not.
Finishes(p) ==
  /\ upload[p].at = "writing" /\ Over(p)
  /\ LET k == upload[p].name
     IN IF Holds(p, k)
        THEN /\ there' = [there EXCEPT ![k].whole = TRUE]
             /\ owed' \in {owed, owed \cup {[of |-> This(p), name |-> k]}}
        ELSE UNCHANGED <<there, owed>>

BeingWritten(k) == \E p \in Pages : upload[p].at # "none" /\ upload[p].name = k /\ Holds(p, k)

Removes(k) ==
  /\ there[k] # Absent /\ (BeingWritten(k) => RemovesEarly)
  /\ there' = [there EXCEPT ![k] = Absent]
  /\ owed' = {o \in owed : o.name # k}
  /\ UNCHANGED <<upload, sent>>

Next ==
  \/ \E p \in Pages : Starts(p) \/ Fails(p) \/ Unlinks(p) \/ Finishes(p)
  \/ \E k \in 1..Names : Removes(k)

Spec == Init /\ [][Next]_uploadVars

\* An upload that was reported is in the file it was reported to be, whatever
\* else is uploaded or fails (transfer.ts 80-84); and every file is one that is being
\* written or was written whole (126).
UploadsStayApart ==
  /\ \A o \in owed : there[o.name] = [of |-> o.of, whole |-> TRUE]
  /\ \A k \in 1..Names : there[k] # Absent => there[k].whole \/ BeingWritten(k)
=============================================================================
