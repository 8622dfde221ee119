----------------------------- MODULE ShellLife -----------------------------
(***************************************************************************)
(* What becomes of a shell, as its user sees it: it is shown in a window,  *)
(* waits alone when the window has lost its server, is shown again, and is *)
(* hung up when its window is closed or it has waited too long. A shell    *)
(* that is to be kept is never hung up while it waits, and one that was    *)
(* hung up is never shown again. One step may move several shells: they    *)
(* may share a connection.                                                 *)
(***************************************************************************)
CONSTANT Terms

VARIABLES life, kept

Moves ==
  {<<"unborn", "shown">>,
   <<"shown", "alone">>, <<"alone", "shown">>,
   <<"shown", "hungup">>, <<"alone", "hungup">>,
   <<"shown", "dead">>, <<"alone", "dead">>, <<"hungup", "dead">>}

Init ==
  /\ life = [t \in Terms |-> "unborn"]
  /\ kept = [t \in Terms |-> FALSE]

\* Only the window that shows a shell has a say about keeping it.
Step(t) ==
  /\ \/ life'[t] = life[t]
     \/ <<life[t], life'[t]>> \in Moves
  /\ life[t] = "alone" /\ life'[t] = "hungup" => ~kept[t]
  /\ kept'[t] # kept[t] => life[t] = "shown"

Spec == Init /\ [][\A t \in Terms : Step(t)]_<<life, kept>>
=============================================================================
