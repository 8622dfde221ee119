------------------------------- MODULE Deadman -------------------------------
(***************************************************************************)
(* The limits of a session that was opened by instruction                  *)
(* (server/src/deadman.ts): a number of seconds in all, and a number       *)
(* without a message. The clock is the machine's; it is taken to run true. *)
(***************************************************************************)
EXTENDS Naturals

CONSTANTS
  Limits,   \* what a limit may be set to; 0 is none
  Latest    \* bound: the time

\* What the constants have to be; where the module is instantiated it is assumed.
DeadmanAssumption == Limits \subseteq Nat /\ Latest \in Nat

VARIABLES
  ttlSec, idleSec,
  now, startedAt, lastActivity,
  ticking,      \* the interval is set
  exited

deadmanVars == <<ttlSec, idleSec, now, startedAt, lastActivity, ticking, exited>>

\* startDeadman(), some time after the module was loaded; what came in before
\* does not count.
Init ==
  /\ ttlSec \in Limits /\ idleSec \in Limits
  /\ now \in 0..1 /\ startedAt = now
  /\ lastActivity = startedAt
  /\ ticking = (ttlSec > 0 \/ idleSec > 0) /\ exited = FALSE

Keeps == <<ttlSec, idleSec, startedAt>>

\* noteActivity(): any message of any page.
Message ==
  /\ ~exited
  /\ lastActivity' = now
  /\ UNCHANGED <<Keeps, now, ticking, exited>>

\* Mutant of IsUp: one limit hides the other.
OneLimit(at) == IF ttlSec > 0 THEN at - startedAt >= ttlSec
                ELSE idleSec > 0 /\ at - lastActivity >= idleSec

IsUp(at) ==
  \/ ttlSec > 0 /\ at - startedAt >= ttlSec
  \/ idleSec > 0 /\ at - lastActivity >= idleSec

\* A second goes by, and the interval fires.
Second ==
  /\ ~exited /\ now < Latest
  /\ now' = now + 1
  /\ exited' = (ticking /\ IsUp(now + 1))
  /\ ticking' = (ticking /\ ~exited')
  /\ UNCHANGED <<Keeps, lastActivity>>

Next == Message \/ Second

Spec == Init /\ [][Next]_deadmanVars

\* Once either limit is reached the process is gone, whatever has been said to it
\* meanwhile, and one without limits stays (deadman.ts 16-21, 49-53).
EndsOnTime ==
  exited <=> \/ ttlSec > 0 /\ now >= startedAt + ttlSec
             \/ idleSec > 0 /\ now >= lastActivity + idleSec
=============================================================================
