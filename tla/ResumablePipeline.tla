------------------------- MODULE ResumablePipeline --------------------------
(***************************************************************************)
(* What the retry mechanism promises, without clusters, files or timing: a *)
(* list of steps is gone through in order, as often as needed; a step is   *)
(* left behind only when its work is done, in this pass or an earlier one; *)
(* completion is reported only when every required step is done.           *)
(***************************************************************************)
EXTENDS Integers

CONSTANTS
  NSteps,    \* number of steps
  Optional,  \* steps that need no work
  Final,     \* the last step completion depends on
  Reporters  \* who may report completion

VARIABLES
  done,      \* steps that did their work
  at,        \* the step this pass has come to, NSteps + 1 at its end
  complete   \* the reporters that say "completed"

vars == <<done, at, complete>>

Init == done = {} /\ at = 1 /\ complete = {}

\* The step at hand does its work.
Perform ==
  /\ at <= NSteps
  /\ done' = done \cup {at}
  /\ UNCHANGED <<at, complete>>

\* The pass goes on to the next step.
Advance ==
  /\ at <= NSteps
  /\ at \in done \cup Optional
  /\ at' = at + 1
  /\ UNCHANGED <<done, complete>>

\* A new pass from the first step.
Restart ==
  /\ at' = 1
  /\ UNCHANGED <<done, complete>>

Report(r) ==
  /\ 1 .. Final \subseteq done \cup Optional
  /\ complete' = complete \cup {r}
  /\ UNCHANGED <<done, at>>

\* A report is taken back, for a new attempt.
Withdraw(r) ==
  /\ complete' = complete \ {r}
  /\ UNCHANGED <<done, at>>

Next ==
  \/ Perform \/ Advance \/ Restart
  \/ \E r \in Reporters : Report(r) \/ Withdraw(r)

Spec == Init /\ [][Next]_vars
=============================================================================
