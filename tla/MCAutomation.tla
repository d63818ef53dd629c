---------------------------- MODULE MCAutomation ----------------------------
(***************************************************************************)
(* Two triggers, one for an inbound webhook that starts an action and one  *)
(* for the schedule that starts a workflow every other minute, and two     *)
(* runs.  The clock covers the end of one minute and the next.             *)
(***************************************************************************)
EXTENDS Automation, TLC

CONSTANTS hook, nightly, r1, r2

TwoTriggers == {hook, nightly}
TwoRuns == {r1, r2}

EveryOtherMinute ==
  <<<<"step", 2>>, <<"any">>, <<"list", {1, 15}>>, <<"value", 6>>, <<"any">>>>
Crons == [t \in TwoTriggers |-> IF t = hook THEN <<>> ELSE EveryOtherMinute]
Targets == [t \in TwoTriggers |-> IF t = hook THEN "action" ELSE "workflow"]

\* 7 o'clock on the first of June, a Sunday.
FirstOfJune == <<7, 1, 6, 0>>

\* Runs are interchangeable; no property of the runs is about liveness.
Symmetry == Permutations(TwoRuns)
=============================================================================
