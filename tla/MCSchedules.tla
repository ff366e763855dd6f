---------------------------- MODULE MCSchedules ----------------------------
(***************************************************************************)
(* Instances of Schedules for TLC: which jobs are one-shots and what kind  *)
(* of work each is.                                                        *)
(***************************************************************************)
EXTENDS Schedules

CONSTANTS a, b, c

JustA == {a}
JustB == {b}
AAndB == {a, b}
AllThree == {a, b, c}

\* Work by job: a, b and c in turn.
Work(x, y, z) ==
  [j \in Jobs |-> IF j = a THEN x ELSE IF j = b THEN y ELSE z]
ExecuteWake == Work("execute", "wake", "notify")
=============================================================================
