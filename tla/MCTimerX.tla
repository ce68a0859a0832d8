------------------------------ MODULE MCTimerX -------------------------------
(* TLC instances of TimerX.                                                 *)
EXTENDS TimerX, TLC

\* Tasks are interchangeable in the safety run.
TaskSymmetry == Permutations(Tasks)

\* setPeriod values: with and without one that ends the repetition.
EndingPeriods == {-1, 1}
LongerPeriods == {2}
=============================================================================
