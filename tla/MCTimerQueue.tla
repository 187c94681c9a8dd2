---------------------------- MODULE MCTimerQueue ----------------------------
(* Instances of TimerQueue for TLC.  The timers are interchangeable: no     *)
(* definition names one, and the safety runs use that.                      *)
EXTENDS TimerQueue

Symmetry == Permutations(Timers)
=============================================================================
