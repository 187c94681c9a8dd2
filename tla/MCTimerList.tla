----------------------------- MODULE MCTimerList -----------------------------
(* Instances of TimerList for TLC.                                          *)
EXTENDS TimerList
=============================================================================
