---------------------------- MODULE MCGuiTimers ----------------------------
(* Instances of GuiTimers for TLC.                                          *)
EXTENDS GuiTimers, TLC

CONSTANTS t1, t2, t3
=============================================================================
