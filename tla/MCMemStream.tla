---------------------------- MODULE MCMemStream ----------------------------
(* Instances of MemStream for TLC.                                          *)
EXTENDS MemStream, TLC
=============================================================================
