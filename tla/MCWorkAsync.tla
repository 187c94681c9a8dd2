---------------------------- MODULE MCWorkAsync ----------------------------
(* Instances of WorkAsync for TLC: a waits for a run function, b is its own *)
(* run function.                                                            *)
EXTENDS WorkAsync, TLC

CONSTANTS a, b
=============================================================================
