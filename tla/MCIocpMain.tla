----------------------------- MODULE MCIocpMain -----------------------------
(* Instances of IocpMain for TLC.                                           *)
EXTENDS IocpMain, TLC

CONSTANTS f1, f2, work, poll, file, sock
=============================================================================
