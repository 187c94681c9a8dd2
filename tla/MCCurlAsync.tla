---------------------------- MODULE MCCurlAsync -----------------------------
EXTENDS CurlAsync

CONSTANTS c1, c2, c3, fd1, fd2

(* c3 is given the connection of c1 when that is done.                     *)
MCFdOf == [c \in Ctxs |-> IF c = c2 THEN fd2 ELSE fd1]
MCConditions == [f \in Fds |-> IF f = fd1 THEN {"in", "out"} ELSE {"in"}]
=============================================================================
