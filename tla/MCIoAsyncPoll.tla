--------------------------- MODULE MCIoAsyncPoll ---------------------------
(* Instances of IoAsyncPoll for TLC: a descriptor of any kind, and a socket *)
(* that takes datagrams, each with a future of its own.                     *)
EXTENDS IoAsyncPoll, TLC

CONSTANTS s1, s2, f1, f2

MCFdOf == [c \in Ctxs |-> c]
MCConditions == s1 :> {"in", "out", "err"} @@ s2 :> {"in"}
MCOps == s1 :> {"read", "write", "connect", "accept", "recv", "send", "sendto",
                "ReadFile", "WriteFile"}
           @@ s2 :> {"recvfrom"}
MCUses == f1 :> {s1} @@ f2 :> {s2}
=============================================================================
