---------------------------- MODULE MCPollUsers ----------------------------
(* Instances of PollUsers for TLC: two contexts share a descriptor.         *)
EXTENDS PollUsers, TLC

CONSTANTS c1, c2, c3, f1, f2

MCFdOf == c1 :> f1 @@ c2 :> f1 @@ c3 :> f2
MCConditions == [f \in Fds |-> {"in", "err"}]
MCAskedSets == {{"in"}, {"in", "out"}}
=============================================================================
