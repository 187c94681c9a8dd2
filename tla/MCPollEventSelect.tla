------------------------- MODULE MCPollEventSelect -------------------------
(* Instances of PollEventSelect for TLC: two contexts share a socket.       *)
EXTENDS PollEventSelect, TLC

CONSTANTS c1, c2, c3, s1, s2

MCFdOf == c1 :> s1 @@ c2 :> s1 @@ c3 :> s2
MCAskedSets == {{"in"}}
MCBrings == s1 :> {"in"} @@ s2 :> {"close"}

(* The two that share a socket are interchangeable, and so are the data.    *)
Symmetry == Permutations({c1, c2}) \cup Permutations(Data)

(* Of a context that is not in the table, only whether it ever was is read  *)
(* before it is overwritten: its flags and data are left out.               *)
InTable == { pollctxs[i] : i \in Places } \ {NULL}
View ==
  <<table, winsock, signaled, thread, loop, called, asked, refused, unread,
    [c \in InTable |-> <<pctx[c], given[c]>>], { c \in Ctxs : pctx[c].udata # NULL }>>
=============================================================================
