------------------------------ MODULE PollEpoll ------------------------------
(***************************************************************************)
(* How src/src/pollasync_epoll.c uses its kernel: one entry per            *)
(* descriptor, added or modified, and deleted by the looper for            *)
(* POLL_FLAG_ONCE.                                                         *)
(***************************************************************************)
EXTENDS PollLooper

\* BUG: EEXIST is an error, the entry of the descriptor stays as it is
EpollEntryAddOnly(c, evs) ==
  IF interest[FdOf[c]] = {} THEN {[ctx |-> c, events |-> evs, once |-> FALSE]} ELSE interest[FdOf[c]]
\* BUG: to wait for room is not translated for the kernel
EpollEntryReadOnly(c, evs) == {[ctx |-> c, events |-> evs \ {"out"}, once |-> FALSE]}
(* EPOLL_CTL_ADD, or EPOLL_CTL_MOD of the entry that is there.             *)
EpollEntry(c, evs) == {[ctx |-> c, events |-> evs, once |-> FALSE]}

(* EPOLL_CTL_DEL of the descriptor, whoever has registered it.             *)
EpollDelete(c) == [interest EXCEPT ![FdOf[c]] = {}]

EpollEvents(evs) ==
  (evs \cap {"in", "out"}) \cup (IF "err" \in evs THEN {"error"} ELSE {})

\* BUG: POLL_FLAG_ONCE is left to the kernel, which was not told
EpollAfterOnceKept(c) == interest
EpollAfterOnce(c) == IF pctx[c].once THEN EpollDelete(c) ELSE interest
=============================================================================
