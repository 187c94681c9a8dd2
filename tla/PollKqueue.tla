------------------------------ MODULE PollKqueue ------------------------------
(***************************************************************************)
(* How src/src/pollasync_kqueue.c uses its kernel: one entry per           *)
(* descriptor and filter.  EVFILT_READ is -1 and EVFILT_WRITE -2, and the  *)
(* code treats them as bits.                                               *)
(***************************************************************************)
EXTENDS PollLooper

(* -1 | -2 is -1: who waits for both waits for input.                      *)
KqueueFilter(evs) == IF "in" \in evs THEN {"in"} ELSE {"out"}

\* BUG: EV_ONESHOT is not asked for
KqueueEntriesKept(c, once, evs) ==
  { e \in interest[FdOf[c]] : e.events # KqueueFilter(evs) }
    \cup {[ctx |-> c, events |-> KqueueFilter(evs), once |-> FALSE]}
(* EV_ADD, which modifies the entry of this filter, with EV_ONESHOT.       *)
KqueueEntries(c, once, evs) ==
  { e \in interest[FdOf[c]] : e.events # KqueueFilter(evs) }
    \cup {[ctx |-> c, events |-> KqueueFilter(evs), once |-> once]}

(* EV_DELETE with a filter that nobody has set: of either filter, or it    *)
(* fails, which is not told.                                               *)
KqueueDelete(c) ==
  {interest} \cup { [interest EXCEPT ![FdOf[c]] = { e \in @ : e.events # {w} }] : w \in {"in", "out"} }

(* Both filters have bits in common with both: -1 & -2, -2 & -1.  EV_EOF   *)
(* is not looked at, and EV_ERROR does not come from a wait.               *)
KqueueEvents(evs) == {"in", "out"}
=============================================================================
