------------------------------ MODULE TimerOrder ------------------------------
(***************************************************************************)
(* The list of a timer queue as a sequence sorted by deadline, and what    *)
(* timer_node_add and timer_node_remove (src/src/timerqueue.c) do to it.   *)
(* TimerList shows that their pointer operations do this.                  *)
(***************************************************************************)
EXTENDS Integers, Sequences, SequencesExt

CONSTANTS Timers,   \* the timer_ctx objects of the clients
          NULL      \* the null pointer

ASSUME NullAssumption == NULL \notin Timers

Position(q, t) == CHOOSE i \in DOMAIN q : q[i] = t

First(q) == IF q = << >> THEN NULL ELSE q[1]

Successor(q, t) == IF Position(q, t) < Len(q) THEN q[Position(q, t) + 1] ELSE NULL

(* timer_node_add, as the set of its only result: the node goes before the *)
(* first one that does not expire earlier, or at the end of the list.      *)
\* BUG: a node goes behind those that expire at the same tick
NodeAddAfterEquals(q, ex, t) ==
  { InsertAt(q, i, t) : i \in
      { i \in 1 .. Len(q) + 1 : /\ \A j \in 1 .. i - 1 : ex[q[j]] <= ex[t]
                                /\ i <= Len(q) => ex[q[i]] > ex[t] } }
\* BUG: the search stops one node early
NodeAddEarly(q, ex, t) ==
  { InsertAt(q, i, t) : i \in
      { i \in 1 .. Len(q) + 1 : /\ \A j \in 1 .. i - 1 : ex[q[j]] < ex[t]
                                /\ i < Len(q) => ex[q[i]] >= ex[t] } }
NodeAdd(q, ex, t) ==
  { InsertAt(q, i, t) : i \in
      { i \in 1 .. Len(q) + 1 : /\ \A j \in 1 .. i - 1 : ex[q[j]] < ex[t]
                                /\ i <= Len(q) => ex[q[i]] >= ex[t] } }

(* timer_node_remove: the list without the node, and where the pass goes   *)
(* on when the node was its place.  A node off the list stays off it.      *)
NodeRemove(q, t) ==
  IF t \in Range(q) THEN RemoveAt(q, Position(q, t)) ELSE q

\* BUG: the place of the pass is left on the removed node
CurAfterRemoveStale(q, cur, t) == cur
CurAfterRemove(q, cur, t) == IF cur = t /\ t \in Range(q) THEN Successor(q, t) ELSE cur
=============================================================================
