------------------------------ MODULE TimerList ------------------------------
(***************************************************************************)
(* The doubly linked list below the timer queue: timer_node_add and        *)
(* timer_node_remove of src/src/timerqueue.c, assignment by assignment.    *)
(*                                                                         *)
(* The history variables `list' and `place' hold the list as a sequence    *)
(* and the place of the pass in it, changed by the operators of TimerOrder *)
(* from which TimerQueue is built.  Linked and PlaceKept say that the      *)
(* pointers spell them: TimerQueue may speak of a sequence.                *)
(***************************************************************************)
EXTENDS TimerOrder

CONSTANT Deadlines   \* the values of `expire'

ASSUME DeadlinesAssumption == Deadlines \subseteq Nat

VARIABLES
  first,     \* first_timer_
  cur,       \* cur_timer_
  next,      \* the field `next' of each node
  prev,      \* the field `prev'
  deadline,  \* the field `expire'
  node,      \* the argument of the timer_node_add in progress, or NULL
  at,        \* its local `cur', which walks along the list
  list,      \* history: the list as a sequence
  place      \* history: the node on which the pass stands

listvars == <<first, cur, next, prev, deadline, node, at, list, place>>

ListInit ==
  /\ first = NULL
  /\ cur = NULL
  /\ next = [t \in Timers |-> NULL]
  /\ prev = [t \in Timers |-> NULL]
  /\ deadline \in [Timers -> Deadlines]
  /\ node = NULL
  /\ at = NULL
  /\ list = << >>
  /\ place = NULL

-----------------------------------------------------------------------------
(* timer_node_add.  Its callers have given the node its deadline and no    *)
(* neighbours (lines 169-174, 220-224).                                    *)

AddToEmpty(t, e) ==
  /\ node = NULL
  /\ t \notin Range(list)
  /\ first = NULL
  /\ deadline' = [deadline EXCEPT ![t] = e]
  /\ first' = t
  /\ prev' = [prev EXCEPT ![t] = NULL]
  /\ next' = [next EXCEPT ![t] = NULL]
  /\ list' \in NodeAdd(list, deadline', t)
  /\ UNCHANGED <<cur, node, at, place>>

AddBegin(t, e) ==
  /\ node = NULL
  /\ t \notin Range(list)
  /\ first # NULL
  /\ deadline' = [deadline EXCEPT ![t] = e]
  /\ node' = t
  /\ at' = first
  /\ UNCHANGED <<first, cur, next, prev, list, place>>

Found == deadline[at] >= deadline[node]

HasNext == next[at] # NULL

\* BUG: the walk begins again at every node
WalkFromFirst == first
WalkTo == next[at]

AddWalk ==
  /\ node # NULL
  /\ ~Found
  /\ HasNext
  /\ at' = WalkTo
  /\ UNCHANGED <<first, cur, next, prev, deadline, node, list, place>>

(* Line 117: the node in front of the place now points to the new one. *)
\* BUG: it still points behind it
NextBeforeOneWay == [next EXCEPT ![node] = at]
NextBefore ==
  IF prev[at] # NULL THEN [next EXCEPT ![node] = at, ![prev[at]] = node]
                     ELSE [next EXCEPT ![node] = at]

LinkBefore ==
  /\ node # NULL
  /\ Found
  /\ next' = NextBefore
  /\ prev' = [prev EXCEPT ![node] = prev[at], ![at] = node]
  /\ first' = IF at = first THEN node ELSE first
  /\ node' = NULL
  /\ at' = NULL
  /\ list' \in NodeAdd(list, deadline, node)
  /\ UNCHANGED <<cur, deadline, place>>

LinkAtEnd ==
  /\ node # NULL
  /\ ~Found
  /\ ~HasNext
  /\ next' = [next EXCEPT ![at] = node, ![node] = NULL]
  /\ prev' = [prev EXCEPT ![node] = at]
  /\ node' = NULL
  /\ at' = NULL
  /\ list' \in NodeAdd(list, deadline, node)
  /\ UNCHANGED <<first, cur, deadline, place>>

-----------------------------------------------------------------------------
(* timer_node_remove, of a node on the list or off it. *)

FirstAfterRemove(t) == IF prev[t] = NULL /\ t = first THEN next[t] ELSE first

(* Lines 137-138, 144-145 and 151-152 in their order. *)
NextAfterRemove(t) ==
  LET n == IF prev[t] # NULL THEN [next EXCEPT ![prev[t]] = next[t]] ELSE next
  IN [n EXCEPT ![t] = NULL]

PrevAfterRemove(t) ==
  LET p == IF next[t] # NULL THEN [prev EXCEPT ![next[t]] = prev[t]] ELSE prev
      f == FirstAfterRemove(t)
      h == IF f # NULL THEN [p EXCEPT ![f] = NULL] ELSE p
  IN [h EXCEPT ![t] = NULL]

\* BUG: the pass goes on in front of the removed node
CurMovedBack(t) == IF cur = t THEN prev[t] ELSE cur
CurMoved(t) == IF cur # NULL /\ cur = t THEN next[t] ELSE cur

timer_node_remove(t) ==
  /\ node = NULL
  /\ next' = NextAfterRemove(t)
  /\ prev' = PrevAfterRemove(t)
  /\ first' = FirstAfterRemove(t)
  /\ cur' = CurMoved(t)
  /\ list' = NodeRemove(list, t)
  /\ place' = CurAfterRemove(list, place, t)
  /\ UNCHANGED <<deadline, node, at>>

-----------------------------------------------------------------------------
(* What timer_queue_process does with the list: line 207, and line 231     *)
(* after a node that is on the list.                                       *)

Rewind ==
  /\ node = NULL
  /\ cur' = first
  /\ place' = First(list)
  /\ UNCHANGED <<first, next, prev, deadline, node, at, list>>

GoBehind(t) ==
  /\ node = NULL
  /\ t \in Range(list)
  /\ cur' = next[t]
  /\ place' = Successor(list, t)
  /\ UNCHANGED <<first, next, prev, deadline, node, at, list>>

-----------------------------------------------------------------------------
AddStep == AddWalk \/ LinkBefore \/ LinkAtEnd

ListNext ==
  \/ \E t \in Timers, e \in Deadlines : AddToEmpty(t, e) \/ AddBegin(t, e)
  \/ AddStep
  \/ \E t \in Timers : timer_node_remove(t) \/ GoBehind(t)
  \/ Rewind

ListSpec == ListInit /\ [][ListNext]_listvars

(* A call that has begun goes on. *)
ListFairSpec == ListSpec /\ WF_listvars(AddStep)

-----------------------------------------------------------------------------
(* A walk stands on a node, never behind the end of the list. *)
ListTypeOK ==
  /\ {first, cur, node, at, place} \subseteq Timers \cup {NULL}
  /\ next \in [Timers -> Timers \cup {NULL}]
  /\ prev \in [Timers -> Timers \cup {NULL}]
  /\ deadline \in [Timers -> Deadlines]
  /\ list \in Seq(Timers)
  /\ node # NULL => at # NULL

(* The pointers spell the sequence, forwards and backwards, and a node off *)
(* the list points nowhere: only therefore is the removal of such a node   *)
(* harmless.                                                               *)
Linked ==
  /\ first = First(list)
  /\ \A i \in DOMAIN list :
       /\ next[list[i]] = IF i < Len(list) THEN list[i + 1] ELSE NULL
       /\ prev[list[i]] = IF i > 1 THEN list[i - 1] ELSE NULL
  /\ \A t \in Timers \ Range(list) : next[t] = NULL /\ prev[t] = NULL

(* cur_timer_ moves as the place in the sequence does (lines 146-150). *)
PlaceKept == cur = place

(* timer_node_add returns: the list it walks along has no cycle. *)
AddReturns == node # NULL ~> node = NULL
=============================================================================
