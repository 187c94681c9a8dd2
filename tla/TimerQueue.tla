------------------------------ MODULE TimerQueue ------------------------------
(***************************************************************************)
(* The timer queue of src/src/timerqueue.c: a list of timers sorted by     *)
(* deadline, and timer_queue_process, a pass that runs the callbacks of    *)
(* the timers that are due.  A callback may add and cancel any timer, the  *)
(* running one included, so the pass keeps its place in the list in the    *)
(* queue itself (cur_timer_), where timer_node_remove can move it.         *)
(*                                                                         *)
(* The list is a sequence here: first_timer_ is its head, the `next' of a  *)
(* node the element that follows it.  One thread owns the queue; the only  *)
(* interleavings are those of its callbacks and of the clock.              *)
(***************************************************************************)
EXTENDS TimerOrder

CONSTANTS Timeouts,          \* the delays given to timer_add_timeout
          Intervals,         \* the delays given to timer_add_interval
          MaxTick,           \* bound: the last reading of the clock
          IntMax,            \* the largest value of a C int
          RearmsInCallback   \* may an interval's callback cancel and re-add
                             \* its own timer?

ASSUME TickAssumption == MaxTick \in Nat
ASSUME IntMaxAssumption == IntMax \in Nat \ {0}
ASSUME DelaysAssumption == Timeouts \cup Intervals \subseteq 0 .. 2 * IntMax + 1
ASSUME RearmsAssumption == RearmsInCallback \in BOOLEAN

VARIABLES
  now,        \* clock_get_tick_()
  queue,      \* the list that starts at first_timer_
  cur_timer,  \* cur_timer_: the place of the pass in the list
  expire,     \* the field `expire' of each timer
  interval,   \* the delay each timer was added with (`duration', see ToInt)
  loop,       \* the field `loop'
  ready,      \* the field `ready'
  pc,         \* where the thread that owns the queue is
  running,    \* timer_queue_process's local `cur' while its callback runs
  ticknow,    \* timer_queue_process's local `ticknow'
  wake,       \* the tick up to which the host of the queue will sleep
  overrun     \* how long the last pass took, by the clock

fields == <<expire, interval, loop, ready>>
vars == <<now, queue, cur_timer, expire, interval, loop, ready, pc, running,
          ticknow, wake, overrun>>

-----------------------------------------------------------------------------
(* What an unsigned int is after its conversion to int. *)
ToInt(n) == IF n > IntMax THEN n - 2 * (IntMax + 1) ELSE n

Queued == Range(queue)

-----------------------------------------------------------------------------
Init ==
  /\ now = 0
  /\ queue = << >>
  /\ cur_timer = NULL
  /\ expire = [t \in Timers |-> 0]
  /\ interval = [t \in Timers |-> 0]
  /\ loop = [t \in Timers |-> FALSE]
  /\ ready = [t \in Timers |-> 0]
  /\ pc = "idle"
  /\ running = NULL
  /\ ticknow = 0
  /\ wake = 0
  /\ overrun = 0

(* Time passes, while the host sleeps as well as while a callback runs. *)
Tick ==
  /\ now < MaxTick
  /\ now' = now + 1
  /\ UNCHANGED <<queue, cur_timer, fields, pc, running, ticknow, wake, overrun>>

(* A client runs between two passes and in the callbacks of a pass. *)
ClientRuns == pc \in {"idle", "once", "interval"}

(* The observer is told the delay of a timer that became the first one,    *)
(* and the host sleeps no longer than that.                                *)
\* BUG: the observer is only told of the first timer of an empty queue
ObserverForEmpty(q, t, d) == IF Len(q) = 1 THEN now + ToInt(d) ELSE wake
Observer(q, t, d) == IF First(q) = t THEN now + ToInt(d) ELSE wake

(* timer_add_timeout (l = FALSE) and timer_add_interval (l = TRUE).  The   *)
(* node must be off the list: its memory is the list's until it runs.      *)
timer_add(t, d, l) ==
  /\ ClientRuns
  /\ t \notin Queued
  /\ RearmsInCallback \/ ~(pc = "interval" /\ running = t)
  /\ ready' = [ready EXCEPT ![t] = 0]
  /\ interval' = [interval EXCEPT ![t] = d]
  /\ expire' = [expire EXCEPT ![t] = now + d]
  /\ loop' = [loop EXCEPT ![t] = l]
  /\ queue' \in NodeAdd(queue, expire', t)
  /\ wake' = Observer(queue', t, d)
  /\ UNCHANGED <<now, cur_timer, pc, running, ticknow, overrun>>

timer_cancel(t) ==
  /\ ClientRuns
  /\ queue' = NodeRemove(queue, t)
  /\ cur_timer' = CurAfterRemove(queue, cur_timer, t)
  /\ UNCHANGED <<now, fields, pc, running, ticknow, wake, overrun>>

-----------------------------------------------------------------------------
(* timer_queue_process, one action from each callback to the next. *)
StartPass ==
  /\ pc = "idle"
  /\ ticknow' = now
  /\ cur_timer' = First(queue)
  /\ pc' = "scan"
  /\ UNCHANGED <<now, queue, fields, running, wake, overrun>>

Due(t) == t # NULL /\ expire[t] <= ticknow

MarkReady(t) == [ready EXCEPT ![t] = 1]

(* A timeout leaves the list, then its callback is entered. *)
FireOnce ==
  /\ pc = "scan"
  /\ Due(cur_timer)
  /\ ~loop[cur_timer]
  /\ ready' = MarkReady(cur_timer)
  /\ queue' = NodeRemove(queue, cur_timer)
  /\ cur_timer' = CurAfterRemove(queue, cur_timer, cur_timer)
  /\ running' = cur_timer
  /\ pc' = "once"
  /\ UNCHANGED <<now, expire, interval, loop, ticknow, wake, overrun>>

(* An interval keeps its place in the list while its callback runs. *)
FireInterval ==
  /\ pc = "scan"
  /\ Due(cur_timer)
  /\ loop[cur_timer]
  /\ ready' = MarkReady(cur_timer)
  /\ running' = cur_timer
  /\ pc' = "interval"
  /\ UNCHANGED <<now, queue, cur_timer, expire, interval, loop, ticknow, wake,
                 overrun>>

(* After the callback of a timeout the pass only goes on: the memory of    *)
(* the timer is its owner's again.                                         *)
OnceReturns ==
  /\ pc = "once"
  /\ pc' = "scan"
  /\ running' = NULL
  /\ UNCHANGED <<now, queue, cur_timer, fields, ticknow, wake, overrun>>

(* The deadline of an interval that has run: one period later, or the next *)
(* tick when that is past.                                                 *)
\* BUG: a deadline in the past is kept
RearmedExpireUnchecked(t) == expire[t] + ToInt(interval[t])
RearmedExpire(t) ==
  IF expire[t] + ToInt(interval[t]) < ticknow
    THEN ticknow + 1
    ELSE expire[t] + ToInt(interval[t])

\* BUG: the test for a cancelled timer is missing
StillArmedUnchecked == TRUE
StillArmed == running = cur_timer

\* BUG: `ready' is not reset when an interval is re-armed
ClearReadyForgotten(t) == ready
ClearReady(t) == [ready EXCEPT ![t] = 0]

(* The interval is still armed: it is moved to the place of its next       *)
(* deadline, and the pass goes on behind that place.                       *)
RearmInterval ==
  /\ pc = "interval"
  /\ StillArmed
  /\ loop[running]
  /\ expire' = [expire EXCEPT ![running] = RearmedExpire(running)]
  /\ ready' = ClearReady(running)
  /\ queue' \in NodeAdd(NodeRemove(queue, running), expire', running)
  /\ cur_timer' = Successor(queue', running)
  /\ pc' = "scan"
  /\ running' = NULL
  /\ UNCHANGED <<now, interval, loop, ticknow, wake, overrun>>

(* The callback has made a timeout of its timer (line 219), which the pass *)
(* then steps over.                                                        *)
SkipRearmedOnce ==
  /\ pc = "interval"
  /\ StillArmed
  /\ ~loop[running]
  /\ cur_timer' = Successor(queue, running)
  /\ pc' = "scan"
  /\ running' = NULL
  /\ UNCHANGED <<now, queue, fields, ticknow, wake, overrun>>

(* The callback has cancelled its timer: the place has moved already. *)
LeaveCancelled ==
  /\ pc = "interval"
  /\ ~StillArmed
  /\ pc' = "scan"
  /\ running' = NULL
  /\ UNCHANGED <<now, queue, cur_timer, fields, ticknow, wake, overrun>>

(* The out parameter nextsleeptime, by the clock as it was when the pass   *)
(* began.                                                                  *)
NextSleep ==
  CASE queue = << >> -> IntMax
    [] queue # << >> /\ expire[queue[1]] < ticknow -> 1
    [] OTHER -> ToInt(expire[queue[1]] - ticknow)

EndPass ==
  /\ pc = "scan"
  /\ ~Due(cur_timer)
  /\ pc' = "idle"
  /\ wake' = now + NextSleep
  /\ overrun' = now - ticknow
  /\ UNCHANGED <<now, queue, cur_timer, fields, running, ticknow>>

-----------------------------------------------------------------------------
PassStep == \/ FireOnce \/ FireInterval \/ EndPass
            \/ OnceReturns \/ RearmInterval \/ SkipRearmedOnce \/ LeaveCancelled

Next ==
  \/ Tick
  \/ \E t \in Timers, d \in Timeouts : timer_add(t, d, FALSE)
  \/ \E t \in Timers, d \in Intervals : timer_add(t, d, TRUE)
  \/ \E t \in Timers : timer_cancel(t)
  \/ StartPass
  \/ PassStep

Spec == Init /\ [][Next]_vars

(* The host runs the queue again and again, every pass goes on, and every  *)
(* callback returns.  Clients and the clock owe nothing.                   *)
FairSpec == Spec /\ WF_vars(StartPass) /\ WF_vars(PassStep)

-----------------------------------------------------------------------------
TypeOK ==
  /\ now \in 0 .. MaxTick
  /\ queue \in Seq(Timers)
  /\ cur_timer \in Timers \cup {NULL}
  /\ expire \in [Timers -> Nat]
  /\ interval \in [Timers -> 0 .. 2 * IntMax + 1]
  /\ loop \in [Timers -> BOOLEAN]
  /\ ready \in [Timers -> {0, 1}]
  /\ pc \in {"idle", "scan", "once", "interval"}
  /\ running \in Timers \cup {NULL}
  /\ ticknow \in 0 .. now
  /\ wake \in Int
  /\ overrun \in Nat

(* The list is sorted by deadline and holds no timer twice, whatever the   *)
(* callbacks of a pass do to it (lines 105-153).                           *)
QueueOrdered ==
  \A i, j \in DOMAIN queue :
    i < j => /\ queue[i] # queue[j]
             /\ expire[queue[i]] <= expire[queue[j]]

(* The place of the pass is a node of the list or its end: a callback that *)
(* cancels timers never leaves the pass on a node it has freed.            *)
CursorOnQueue == cur_timer = NULL \/ cur_timer \in Queued

(* A timer of the list is marked ready only while its own callback runs,   *)
(* and the pass then stands on it (lines 211, 218 and 225).                *)
ReadyOnlyWhileRunning ==
  \A t \in Queued : ready[t] = 1 => /\ pc = "interval"
                                    /\ running = t
                                    /\ cur_timer = t

Later(a, b) == IF a > b THEN a ELSE b

(* Between two passes the host never sleeps past the first deadline by     *)
(* more than the time the last pass took, or one tick for a deadline that  *)
(* was already past.  Intervals stay within an int.                        *)
WakeInTime ==
  pc = "idle" /\ queue # << >>
    => wake <= Later(expire[queue[1]], ticknow + 1) + overrun

Armed == INSTANCE TimerContract WITH
           armed <- Queued,
           deadline <- expire,
           period <- interval,
           repeats <- loop,
           firing <- IF pc \in {"once", "interval"} THEN running ELSE NULL,
           again <- pc = "interval" /\ running \in Queued

(* The queue keeps the contract of timerqueue.h: nothing runs early or     *)
(* after it was cancelled, a timeout runs once, an interval keeps its      *)
(* period.                                                                 *)
Contract == Armed!CSpec

(* A pass ends, however the callbacks re-add their timers: a timer added   *)
(* during a pass is not run by it for ever.                                *)
PassEnds == pc # "idle" ~> pc = "idle"

(* A timer whose deadline is past runs or is cancelled in the end, though  *)
(* a pass may step over it.                                                *)
OverdueServed ==
  \A t \in Timers :
    t \in Queued /\ expire[t] < now ~> (t \notin Queued \/ running = t)

-----------------------------------------------------------------------------
(* What a comment of timerqueue.h says and the code does not keep.         *)

(* timerqueue.h:71, "callback of timer will run when timer expired": no    *)
(* timer that had expired when a pass began is left on the list by it.     *)
(* Line 231 goes on behind the new place of an interval and so steps over  *)
(* the expired timers in between.                                          *)
PassServesOverdue ==
  pc = "idle" => \A t \in Queued : expire[t] >= ticknow
=============================================================================
