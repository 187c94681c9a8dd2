--------------------------- MODULE TimerQueue_proofs ---------------------------
(***************************************************************************)
(* Proofs about TimerQueue, the contract it keeps and the hosts that run   *)
(* it, for every set of timers, every choice of the delays, every bound of *)
(* the clock and any number of messages.                                   *)
(* Then, by themselves, about the pointers of its list, in TimerList: for  *)
(* every set of nodes and of deadlines.                                    *)
(***************************************************************************)
EXTENDS GuiTimers, TimerList, TimerOrder_proofs

-----------------------------------------------------------------------------
(* The inductive invariant.  The pass may use its place in the list         *)
(* because every removal moves it; that in turn needs the list to hold no   *)
(* timer twice, which rests on the order and on who may be added.           *)

(* While a callback runs, the pass remembers whose it is. *)
RunningIsTimer == pc \in {"once", "interval"} => running \in Timers

(* An interval that runs and was not added anew is still an interval.  With *)
(* ReadyOnlyWhileRunning it shows that the pass which steps over a re-added *)
(* timeout (line 219) leaves no timer marked ready behind.                  *)
LoopUntilReadded ==
  pc = "interval" /\ running \in Queued /\ ready[running] = 1 => loop[running]

IInv ==
  /\ TypeOK
  /\ Ordered(queue, expire)
  /\ CursorOnQueue
  /\ RunningIsTimer
  /\ ReadyOnlyWhileRunning
  /\ LoopUntilReadded
  /\ WakeInTime

LEMMA QueuedAreTimers == TypeOK => Range(queue) \subseteq Timers
BY DEF TypeOK, Range

LEMMA ToIntIsInt == \A n \in Nat : ToInt(n) \in Int /\ ToInt(n) <= n
BY IntMaxAssumption DEF ToInt

LEMMA InitIInv == Init => IInv
<1> SUFFICES ASSUME Init PROVE IInv
  OBVIOUS
<1> USE TickAssumption, IntMaxAssumption
<1>1. TypeOK
  BY DEF Init, TypeOK
<1>2. Range(queue) = {} /\ Len(queue) = 0
  BY DEF Init, Range
<1> QED
  BY <1>1, <1>2 DEF Init, IInv, Ordered, CursorOnQueue, RunningIsTimer,
     ReadyOnlyWhileRunning, LoopUntilReadded, WakeInTime, Queued

(* timer_add, in a callback or between two passes. *)
LEMMA TimerAddKeepsIInv ==
  ASSUME IInv, NEW t \in Timers, NEW d \in Timeouts \cup Intervals,
         NEW l \in BOOLEAN, timer_add(t, d, l)
  PROVE  IInv'
<1> USE DEF IInv
<1>1. d \in 0 .. 2 * IntMax + 1 /\ d \in Nat
  BY DelaysAssumption, IntMaxAssumption
<1>2. now \in Nat /\ now + d \in Nat
  BY <1>1, TickAssumption DEF TypeOK
<1>3. /\ expire' \in [Timers -> Nat]
      /\ expire' = [expire EXCEPT ![t] = now + d]
      /\ t \notin Range(queue)
      /\ queue \in Seq(Timers)
      /\ queue' \in NodeAdd(queue, expire', t)
  BY <1>2 DEF timer_add, TypeOK, Queued
<1>4. Ordered(queue, expire')
  <2>1. ASSUME NEW i \in 1 .. Len(queue) PROVE expire'[queue[i]] = expire[queue[i]]
    BY <1>3 DEF Range, TypeOK
  <2> QED
    BY <2>1 DEF Ordered
<1>5. /\ queue' \in Seq(Timers)
      /\ Range(queue') = Range(queue) \cup {t}
      /\ Ordered(queue', expire')
      /\ queue' # << >>
      /\ queue'[1] = t \/ (queue # << >> /\ queue'[1] = queue[1])
  <2> DEFINE ex == expire'
             r == queue'
  <2>1. /\ queue \in Seq(Timers) /\ ex \in [Timers -> Nat] /\ Ordered(queue, ex)
        /\ t \notin Range(queue) /\ r \in NodeAdd(queue, ex, t)
    BY <1>3, <1>4
  <2> HIDE DEF ex, r
  <2>2. /\ r \in Seq(Timers)
        /\ Range(r) = Range(queue) \cup {t}
        /\ Ordered(r, ex)
        /\ r # << >> /\ (r[1] = t \/ (queue # << >> /\ r[1] = queue[1]))
    BY <2>1, NodeAddKeepsOrder
  <2> QED
    BY <2>2 DEF ex, r
<1>6. wake' = (IF queue'[1] = t THEN now + ToInt(d) ELSE wake)
  BY <1>5 DEF timer_add, Observer, First
<1>7. TypeOK'
  <2>1. wake' \in Int
    BY <1>1, <1>2, <1>6, ToIntIsInt DEF TypeOK
  <2> QED
    BY <1>1, <1>3, <1>5, <2>1 DEF timer_add, TypeOK
<1>8. CursorOnQueue' /\ RunningIsTimer'
  BY <1>5 DEF timer_add, CursorOnQueue, RunningIsTimer, Queued
<1>9. ready' = [ready EXCEPT ![t] = 0] /\ loop' = [loop EXCEPT ![t] = l]
  BY DEF timer_add
<1>10. ReadyOnlyWhileRunning' /\ LoopUntilReadded'
  BY <1>3, <1>5, <1>9, SMTT(30) DEF timer_add, ReadyOnlyWhileRunning,
     LoopUntilReadded, Queued, TypeOK
<1>11. WakeInTime'
  <2> SUFFICES ASSUME pc = "idle"
               PROVE  wake' <= Later(expire'[queue'[1]], ticknow + 1) + overrun
    BY <1>5 DEF timer_add, WakeInTime, Later
  <2>1. CASE queue'[1] = t
    <3>1. wake' = now + ToInt(d) /\ expire'[queue'[1]] = now + d
      BY <2>1, <1>3, <1>6 DEF TypeOK
    <3>2. ToInt(d) \in Int /\ ToInt(d) <= d
      BY <1>1, ToIntIsInt
    <3>3. ticknow \in Nat /\ overrun \in Nat /\ now \in Nat
      BY TickAssumption DEF TypeOK
    <3> QED
      BY <3>1, <3>2, <3>3, <1>1 DEF Later
  <2>2. CASE queue'[1] # t
    <3>1. queue # << >> /\ queue'[1] = queue[1] /\ wake' = wake
      BY <2>2, <1>5, <1>6
    <3>2. expire'[queue'[1]] = expire[queue[1]]
      BY <3>1, <2>2, <1>3 DEF TypeOK
    <3> QED
      BY <3>1, <3>2 DEF WakeInTime
  <2> QED
    BY <2>1, <2>2
<1> QED
  BY <1>5, <1>7, <1>8, <1>10, <1>11

(* timer_cancel, of any timer. *)
LEMMA TimerCancelKeepsIInv ==
  ASSUME IInv, NEW t \in Timers, timer_cancel(t)
  PROVE  IInv'
<1> USE DEF IInv
<1>1. /\ queue' \in Seq(Timers)
      /\ Range(queue') = Range(queue) \ {t}
      /\ Ordered(queue', expire)
      /\ queue' # << >> => queue # << >> /\ expire[queue'[1]] >= expire[queue[1]]
  BY NodeRemoveKeepsOrder DEF timer_cancel, TypeOK
<1>2. cur_timer' \in (Range(queue) \ {t}) \cup {NULL}
  BY CurAfterRemoveIsQueued DEF timer_cancel, TypeOK, CursorOnQueue, Queued
<1>3. cur_timer # t => cur_timer' = cur_timer
  BY DEF timer_cancel, CurAfterRemove
<1>4. TypeOK'
  <2>1. cur_timer' \in Timers \cup {NULL}
    BY <1>2 DEF TypeOK, Range
  <2> QED
    BY <1>1, <2>1 DEF timer_cancel, TypeOK, fields
<1>5. CursorOnQueue' /\ RunningIsTimer'
  BY <1>1, <1>2 DEF timer_cancel, CursorOnQueue, RunningIsTimer, Queued
<1>6. ReadyOnlyWhileRunning' /\ LoopUntilReadded'
  BY <1>1, <1>3 DEF timer_cancel, ReadyOnlyWhileRunning, LoopUntilReadded,
     Queued, fields
<1>7. WakeInTime'
  <2> SUFFICES ASSUME pc = "idle", queue' # << >>
               PROVE  wake <= Later(expire[queue'[1]], ticknow + 1) + overrun
    BY DEF timer_cancel, WakeInTime, fields, Later
  <2>1. queue'[1] \in Timers /\ queue[1] \in Timers
    BY <1>1 DEF TypeOK
  <2>2. wake <= Later(expire[queue[1]], ticknow + 1) + overrun
    BY <1>1 DEF WakeInTime
  <2>3. expire[queue[1]] <= expire[queue'[1]]
    BY <1>1
  <2>4. /\ expire[queue[1]] \in Nat /\ expire[queue'[1]] \in Nat
        /\ wake \in Int /\ ticknow \in Nat /\ overrun \in Nat
    BY <2>1, TickAssumption DEF TypeOK
  <2> QED
    BY <2>2, <2>3, <2>4 DEF Later
<1>8. Ordered(queue', expire')
  BY <1>1 DEF timer_cancel, fields
<1> QED
  BY <1>4, <1>5, <1>6, <1>7, <1>8

(* The beginning of a pass. *)
LEMMA StartPassKeepsIInv ==
  ASSUME IInv, StartPass
  PROVE  IInv'
<1> USE DEF IInv, StartPass, fields
<1>1. First(queue) \in Range(queue) \cup {NULL}
  <2>1. CASE queue = << >>
    BY <2>1 DEF First
  <2>2. CASE queue # << >>
    <3>1. 1 \in DOMAIN queue
      BY <2>2 DEF TypeOK
    <3> QED
      BY <2>2, <3>1 DEF First, Range
  <2> QED
    BY <2>1, <2>2
<1>2. Range(queue) \subseteq Timers
  BY DEF TypeOK, Range
<1>3. TypeOK'
  BY <1>1, <1>2 DEF TypeOK
<1>4. Ordered(queue', expire')
  BY DEF Ordered
<1>5. CursorOnQueue'
  BY <1>1 DEF CursorOnQueue, Queued
<1> QED
  BY <1>3, <1>4, <1>5 DEF RunningIsTimer, ReadyOnlyWhileRunning,
     LoopUntilReadded, WakeInTime, Queued

(* A timeout leaves the list and its callback is entered. *)
LEMMA FireOnceKeepsIInv ==
  ASSUME IInv, FireOnce
  PROVE  IInv'
<1> USE DEF IInv
<1> DEFINE t == cur_timer
<1>1. t \in Timers /\ t \in Range(queue)
  BY DEF FireOnce, Due, TypeOK, CursorOnQueue, Queued
<1>2. /\ queue' \in Seq(Timers)
      /\ Range(queue') = Range(queue) \ {t}
      /\ Ordered(queue', expire)
  BY <1>1, NodeRemoveKeepsOrder DEF FireOnce, TypeOK
<1>3. cur_timer' \in (Range(queue) \ {t}) \cup {NULL}
  BY <1>1, CurAfterRemoveIsQueued DEF FireOnce, TypeOK
<1>4. ready' = [ready EXCEPT ![t] = 1]
  BY DEF FireOnce, MarkReady
<1>5. TypeOK'
  BY <1>1, <1>2, <1>3, <1>4 DEF FireOnce, TypeOK, Range
<1>6. CursorOnQueue' /\ RunningIsTimer'
  BY <1>1, <1>2, <1>3 DEF FireOnce, CursorOnQueue, RunningIsTimer, Queued
<1>7. ReadyOnlyWhileRunning'
  <2> SUFFICES ASSUME NEW u \in Range(queue') PROVE ready'[u] # 1
    BY DEF ReadyOnlyWhileRunning, Queued
  <2>1. u \in Range(queue) /\ u \in Timers /\ u # t
    BY <1>2, QueuedAreTimers
  <2>2. ready[u] # 1
    BY <2>1 DEF FireOnce, ReadyOnlyWhileRunning, Queued
  <2> QED
    BY <2>1, <2>2, <1>4 DEF TypeOK
<1>8. LoopUntilReadded' /\ WakeInTime'
  BY DEF FireOnce, LoopUntilReadded, WakeInTime
<1>9. Ordered(queue', expire')
  BY <1>2 DEF FireOnce
<1> QED
  BY <1>5, <1>6, <1>7, <1>8, <1>9

(* The callback of an interval is entered. *)
LEMMA FireIntervalKeepsIInv ==
  ASSUME IInv, FireInterval
  PROVE  IInv'
<1> USE DEF IInv
<1> DEFINE t == cur_timer
<1>1. t \in Timers /\ t \in Range(queue) /\ loop[t]
  BY DEF FireInterval, Due, TypeOK, CursorOnQueue, Queued
<1>2. ready' = [ready EXCEPT ![t] = 1]
  BY DEF FireInterval, MarkReady
<1>3. TypeOK'
  BY <1>1, <1>2 DEF FireInterval, TypeOK
<1>4. Ordered(queue', expire') /\ CursorOnQueue' /\ RunningIsTimer'
  BY <1>1 DEF FireInterval, Ordered, CursorOnQueue, RunningIsTimer, Queued
<1>5. ReadyOnlyWhileRunning'
  BY <1>1, <1>2 DEF FireInterval, ReadyOnlyWhileRunning, Queued, TypeOK, Range
<1>6. LoopUntilReadded' /\ WakeInTime'
  BY <1>1 DEF FireInterval, LoopUntilReadded, WakeInTime
<1> QED
  BY <1>3, <1>4, <1>5, <1>6

(* The callback of an interval returns and the interval is re-armed. *)
LEMMA RearmIntervalKeepsIInv ==
  ASSUME IInv, RearmInterval
  PROVE  IInv'
<1> USE DEF IInv
<1> DEFINE t == running
           r == NodeRemove(queue, t)
           e == RearmedExpire(t)
<1>1. t \in Timers /\ t = cur_timer /\ t \in Range(queue)
  BY NullAssumption DEF RearmInterval, StillArmed, RunningIsTimer, CursorOnQueue, Queued
<1>2. e \in Nat
  <2>1. ToInt(interval[t]) \in Int
    BY <1>1, ToIntIsInt, IntMaxAssumption DEF TypeOK
  <2> QED
    BY <2>1, <1>1, TickAssumption DEF RearmedExpire, TypeOK
<1>3. /\ r \in Seq(Timers)
      /\ Range(r) = Range(queue) \ {t}
      /\ Ordered(r, expire)
  BY <1>1, NodeRemoveKeepsOrder DEF TypeOK
<1>4. /\ expire' = [expire EXCEPT ![t] = e]
      /\ ready' = [ready EXCEPT ![t] = 0]
      /\ queue' \in NodeAdd(r, expire', t)
      /\ cur_timer' = Successor(queue', t)
      /\ pc' = "scan"
      /\ running' = NULL
  BY DEF RearmInterval, ClearReady
<1> HIDE DEF r, e
<1>5. expire' \in [Timers -> Nat]
  BY <1>1, <1>2, <1>4 DEF TypeOK
<1>6. Ordered(r, expire')
  <2>1. ASSUME NEW i \in 1 .. Len(r) PROVE expire'[r[i]] = expire[r[i]]
    <3>1. r[i] \in Timers /\ r[i] # t
      BY <1>3 DEF Range
    <3> QED
      BY <3>1, <1>4 DEF TypeOK
  <2> QED
    BY <2>1, <1>3 DEF Ordered
<1>7. /\ queue' \in Seq(Timers)
      /\ Range(queue') = Range(r) \cup {t}
      /\ Ordered(queue', expire')
  <2> DEFINE ex == expire'
             s == queue'
  <2>1. /\ r \in Seq(Timers) /\ ex \in [Timers -> Nat] /\ Ordered(r, ex)
        /\ t \notin Range(r) /\ s \in NodeAdd(r, ex, t)
    BY <1>3, <1>4, <1>5, <1>6
  <2> HIDE DEF ex, s
  <2>2. s \in Seq(Timers) /\ Range(s) = Range(r) \cup {t} /\ Ordered(s, ex)
    BY <1>1, <2>1, NodeAddKeepsOrder
  <2> QED
    BY <2>2 DEF ex, s
<1>8. cur_timer' \in (Range(queue') \ {t}) \cup {NULL}
  BY <1>4, <1>7, SuccessorIsQueued
<1>9. TypeOK'
  <2>1. cur_timer' \in Timers \cup {NULL}
    BY <1>7, <1>8 DEF Range
  <2>2. ready' \in [Timers -> {0, 1}]
    BY <1>4 DEF TypeOK
  <2> QED
    BY <1>4, <1>5, <1>7, <2>1, <2>2 DEF RearmInterval, TypeOK
<1>10. CursorOnQueue' /\ RunningIsTimer' /\ LoopUntilReadded' /\ WakeInTime'
  BY <1>4, <1>8 DEF CursorOnQueue, RunningIsTimer, LoopUntilReadded, WakeInTime, Queued
<1>11. ReadyOnlyWhileRunning'
  <2> SUFFICES ASSUME NEW u \in Range(queue') PROVE ready'[u] # 1
    BY DEF ReadyOnlyWhileRunning, Queued
  <2>1. CASE u = t
    BY <2>1, <1>1, <1>4 DEF TypeOK
  <2>2. CASE u # t
    <3>1. u \in Range(queue) /\ u \in Timers
      BY <2>2, <1>3, <1>7, QueuedAreTimers
    <3>2. ready[u] # 1
      BY <3>1, <2>2 DEF ReadyOnlyWhileRunning, Queued
    <3> QED
      BY <2>2, <3>1, <3>2, <1>4 DEF TypeOK
  <2> QED
    BY <2>1, <2>2
<1> QED
  BY <1>7, <1>9, <1>10, <1>11

(* The callback made a timeout of its own timer. *)
LEMMA SkipRearmedOnceKeepsIInv ==
  ASSUME IInv, SkipRearmedOnce
  PROVE  IInv'
<1> USE DEF IInv, SkipRearmedOnce, fields
<1> DEFINE t == running
<1>1. t \in Timers /\ t = cur_timer /\ t \in Range(queue) /\ ~loop[t]
  BY NullAssumption DEF StillArmed, RunningIsTimer, CursorOnQueue, Queued
<1>2. cur_timer' \in (Range(queue) \ {t}) \cup {NULL}
  BY <1>1, SuccessorIsQueued DEF TypeOK
<1>3. Range(queue) \subseteq Timers
  BY DEF TypeOK, Range
<1>4. TypeOK'
  BY <1>2, <1>3 DEF TypeOK
<1>5. Ordered(queue', expire')
  BY DEF Ordered
<1>6. ReadyOnlyWhileRunning'
  BY <1>1 DEF ReadyOnlyWhileRunning, LoopUntilReadded, Queued, TypeOK
<1> QED
  BY <1>2, <1>4, <1>5, <1>6 DEF CursorOnQueue, RunningIsTimer,
     LoopUntilReadded, WakeInTime, Queued

(* The steps that leave the list alone. *)
LEMMA OtherStepsKeepIInv ==
  ASSUME IInv, Tick \/ OnceReturns \/ LeaveCancelled \/ UNCHANGED vars
  PROVE  IInv'
<1> USE DEF IInv
<1>1. /\ UNCHANGED <<queue, cur_timer, fields>>
      /\ running' \in {running, NULL}
      /\ pc' \in {pc, "scan"}
      /\ pc' = pc => running' = running
  BY DEF Tick, OnceReturns, LeaveCancelled, vars, fields
<1>2. TypeOK'
  BY <1>1, TickAssumption, SMTT(30)
     DEF Tick, OnceReturns, LeaveCancelled, vars, fields, TypeOK
<1>3. Ordered(queue', expire') /\ CursorOnQueue' /\ RunningIsTimer'
  BY <1>1 DEF Ordered, CursorOnQueue, RunningIsTimer, Queued, fields
<1>4. ReadyOnlyWhileRunning'
  BY <1>1 DEF Tick, OnceReturns, LeaveCancelled, StillArmed, vars, fields,
     ReadyOnlyWhileRunning, Queued
<1>5. LoopUntilReadded' /\ WakeInTime'
  BY DEF Tick, OnceReturns, LeaveCancelled, vars, fields, LoopUntilReadded,
     WakeInTime, Queued
<1> QED
  BY <1>2, <1>3, <1>4, <1>5

(* The end of a pass: the sleep it asks for ends in time. *)
LEMMA EndPassKeepsIInv ==
  ASSUME IInv, EndPass
  PROVE  IInv'
<1> USE DEF IInv, EndPass, fields
<1>1. queue # << >> => queue[1] \in Timers /\ expire[queue[1]] \in Nat
  BY DEF TypeOK
<1>2. NextSleep \in Int
  <2>1. CASE queue = << >>
    BY <2>1, IntMaxAssumption DEF NextSleep
  <2>2. CASE queue # << >> /\ expire[queue[1]] < ticknow
    BY <2>2 DEF NextSleep
  <2>3. CASE queue # << >> /\ ~(expire[queue[1]] < ticknow)
    <3>1. expire[queue[1]] - ticknow \in Nat
      BY <2>3, <1>1, TickAssumption DEF TypeOK
    <3> QED
      BY <2>3, <3>1, ToIntIsInt DEF NextSleep
  <2> QED
    BY <2>1, <2>2, <2>3
<1>3. queue # << >> => now + NextSleep
                         <= Later(expire[queue[1]], ticknow + 1) + (now - ticknow)
  <2>1. CASE expire[queue[1]] < ticknow
    BY <2>1, <1>1, TickAssumption, SMTT(30) DEF NextSleep, Later, TypeOK
  <2>2. CASE ~(expire[queue[1]] < ticknow)
    <3> SUFFICES ASSUME queue # << >>
                 PROVE  now + NextSleep
                          <= Later(expire[queue[1]], ticknow + 1) + (now - ticknow)
      OBVIOUS
    <3>1. expire[queue[1]] - ticknow \in Nat
      BY <2>2, <1>1, TickAssumption DEF TypeOK
    <3>2. NextSleep <= expire[queue[1]] - ticknow
      BY <3>1, <2>2, ToIntIsInt DEF NextSleep
    <3> QED
      BY <3>2, <1>1, <1>2, TickAssumption, SMTT(30) DEF Later, TypeOK
  <2> QED
    BY <2>1, <2>2
<1>4. Ordered(queue', expire') /\ CursorOnQueue' /\ RunningIsTimer'
      /\ ReadyOnlyWhileRunning' /\ LoopUntilReadded'
  BY DEF Ordered, CursorOnQueue, RunningIsTimer, ReadyOnlyWhileRunning,
     LoopUntilReadded, Queued
<1>5. WakeInTime'
  BY <1>3 DEF WakeInTime, Later
<1>6. TypeOK'
  BY <1>2, TickAssumption DEF TypeOK
<1> QED
  BY <1>4, <1>5, <1>6

LEMMA NextKeepsIInv == IInv /\ [Next]_vars => IInv'
<1> SUFFICES ASSUME IInv, [Next]_vars PROVE IInv'
  OBVIOUS
<1>1. ASSUME NEW t \in Timers, NEW d \in Timeouts, timer_add(t, d, FALSE) PROVE IInv'
  BY <1>1, TimerAddKeepsIInv
<1>2. ASSUME NEW t \in Timers, NEW d \in Intervals, timer_add(t, d, TRUE) PROVE IInv'
  BY <1>2, TimerAddKeepsIInv
<1>3. ASSUME NEW t \in Timers, timer_cancel(t) PROVE IInv'
  BY <1>3, TimerCancelKeepsIInv
<1>4. CASE StartPass
  BY <1>4, StartPassKeepsIInv
<1>5. CASE FireOnce
  BY <1>5, FireOnceKeepsIInv
<1>6. CASE FireInterval
  BY <1>6, FireIntervalKeepsIInv
<1>7. CASE RearmInterval
  BY <1>7, RearmIntervalKeepsIInv
<1>8. CASE SkipRearmedOnce
  BY <1>8, SkipRearmedOnceKeepsIInv
<1>9. CASE EndPass
  BY <1>9, EndPassKeepsIInv
<1>10. CASE Tick \/ OnceReturns \/ LeaveCancelled \/ UNCHANGED vars
  BY <1>10, OtherStepsKeepIInv
<1> QED
  BY <1>1, <1>2, <1>3, <1>4, <1>5, <1>6, <1>7, <1>8, <1>9, <1>10
     DEF Next, PassStep

LEMMA InvariantHolds == Spec => []IInv
BY InitIInv, NextKeepsIInv, PTL DEF Spec

-----------------------------------------------------------------------------
(* Every variable keeps its type: expire stays a natural number, though an  *)
(* interval above INT_MAX counts as a negative one when it is re-armed.     *)
THEOREM TypeCorrect == Spec => []TypeOK
<1>1. IInv => TypeOK
  BY DEF IInv
<1> QED
  BY <1>1, InvariantHolds, PTL

(* The list stays sorted and holds no timer twice.                          *)
THEOREM ListStaysOrdered == Spec => []QueueOrdered
<1>1. IInv => QueueOrdered
  <2> SUFFICES ASSUME IInv PROVE QueueOrdered
    OBVIOUS
  <2>1. DOMAIN queue = 1 .. Len(queue)
    BY DEF IInv, TypeOK
  <2> QED
    BY <2>1 DEF IInv, Ordered, QueueOrdered
<1> QED
  BY <1>1, InvariantHolds, PTL

(* The pass never stands on a timer that has left the list, whatever the    *)
(* callbacks add and cancel.                                                *)
THEOREM CursorStaysOnList == Spec => []CursorOnQueue
<1>1. IInv => CursorOnQueue
  BY DEF IInv
<1> QED
  BY <1>1, InvariantHolds, PTL

(* A timer of the list is marked ready only while its callback runs.        *)
THEOREM ReadyIsRunning == Spec => []ReadyOnlyWhileRunning
<1>1. IInv => ReadyOnlyWhileRunning
  BY DEF IInv
<1> QED
  BY <1>1, InvariantHolds, PTL

(* Between two passes the host wakes in time for the first deadline.        *)
THEOREM HostWakesInTime == Spec => []WakeInTime
<1>1. IInv => WakeInTime
  BY DEF IInv
<1> QED
  BY <1>1, InvariantHolds, PTL

-----------------------------------------------------------------------------
(* TimerQueue implements TimerContract, if intervals fit an int and no     *)
(* interval's callback cancels and re-adds its own timer.  Without either  *)
(* assumption it does not: an interval beyond an int is due again earlier, *)
(* and a deadline that a callback has given its own interval anew is moved *)
(* at once.                                                                *)

DelaysFitInt == Timeouts \cup Intervals \subseteq 0 .. IntMax

(* What the refinement needs beyond the invariant of the queue: delays are *)
(* what they were asked to be, and an interval that is still on the list   *)
(* after its callback is still the place of the pass.                      *)
RInv ==
  /\ interval \in [Timers -> 0 .. IntMax]
  /\ pc = "interval" /\ running \in Queued => /\ running = cur_timer
                                              /\ loop[running]


LEMMA InitRInv == Init => RInv
BY IntMaxAssumption DEF Init, RInv

LEMMA NextKeepsRInv ==
  ASSUME DelaysFitInt, RearmsInCallback = FALSE, IInv, RInv, [Next]_vars
  PROVE  RInv'
<1> USE DEF RInv
<1>1. ASSUME NEW t \in Timers, NEW d \in Timeouts \cup Intervals, NEW l \in BOOLEAN,
             timer_add(t, d, l)
      PROVE  RInv'
  <2>1. d \in 0 .. IntMax
    BY DEF DelaysFitInt
  <2>2. interval' \in [Timers -> 0 .. IntMax]
    BY <1>1, <2>1 DEF timer_add
  <2>3. ASSUME pc = "interval", running \in Range(queue')
        PROVE  running = cur_timer /\ loop'[running]
    <3>1. queue' \in NodeAdd(queue, expire', t) /\ t \notin Range(queue) /\ running # t
      BY <1>1, <2>3 DEF timer_add, Queued
    <3>2. expire' \in [Timers -> Nat] /\ Ordered(queue, expire') /\ queue \in Seq(Timers)
      <4>1. now + d \in Nat
        BY <2>1, TickAssumption DEF IInv, TypeOK
      <4>2. expire' = [expire EXCEPT ![t] = now + d]
        BY <1>1 DEF timer_add
      <4>3. expire' \in [Timers -> Nat] /\ queue \in Seq(Timers)
        BY <4>1, <4>2 DEF IInv, TypeOK
      <4>4. ASSUME NEW i \in 1 .. Len(queue) PROVE expire'[queue[i]] = expire[queue[i]]
        BY <3>1, <4>2, <4>3 DEF Range, IInv, TypeOK
      <4> QED
        BY <4>3, <4>4 DEF Ordered, IInv
    <3>3. Range(queue') = Range(queue) \cup {t}
      <4> DEFINE ex == expire'
                 r == queue'
      <4>1. /\ queue \in Seq(Timers) /\ ex \in [Timers -> Nat] /\ Ordered(queue, ex)
            /\ t \notin Range(queue) /\ r \in NodeAdd(queue, ex, t)
        BY <3>1, <3>2
      <4> HIDE DEF ex, r
      <4>2. Range(r) = Range(queue) \cup {t}
        BY <4>1, NodeAddKeepsOrder
      <4> QED
        BY <4>2 DEF r
    <3>4. running \in Range(queue) /\ loop' = [loop EXCEPT ![t] = l]
      BY <1>1, <2>3, <3>1, <3>3 DEF timer_add
    <3> QED
      BY <2>3, <3>1, <3>4, QueuedAreTimers DEF Queued, IInv, TypeOK
  <2> QED
    BY <1>1, <2>2, <2>3 DEF timer_add, Queued
<1>2. ASSUME NEW t \in Timers, timer_cancel(t) PROVE RInv'
  <2>1. Range(queue') = Range(queue) \ {t}
    BY <1>2, NodeRemoveKeepsOrder DEF timer_cancel, IInv, TypeOK
  <2>2. cur_timer # t => cur_timer' = cur_timer
    BY <1>2 DEF timer_cancel, CurAfterRemove
  <2> QED
    BY <1>2, <2>1, <2>2 DEF timer_cancel, fields, Queued
<1>3. CASE FireInterval
  BY <1>3 DEF FireInterval
<1>4. CASE StartPass \/ FireOnce \/ OnceReturns \/ RearmInterval \/ SkipRearmedOnce
           \/ LeaveCancelled \/ EndPass
  BY <1>4 DEF StartPass, FireOnce, OnceReturns, RearmInterval, SkipRearmedOnce,
     LeaveCancelled, EndPass, fields
<1>5. CASE Tick \/ UNCHANGED vars
  BY <1>5 DEF Tick, vars, fields, Queued
<1> QED
  BY <1>1, <1>2, <1>3, <1>4, <1>5 DEF Next, PassStep

LEMMA InitRefines == Init => Armed!CInit
BY DEF Init, Armed!CInit, Queued, Range

(* Each step of the queue is a step of the contract or leaves its variables *)
(* alone.                                                                   *)
LEMMA StepRefines ==
  ASSUME DelaysFitInt, RearmsInCallback = FALSE, IInv, RInv, IInv', [Next]_vars
  PROVE  [Armed!CNext]_(Armed!cvars)
<1> USE DEF Queued
<1>1. now \in Nat /\ ticknow \in Nat /\ ticknow <= now /\ MaxTick \in Nat
  BY TickAssumption DEF IInv, TypeOK
<1>2. ASSUME NEW t \in Timers, NEW d \in Timeouts \cup Intervals, NEW l \in BOOLEAN,
             timer_add(t, d, l)
      PROVE  Armed!Arm(t, d, l)
  <2>1. /\ queue' \in NodeAdd(queue, expire', t) /\ t \notin Range(queue)
        /\ expire' = [expire EXCEPT ![t] = now + d]
        /\ ~(pc = "interval" /\ running = t)
    BY <1>2 DEF timer_add
  <2>2. d \in Nat
    BY DEF DelaysFitInt
  <2>3. Range(queue') = Range(queue) \cup {t}
    <3> DEFINE ex == expire'
               r == queue'
    <3>1. ASSUME NEW i \in 1 .. Len(queue) PROVE expire'[queue[i]] = expire[queue[i]]
      <4>1. i \in DOMAIN queue /\ queue[i] \in Timers
        BY DEF IInv, TypeOK
      <4>2. queue[i] # t
        BY <2>1, <4>1 DEF Range
      <4> QED
        BY <2>1, <4>1, <4>2 DEF IInv, TypeOK
    <3>2. /\ queue \in Seq(Timers) /\ ex \in [Timers -> Nat] /\ Ordered(queue, ex)
          /\ t \notin Range(queue) /\ r \in NodeAdd(queue, ex, t)
      BY <1>1, <2>1, <2>2, <3>1 DEF IInv, TypeOK, Ordered
    <3> HIDE DEF ex, r
    <3>3. Range(r) = Range(queue) \cup {t}
      BY <3>2, NodeAddKeepsOrder
    <3> QED
      BY <3>3 DEF r
  <2>4. (pc' = "interval" /\ running' \in Range(queue'))
          = (pc = "interval" /\ running \in Range(queue))
    BY <1>2, <2>1, <2>3 DEF timer_add
  <2> QED
    BY <1>2, <2>1, <2>3, <2>4 DEF timer_add, Armed!Arm
<1>3. ASSUME NEW t \in Timers, timer_cancel(t) PROVE Armed!Disarm(t)
  <2>1. Range(queue') = Range(queue) \ {t}
    BY <1>3, NodeRemoveKeepsOrder DEF timer_cancel, IInv, TypeOK
  <2>2. (pc' = "interval" /\ running' \in Range(queue'))
          = ((pc = "interval" /\ running \in Range(queue))
               /\ t # IF pc \in {"once", "interval"} THEN running ELSE NULL)
    BY <1>3, <2>1 DEF timer_cancel
  <2> QED
    BY <1>3, <2>1, <2>2 DEF timer_cancel, fields, Armed!Disarm
<1>4. CASE FireOnce
  <2>1. cur_timer \in Timers /\ cur_timer \in Range(queue) /\ expire[cur_timer] <= ticknow
        /\ ~loop[cur_timer]
    BY <1>4 DEF FireOnce, Due, IInv, TypeOK, CursorOnQueue
  <2>2. Range(queue') = Range(queue) \ {cur_timer}
    BY <1>4, <2>1, NodeRemoveKeepsOrder DEF FireOnce, IInv, TypeOK
  <2>3. expire[cur_timer] <= now
    BY <1>1, <2>1 DEF IInv, TypeOK
  <2>4. Armed!Fire(cur_timer)
    BY <1>4, <2>1, <2>2, <2>3 DEF FireOnce, Armed!Fire, IInv, TypeOK
  <2> QED
    <3>1. \E u \in Timers : Armed!Fire(u)
      BY <2>1, <2>4
    <3>2. Armed!CNext
      BY <3>1, Zenon DEF Armed!CNext
    <3> QED
      BY <3>2
<1>5. CASE FireInterval
  <2>1. cur_timer \in Timers /\ cur_timer \in Range(queue) /\ expire[cur_timer] <= ticknow
        /\ loop[cur_timer]
    BY <1>5 DEF FireInterval, Due, IInv, TypeOK, CursorOnQueue
  <2>2. expire[cur_timer] <= now
    BY <1>1, <2>1 DEF IInv, TypeOK
  <2>3. Armed!Fire(cur_timer)
    BY <1>5, <2>1, <2>2 DEF FireInterval, Armed!Fire, IInv, TypeOK
  <2> QED
    <3>1. \E u \in Timers : Armed!Fire(u)
      BY <2>1, <2>3
    <3>2. Armed!CNext
      BY <3>1, Zenon DEF Armed!CNext
    <3> QED
      BY <3>2
<1>6. CASE OnceReturns
  <2>1. running \in Timers /\ running # NULL
    BY <1>6, NullAssumption DEF OnceReturns, IInv, RunningIsTimer
  <2>2. Armed!Return
    BY <1>6, <2>1 DEF OnceReturns, fields, Armed!Return
  <2> QED
    BY <2>2 DEF Armed!CNext
<1>7. CASE RearmInterval
  <2> DEFINE t == running
             e == RearmedExpire(t)
  <2>1. t \in Timers /\ t # NULL /\ t \in Range(queue)
    BY <1>7, NullAssumption DEF RearmInterval, StillArmed, IInv, RunningIsTimer,
       CursorOnQueue
  <2>2. interval[t] \in 0 .. IntMax /\ ToInt(interval[t]) = interval[t]
    BY <2>1, IntMaxAssumption DEF RInv, ToInt
  <2>3. expire[t] \in Nat /\ interval[t] \in Nat
    BY <2>1, <2>2, IntMaxAssumption DEF IInv, TypeOK
  <2>4. /\ e \in 0 .. MaxTick + expire[t] + interval[t] + 1
        /\ \/ e = expire[t] + interval[t]
           \/ expire[t] + interval[t] < e /\ e <= now + 1
    <3>1. CASE expire[t] + interval[t] < ticknow
      <4>1. e = ticknow + 1
        BY <3>1, <2>2 DEF RearmedExpire
      <4>2. ticknow <= MaxTick
        BY <1>1 DEF IInv, TypeOK
      <4> HIDE DEF e, t
      <4> QED
        BY <3>1, <4>1, <4>2, <2>3, <1>1
    <3>2. CASE ~(expire[t] + interval[t] < ticknow)
      BY <3>2, <2>2, <2>3, <1>1 DEF RearmedExpire
    <3> QED
      BY <3>1, <3>2
  <2>5. Range(queue') = Range(queue)
    <3> DEFINE r == NodeRemove(queue, t)
               ex == expire'
               s == queue'
    <3>1. r \in Seq(Timers) /\ Range(r) = Range(queue) \ {t} /\ Ordered(r, expire)
      BY <2>1, NodeRemoveKeepsOrder DEF IInv, TypeOK
    <3>2. ex = [expire EXCEPT ![t] = e] /\ s \in NodeAdd(r, ex, t)
      BY <1>7 DEF RearmInterval
    <3>3. e \in Nat
      BY <2>3, <2>4, <1>1
    <3> HIDE DEF r, e, ex, s
    <3>4. ex \in [Timers -> Nat]
      BY <3>2, <3>3 DEF IInv, TypeOK
    <3>5. ASSUME NEW i \in 1 .. Len(r) PROVE ex[r[i]] = expire[r[i]]
      <4>1. r[i] \in Timers /\ r[i] # t
        BY <3>1 DEF Range
      <4> QED
        BY <4>1, <3>2 DEF IInv, TypeOK
    <3>6. Ordered(r, ex) /\ t \notin Range(r)
      BY <3>1, <3>5 DEF Ordered
    <3>7. Range(s) = Range(r) \cup {t}
      BY <2>1, <3>1, <3>2, <3>4, <3>6, NodeAddKeepsOrder
    <3> QED
      BY <2>1, <3>1, <3>7 DEF s
  <2>6. expire' = [expire EXCEPT ![t] = e]
    BY <1>7 DEF RearmInterval
  <2> HIDE DEF e
  <2>7. Armed!Return
    BY <1>7, <2>1, <2>4, <2>5, <2>6 DEF RearmInterval, Armed!Return, Armed!NextDeadline
  <2> QED
    BY <2>7 DEF Armed!CNext
<1>8. CASE SkipRearmedOnce
  <2>1. running \in Range(queue) /\ pc = "interval" /\ ~loop[running]
    BY <1>8, NullAssumption DEF SkipRearmedOnce, StillArmed, IInv, RunningIsTimer,
       CursorOnQueue
  <2> QED
    BY <2>1 DEF RInv
<1>9. CASE LeaveCancelled
  <2>1. running \in Timers /\ running # NULL /\ running \notin Range(queue)
    BY <1>9, NullAssumption DEF LeaveCancelled, StillArmed, IInv, RunningIsTimer, RInv
  <2>2. Armed!Return
    BY <1>9, <2>1 DEF LeaveCancelled, fields, Armed!Return
  <2> QED
    BY <2>2 DEF Armed!CNext
<1>10. CASE StartPass \/ EndPass \/ UNCHANGED vars
  <2>1. UNCHANGED <<now, queue, expire, interval, loop, running>>
    BY <1>10 DEF StartPass, EndPass, vars, fields
  <2>2. \/ pc' = pc
        \/ pc \notin {"once", "interval"} /\ pc' \notin {"once", "interval"}
    BY <1>10 DEF StartPass, EndPass, vars
  <2> QED
    BY <2>1, <2>2 DEF Armed!cvars
<1>11. CASE Tick
  <2>1. Armed!Pass
    BY <1>11 DEF Tick, fields, Armed!Pass
  <2> QED
    BY <2>1 DEF Armed!CNext
<1>12. ASSUME NEW t \in Timers, NEW d \in Timeouts, timer_add(t, d, FALSE)
       PROVE  Armed!CNext
  BY <1>12, <1>2 DEF Armed!CNext
<1>13. ASSUME NEW t \in Timers, NEW d \in Intervals, timer_add(t, d, TRUE)
       PROVE  Armed!CNext
  BY <1>13, <1>2 DEF Armed!CNext
<1>14. ASSUME NEW t \in Timers, timer_cancel(t) PROVE Armed!CNext
  <2>1. \E u \in Timers : Armed!Disarm(u)
    BY <1>14, <1>3
  <2> QED
    BY <2>1, Zenon DEF Armed!CNext
<1> QED
  BY <1>4, <1>5, <1>6, <1>7, <1>8, <1>9, <1>10, <1>11, <1>12, <1>13, <1>14
     DEF Next, PassStep

(* The queue keeps the contract of timerqueue.h: no early callback, none    *)
(* after a cancellation, one run of a timeout, one period between the       *)
(* deadlines of an interval.                                                *)
THEOREM QueueKeepsContract ==
  ASSUME DelaysFitInt, RearmsInCallback = FALSE
  PROVE  Spec => Contract
<1>1. IInv /\ RInv /\ [Next]_vars => RInv'
  BY NextKeepsRInv
<1>2. IInv /\ RInv /\ IInv' /\ [Next]_vars => [Armed!CNext]_(Armed!cvars)
  BY StepRefines
<1> QED
  BY <1>1, <1>2, InitRInv, InitRefines, InvariantHolds, PTL
     DEF Spec, Contract, Armed!CSpec

-----------------------------------------------------------------------------
(* What the hosts do to the queue, the queue allows.                       *)
LEMMA QueueSteps ==
  ASSUME [GuiNext]_guivars
  PROVE  [Next]_vars
<1>1. CASE GuiNext
  <2>1. CASE Tick /\ UNCHANGED host
    BY <2>1 DEF Next
  <2>2. CASE \E t \in Timers, d \in Timeouts : GuiAdd(t, d, FALSE)
    BY <2>2 DEF GuiAdd, Next
  <2>3. CASE \E t \in Timers, d \in Intervals : GuiAdd(t, d, TRUE)
    BY <2>3 DEF GuiAdd, Next
  <2>4. CASE \E t \in Timers : timer_cancel(t) /\ UNCHANGED host
    BY <2>4 DEF Next
  <2>5. CASE MainStep
    BY <2>5 DEF MainStep, TimerFires, MessageArrives, LoopTurns, GuiEndPass, OtherPassStep, Next, PassStep
  <2>6. CASE Waiter
    BY <2>6 DEF Waiter, WaitEnds, TestReady, PostReady
  <2> QED
    BY <1>1, <2>1, <2>2, <2>3, <2>4, <2>5, <2>6 DEF GuiNext
<1>2. CASE UNCHANGED guivars
  BY <1>2 DEF guivars
<1> QED
  BY <1>1, <1>2

(* Messages, dispatch sources, the waiting thread of Android and a plain   *)
(* loop run the queue as its specification says, so that what is proved of *)
(* the queue holds on every platform.                                      *)
THEOREM HostsRunTheQueue == GuiSpec => Spec
<1>1. GuiInit => Init
  BY DEF GuiInit
<1>2. [GuiNext]_guivars => [Next]_vars
  BY QueueSteps
<1> QED
  BY <1>1, <1>2, PTL DEF GuiSpec, Spec

(* With each host the timer queue keeps the contract of timerqueue.h.      *)
THEOREM HostsKeepContract ==
  ASSUME DelaysFitInt, RearmsInCallback = FALSE
  PROVE  GuiSpec => Contract
<1>1. Spec => Contract
  BY QueueKeepsContract
<1> QED
  BY <1>1, HostsRunTheQueue, PTL

-----------------------------------------------------------------------------
(* Android has no timer of the system, and all its passes are messages'.   *)
AndroidInv ==
  /\ messages \in Nat
  /\ timerqueueready_ \in 0 .. 1
  /\ platform = "android" => armed = NULL /\ origin = "message"
  /\ OnePassToCome

LEMMA AndroidInit ==
  ASSUME GuiInit
  PROVE  AndroidInv
BY DEF GuiInit, Init, AndroidInv, OnePassToCome

LEMMA AndroidStep ==
  ASSUME AndroidInv, [GuiNext]_guivars
  PROVE  AndroidInv'
<1> USE DEF AndroidInv, OnePassToCome
<1>1. CASE Tick /\ UNCHANGED host
  BY <1>1 DEF Tick, host
<1>2. ASSUME NEW t \in Timers, NEW d, NEW l, GuiAdd(t, d, l)
      PROVE  AndroidInv'
  <2>1. pc' = pc
    BY <1>2 DEF GuiAdd, timer_add
  <2>2. CASE UNCHANGED host
    BY <2>1, <2>2 DEF host
  <2>3. CASE on_timer_queue_change(ToInt(d))
    <3>1. /\ UNCHANGED <<platform, origin, timerqueueready_, waiter>>
          /\ messages' \in {messages, messages + 1}
          /\ platform = "android" => messages' = messages /\ armed' = armed
      BY <2>3 DEF on_timer_queue_change, Posts
    <3>2. CASE platform = "android"
      BY <2>1, <3>1, <3>2
    <3>3. CASE platform # "android"
      <4>1. messages' \in Nat
        BY <3>1
      <4> QED
        BY <3>1, <3>3, <4>1
    <3> QED
      BY <3>2, <3>3
  <2> QED
    BY <1>2, <2>2, <2>3 DEF GuiAdd
<1>3. CASE \E t \in Timers : timer_cancel(t) /\ UNCHANGED host
  BY <1>3 DEF timer_cancel, host
<1>4. CASE TimerFires
  BY <1>4 DEF TimerFires, StartPass, Elapsed
<1>5. CASE MessageArrives
  BY <1>5 DEF MessageArrives, StartPass, ReadyAtBegin
<1>6. CASE LoopTurns
  BY <1>6 DEF LoopTurns, host
<1>7. CASE GuiEndPass
  BY <1>7 DEF GuiEndPass, EndPass
<1>8. CASE OtherPassStep
  <2>1. pc # "idle" /\ pc' # "idle" /\ UNCHANGED host
    BY <1>8 DEF OtherPassStep, FireOnce, FireInterval, OnceReturns, RearmInterval, SkipRearmedOnce,
                LeaveCancelled
  <2> QED
    BY <2>1 DEF host
<1>9. CASE WaitEnds
  BY <1>9 DEF WaitEnds, vars
<1>10. CASE TestReady
  BY <1>10 DEF TestReady, vars
<1>11. CASE PostReady
  BY <1>11 DEF PostReady, vars
<1>12. CASE UNCHANGED guivars
  BY <1>12 DEF guivars, vars, host
<1> QED
  BY <1>1, <1>2, <1>3, <1>4, <1>5, <1>6, <1>7, <1>8, <1>9, <1>10, <1>11, <1>12 DEF GuiNext, MainStep, Waiter

(* One pass at most is on its way to the main thread of Android, whatever  *)
(* order the two threads write timerqueueready_ in and whatever the        *)
(* waiting thread still sees of it (guiasync_android.c:89-126).            *)
THEOREM PassesDoNotPileUp == GuiSpec => []OnePassToCome
<1>1. GuiInit => AndroidInv
  BY AndroidInit
<1>2. AndroidInv /\ [GuiNext]_guivars => AndroidInv'
  BY AndroidStep
<1>3. AndroidInv => OnePassToCome
  BY DEF AndroidInv
<1> QED
  BY <1>1, <1>2, <1>3, PTL DEF GuiSpec

-----------------------------------------------------------------------------
(* The pointers.  The inductive invariant: a walk stands on a node, and all *)
(* nodes in front of it expire earlier than the one it places; the list     *)
(* holds no node twice, so that a write through a pointer changes one node. *)

WalkInOrder ==
  node # NULL =>
    /\ node \notin Range(list)
    /\ \E k \in 1 .. Len(list) :
         /\ at = list[k]
         /\ \A j \in 1 .. k - 1 : deadline[list[j]] < deadline[node]

LInv ==
  /\ ListTypeOK
  /\ Linked
  /\ PlaceKept
  /\ Ordered(list, deadline)
  /\ place \in Range(list) \cup {NULL}
  /\ WalkInOrder

(* The place for a node is unique: the walk finds the one of NodeAdd.      *)
LEMMA PlaceIsUnique ==
  ASSUME NEW q \in Seq(Timers), NEW ex \in [Timers -> Nat], NEW t \in Timers,
         NEW k \in 1 .. Len(q) + 1,
         \A j \in 1 .. k - 1 : ex[q[j]] < ex[t],
         k <= Len(q) => ex[q[k]] >= ex[t],
         NEW r \in NodeAdd(q, ex, t)
  PROVE  r = InsertAt(q, k, t)
<1>1. PICK i \in 1 .. Len(q) + 1 :
        /\ \A j \in 1 .. i - 1 : ex[q[j]] < ex[t]
        /\ i <= Len(q) => ex[q[i]] >= ex[t]
        /\ r = InsertAt(q, i, t)
  BY DEF NodeAdd
<1>2. \A j \in 1 .. Len(q) : ex[q[j]] \in Nat
  OBVIOUS
<1>3. ~(i < k)
  <2> SUFFICES ASSUME i < k PROVE FALSE
    OBVIOUS
  <2>1. i \in 1 .. k - 1 /\ i \in 1 .. Len(q)
    OBVIOUS
  <2> QED
    BY <2>1, <1>1, <1>2
<1>4. ~(k < i)
  <2> SUFFICES ASSUME k < i PROVE FALSE
    OBVIOUS
  <2>1. k \in 1 .. i - 1 /\ k \in 1 .. Len(q)
    OBVIOUS
  <2> QED
    BY <2>1, <1>1, <1>2
<1>5. i = k
  BY <1>3, <1>4
<1> QED
  BY <1>1, <1>5

(* The node behind a node of the list is the one its `next' points to. *)
LEMMA NextIsSuccessor ==
  ASSUME ListTypeOK, Linked, NEW t \in Range(list)
  PROVE  next[t] = Successor(list, t)
<1>1. Position(list, t) \in 1 .. Len(list) /\ list[Position(list, t)] = t
  BY PositionOfQueued DEF ListTypeOK
<1> QED
  BY <1>1 DEF Linked, Successor, ListTypeOK

LEMMA InitLInv == ListInit => LInv
<1> SUFFICES ASSUME ListInit PROVE LInv
  OBVIOUS
<1>1. Range(list) = {} /\ Len(list) = 0 /\ list \in Seq(Timers) /\ DOMAIN list = {}
  BY DEF ListInit, Range
<1> QED
  BY <1>1 DEF ListInit, LInv, ListTypeOK, Linked, PlaceKept, Ordered, WalkInOrder, First

(* The first node of an empty list. *)
LEMMA AddToEmptyKeepsLInv ==
  ASSUME LInv, NEW t \in Timers, NEW e \in Deadlines, AddToEmpty(t, e)
  PROVE  LInv'
<1> USE DEF LInv
<1>1. list = << >>
  <2>1. ASSUME list # << >> PROVE FALSE
    <3>1. list[1] \in Timers /\ First(list) = list[1]
      BY <2>1 DEF ListTypeOK, First
    <3> QED
      BY <3>1, NullAssumption DEF AddToEmpty, Linked
  <2> QED
    BY <2>1
<1>2. list' = <<t>>
  <2>1. PICK i \in 1 .. Len(list) + 1 : list' = InsertAt(list, i, t)
    BY DEF AddToEmpty, NodeAdd
  <2>2. i = 1 /\ Len(list) = 0
    BY <1>1, <2>1
  <2>3. /\ list' \in Seq(Timers) /\ Len(list') = 1 /\ list'[1] = t
    <3> DEFINE s == InsertAt(list, i, t)
    <3>1. list \in Seq(Timers)
      BY DEF ListTypeOK
    <3>2. /\ s \in Seq(Timers) /\ Len(s) = Len(list) + 1 /\ s[i] = t
      BY <2>1, <3>1, InsertTimer
    <3> QED
      BY <2>1, <2>2, <3>2
  <2> QED
    BY <2>3
<1>3. Range(list') = {t} /\ Len(list') = 1 /\ list'[1] = t /\ DOMAIN list' = {1}
  BY <1>2 DEF Range
<1>4. /\ first' = t
      /\ next' = [next EXCEPT ![t] = NULL]
      /\ prev' = [prev EXCEPT ![t] = NULL]
      /\ deadline' = [deadline EXCEPT ![t] = e]
      /\ UNCHANGED <<cur, node, at, place>>
      /\ node = NULL
  BY DEF AddToEmpty
<1>5. ListTypeOK'
  BY <1>2, <1>4 DEF ListTypeOK
<1>6. Linked'
  <2>1. Range(list) = {}
    BY <1>1 DEF Range
  <2>2. first' = First(list')
    BY <1>2, <1>3, <1>4 DEF First
  <2>3. next'[t] = NULL /\ prev'[t] = NULL
    BY <1>4 DEF ListTypeOK
  <2>4. ASSUME NEW u \in Timers \ {t} PROVE next'[u] = NULL /\ prev'[u] = NULL
    BY <2>1, <1>4 DEF Linked, ListTypeOK
  <2> QED
    BY <2>2, <2>3, <2>4, <1>3 DEF Linked
<1>7. PlaceKept' /\ WalkInOrder'
  BY <1>4 DEF PlaceKept, WalkInOrder
<1>8. place' \in Range(list') \cup {NULL}
  <2>1. Range(list) = {}
    BY <1>1 DEF Range
  <2> QED
    BY <2>1, <1>4
<1>9. Ordered(list', deadline')
  BY <1>3 DEF Ordered
<1> QED
  BY <1>5, <1>6, <1>7, <1>8, <1>9

(* A walk begins at the first node. *)
LEMMA AddBeginKeepsLInv ==
  ASSUME LInv, NEW t \in Timers, NEW e \in Deadlines, AddBegin(t, e)
  PROVE  LInv'
<1> USE DEF LInv
<1>1. /\ node' = t /\ at' = first /\ t \notin Range(list) /\ first # NULL
      /\ deadline' = [deadline EXCEPT ![t] = e]
      /\ UNCHANGED <<first, cur, next, prev, list, place>>
  BY DEF AddBegin
<1>2. list # << >> /\ first = list[1] /\ 1 \in 1 .. Len(list)
  BY <1>1 DEF Linked, First, ListTypeOK
<1>3. ListTypeOK'
  BY <1>1 DEF ListTypeOK
<1>4. Linked' /\ PlaceKept'
  BY <1>1 DEF Linked, PlaceKept
<1>5. Ordered(list', deadline')
  <2>1. ASSUME NEW i \in 1 .. Len(list) PROVE deadline'[list[i]] = deadline[list[i]]
    <3>1. list[i] \in Timers /\ list[i] # t
      BY <1>1 DEF ListTypeOK, Range
    <3> QED
      BY <3>1, <1>1 DEF ListTypeOK
  <2> QED
    BY <2>1, <1>1 DEF Ordered
<1>6. WalkInOrder'
  BY <1>1, <1>2 DEF WalkInOrder
<1> QED
  BY <1>1, <1>3, <1>4, <1>5, <1>6

(* A walk goes on to the next node: the one it leaves expires earlier.     *)
LEMMA AddWalkKeepsLInv ==
  ASSUME LInv, AddWalk
  PROVE  LInv'
<1> USE DEF LInv
<1>1. /\ UNCHANGED <<first, cur, next, prev, deadline, node, list, place>>
      /\ node # NULL /\ at' = next[at] /\ next[at] # NULL
      /\ ~(deadline[at] >= deadline[node])
  BY DEF AddWalk, Found, HasNext, WalkTo
<1>2. PICK k \in 1 .. Len(list) :
        at = list[k] /\ \A j \in 1 .. k - 1 : deadline[list[j]] < deadline[node]
  BY <1>1 DEF WalkInOrder
<1>3. at \in Timers /\ node \in Timers /\ deadline[at] \in Nat /\ deadline[node] \in Nat
  BY <1>1, <1>2, DeadlinesAssumption DEF ListTypeOK
<1>4. k < Len(list) /\ next[at] = list[k + 1]
  BY <1>1, <1>2 DEF Linked, ListTypeOK
<1>5. k + 1 \in 1 .. Len(list)
  BY <1>4
<1>6. \A j \in 1 .. (k + 1) - 1 : deadline[list[j]] < deadline[node]
  BY <1>1, <1>2, <1>3, SMTT(30)
<1>7. WalkInOrder'
  BY <1>1, <1>4, <1>5, <1>6 DEF WalkInOrder
<1>8. ListTypeOK'
  BY <1>1, <1>3 DEF ListTypeOK
<1>9. Linked' /\ PlaceKept' /\ Ordered(list', deadline')
  BY <1>1 DEF Linked, PlaceKept, Ordered
<1> QED
  BY <1>1, <1>7, <1>8, <1>9

(* What both ways to link a node have in common: the sequence gets it at   *)
(* the place k, and the pointers of the new list follow from those of the  *)
(* nodes on both sides.                                                    *)
LEMMA LinkKeepsLInv ==
  ASSUME LInv, node # NULL, node' = NULL, at' = NULL,
         NEW k \in 1 .. Len(list) + 1,
         \A j \in 1 .. k - 1 : deadline[list[j]] < deadline[node],
         k <= Len(list) => deadline[list[k]] >= deadline[node],
         list' \in NodeAdd(list, deadline, node),
         UNCHANGED <<cur, deadline, place>>,
         first' = IF k = 1 THEN node ELSE first,
         next' \in [Timers -> Timers \cup {NULL}],
         prev' \in [Timers -> Timers \cup {NULL}],
         next'[node] = IF k <= Len(list) THEN list[k] ELSE NULL,
         prev'[node] = IF k > 1 THEN list[k - 1] ELSE NULL,
         k > 1 => next'[list[k - 1]] = node,
         k <= Len(list) => prev'[list[k]] = node,
         \A t \in Timers \ {node} :
           /\ (k > 1 => t # list[k - 1]) => next'[t] = next[t]
           /\ (k <= Len(list) => t # list[k]) => prev'[t] = prev[t]
  PROVE  LInv'
<1> USE DEF LInv
<1> DEFINE n == Len(list)
           s == list'
<1>1. /\ list \in Seq(Timers) /\ n \in Nat /\ k \in Nat /\ k >= 1 /\ k <= n + 1
      /\ DOMAIN list = 1 .. n
      /\ node \in Timers /\ node \notin Range(list)
  BY DEF ListTypeOK, WalkInOrder
<1>2. deadline \in [Timers -> Nat]
  BY DeadlinesAssumption DEF ListTypeOK
<1>3. \A i \in 1 .. n : list[i] \in Timers /\ list[i] # node
  BY <1>1 DEF Range
<1>4. \A i, j \in 1 .. n : i < j => list[i] # list[j]
  BY DEF Ordered
<1>5. /\ s \in Seq(Timers) /\ Len(s) = n + 1
      /\ \A j \in 1 .. k - 1 : s[j] = list[j]
      /\ s[k] = node
      /\ \A j \in k + 1 .. n + 1 : s[j] = list[j - 1]
  <2>1. s = InsertAt(list, k, node)
    BY <1>1, <1>2, PlaceIsUnique
  <2> DEFINE r == InsertAt(list, k, node)
  <2>2. /\ r \in Seq(Timers) /\ Len(r) = Len(list) + 1
        /\ \A j \in 1 .. k - 1 : r[j] = list[j]
        /\ r[k] = node
        /\ \A j \in k + 1 .. Len(list) + 1 : r[j] = list[j - 1]
    <3>1. list \in Seq(Timers) /\ node \in Timers /\ k \in 1 .. Len(list) + 1
      BY <1>1
    <3> HIDE DEF LInv
    <3> QED
      BY <3>1, InsertTimer
  <2> HIDE DEF r
  <2> QED
    BY <2>1, <2>2 DEF r
<1>6. /\ Range(s) = Range(list) \cup {node}
      /\ Ordered(s, deadline)
  <2>1. /\ list \in Seq(Timers) /\ Ordered(list, deadline) /\ s \in NodeAdd(list, deadline, node)
    BY <1>1
  <2> HIDE DEF s
  <2> QED
    BY <2>1, <1>1, <1>2, NodeAddKeepsOrder
<1>7. \A i \in 1 .. n : /\ next[list[i]] = IF i < n THEN list[i + 1] ELSE NULL
                        /\ prev[list[i]] = IF i > 1 THEN list[i - 1] ELSE NULL
  BY <1>1 DEF Linked
<1>8. first = First(list) /\ \A t \in Timers \ Range(list) : next[t] = NULL /\ prev[t] = NULL
  BY DEF Linked
<1> HIDE DEF n, s
<1>9. ASSUME NEW j \in 1 .. n + 1
      PROVE  /\ next'[s[j]] = IF j < n + 1 THEN s[j + 1] ELSE NULL
             /\ prev'[s[j]] = IF j > 1 THEN s[j - 1] ELSE NULL
  <2>1. CASE j < k
    <3>1. j \in 1 .. k - 1 /\ j \in 1 .. n /\ s[j] = list[j] /\ j < n + 1
      BY <2>1, <1>1, <1>5
    <3>2. prev'[list[j]] = prev[list[j]]
      <4>1. k <= n => k \in 1 .. n /\ list[j] # list[k]
        BY <2>1, <3>1, <1>1, <1>4
      <4> QED
        BY <4>1, <3>1, <1>3 DEF n
    <3>3. prev'[s[j]] = IF j > 1 THEN s[j - 1] ELSE NULL
      <4>1. j > 1 => j - 1 \in 1 .. k - 1 /\ s[j - 1] = list[j - 1]
        BY <3>1, <1>1, <1>5
      <4> QED
        BY <4>1, <3>1, <3>2, <1>7
    <3>4. CASE j = k - 1
      <4>1. next'[s[j]] = node /\ s[j + 1] = node
        BY <3>1, <3>4, <1>1, <1>5
      <4> QED
        BY <4>1, <3>1, <3>3
    <3>5. CASE j < k - 1
      <4>1. j + 1 \in 1 .. k - 1 /\ s[j + 1] = list[j + 1] /\ j < n
        BY <3>5, <3>1, <1>1, <1>5
      <4>2. k > 1 /\ k - 1 \in 1 .. n /\ list[j] # list[k - 1]
        BY <3>5, <3>1, <1>1, <1>4
      <4>3. next'[list[j]] = next[list[j]]
        BY <4>2, <3>1, <1>3
      <4> QED
        BY <4>1, <4>3, <3>1, <3>3, <1>7
    <3> QED
      BY <3>4, <3>5, <2>1, <1>1
  <2>2. CASE j = k
    <3>1. s[j] = node
      BY <2>2, <1>5
    <3>2. j < n + 1 => j + 1 \in k + 1 .. n + 1 /\ s[j + 1] = list[(j + 1) - 1] /\ (j + 1) - 1 = k
      BY <2>2, <1>1, <1>5
    <3>3. j > 1 => j - 1 \in 1 .. k - 1 /\ s[j - 1] = list[k - 1]
      BY <2>2, <1>1, <1>5
    <3>4. (j < n + 1) = (k <= n)
      BY <2>2, <1>1
    <3> QED
      BY <3>1, <3>2, <3>3, <3>4, <2>2 DEF n
  <2>3. CASE j > k
    <3>1. j \in k + 1 .. n + 1 /\ j - 1 \in 1 .. n /\ j > 1 /\ s[j] = list[j - 1] /\ k <= n
      BY <2>3, <1>1, <1>5
    <3>2. next'[list[j - 1]] = next[list[j - 1]]
      <4>1. k > 1 => k - 1 \in 1 .. n /\ k - 1 < j - 1
        BY <2>3, <3>1, <1>1
      <4>2. k > 1 => list[j - 1] # list[k - 1]
        BY <4>1, <3>1, <1>4
      <4> QED
        BY <4>2, <3>1, <1>3
    <3>3. next'[s[j]] = IF j < n + 1 THEN s[j + 1] ELSE NULL
      <4>1. j < n + 1 => /\ j - 1 < n /\ j + 1 \in k + 1 .. n + 1
                         /\ (j - 1) + 1 = j /\ (j + 1) - 1 = j
        BY <3>1, <2>3, <1>1
      <4>2. j < n + 1 => s[j + 1] = list[j] /\ next[list[j - 1]] = list[j]
        BY <4>1, <3>1, <1>5, <1>7
      <4>3. ~(j < n + 1) => next[list[j - 1]] = NULL
        <5>1. ~(j < n + 1) => ~(j - 1 < n)
          BY <1>1
        <5> QED
          BY <5>1, <3>1, <1>7
      <4> QED
        BY <4>2, <4>3, <3>1, <3>2
    <3>4. CASE j = k + 1
      <4>1. list[j - 1] = list[k] /\ s[j - 1] = node
        BY <3>4, <1>1, <1>5
      <4> QED
        BY <4>1, <3>1, <3>3 DEF n
    <3>5. CASE j > k + 1
      <4>1. j - 1 \in k + 1 .. n + 1 /\ k \in 1 .. n /\ k < j - 1 /\ j - 1 > 1
        BY <3>5, <3>1, <1>1
      <4>2. s[j - 1] = list[(j - 1) - 1] /\ list[j - 1] # list[k]
        BY <4>1, <3>1, <1>4, <1>5
      <4>3. prev'[list[j - 1]] = prev[list[j - 1]]
        BY <4>2, <3>1, <1>3
      <4>4. prev[list[j - 1]] = list[(j - 1) - 1]
        BY <4>1, <3>1, <1>7
      <4> QED
        BY <4>2, <4>3, <4>4, <3>1, <3>3
    <3> QED
      BY <3>4, <3>5, <2>3, <1>1
  <2> QED
    BY <2>1, <2>2, <2>3, <1>1
<1>10. first' = First(s)
  <2>1. s # << >> /\ First(s) = s[1]
    BY <1>1, <1>5 DEF First
  <2>2. CASE k = 1
    BY <2>1, <2>2, <1>5
  <2>3. CASE k > 1
    <3>1. 1 \in 1 .. k - 1 /\ n >= 1
      BY <2>3, <1>1
    <3>2. first = list[1]
      BY <3>1, <1>8 DEF First, n
    <3> QED
      BY <2>1, <2>3, <3>1, <3>2, <1>5
  <2> QED
    BY <2>2, <2>3, <1>1
<1>11. ASSUME NEW t \in Timers \ Range(s) PROVE next'[t] = NULL /\ prev'[t] = NULL
  <2>1. t # node /\ t \notin Range(list)
    BY <1>6
  <2>2. /\ k > 1 => k - 1 \in 1 .. n
        /\ k <= n => k \in 1 .. n
    BY <1>1
  <2>3. (k > 1 => t # list[k - 1]) /\ (k <= n => t # list[k])
    BY <2>1, <2>2, <1>1 DEF Range
  <2> QED
    BY <2>1, <2>3, <1>8 DEF n
<1>12. Linked'
  <2>1. DOMAIN s = 1 .. n + 1
    BY <1>5
  <2> QED
    BY <2>1, <1>5, <1>9, <1>10, <1>11 DEF Linked, s
<1>13. ListTypeOK'
  <2>1. first \in Timers \cup {NULL} /\ first' \in Timers \cup {NULL}
    BY <1>1 DEF ListTypeOK
  <2> QED
    BY <2>1, <1>5 DEF ListTypeOK, s
<1>14. PlaceKept' /\ WalkInOrder' /\ place' \in Range(s) \cup {NULL} /\ Ordered(s, deadline')
  BY <1>6 DEF PlaceKept, WalkInOrder
<1> QED
  BY <1>12, <1>13, <1>14 DEF s

(* A node is linked in front of the first one that does not expire earlier. *)
LEMMA LinkBeforeKeepsLInv ==
  ASSUME LInv, LinkBefore
  PROVE  LInv'
<1> USE DEF LInv
<1>1. PICK k \in 1 .. Len(list) :
        at = list[k] /\ \A j \in 1 .. k - 1 : deadline[list[j]] < deadline[node]
  BY DEF LinkBefore, WalkInOrder
<1>2. /\ node # NULL /\ node' = NULL /\ at' = NULL /\ deadline[list[k]] >= deadline[node]
      /\ list' \in NodeAdd(list, deadline, node)
      /\ UNCHANGED <<cur, deadline, place>>
  BY <1>1 DEF LinkBefore, Found
<1>3. /\ node \in Timers /\ node \notin Range(list) /\ list[k] \in Timers
      /\ list[k] # node /\ k \in 1 .. Len(list) + 1 /\ Len(list) \in Nat
  BY <1>1, <1>2 DEF ListTypeOK, WalkInOrder, Range
<1>4. prev[at] = IF k > 1 THEN list[k - 1] ELSE NULL
  BY <1>1 DEF Linked, ListTypeOK
<1>5. k > 1 => list[k - 1] \in Timers /\ list[k - 1] # node /\ k - 1 \in 1 .. Len(list)
  BY <1>3 DEF ListTypeOK, Range
<1>6. first' = IF k = 1 THEN node ELSE first
  <2>1. first = list[1]
    BY <1>1 DEF Linked, First, ListTypeOK
  <2>2. k # 1 => list[k] # list[1]
    BY <1>1, <1>3 DEF Ordered
  <2> QED
    BY <2>1, <2>2, <1>1 DEF LinkBefore
<1>7. /\ prev' \in [Timers -> Timers \cup {NULL}]
      /\ prev'[node] = IF k > 1 THEN list[k - 1] ELSE NULL
      /\ prev'[list[k]] = node
      /\ \A t \in Timers \ {node} : t # list[k] => prev'[t] = prev[t]
  <2>1. prev' = [prev EXCEPT ![node] = prev[at], ![at] = node]
    BY DEF LinkBefore
  <2> QED
    BY <2>1, <1>1, <1>3, <1>4 DEF ListTypeOK
<1>8. /\ next' \in [Timers -> Timers \cup {NULL}]
      /\ next'[node] = list[k]
      /\ k > 1 => next'[list[k - 1]] = node
      /\ \A t \in Timers \ {node} : (k > 1 => t # list[k - 1]) => next'[t] = next[t]
  <2>1. CASE k > 1
    <3>1. next' = [next EXCEPT ![node] = at, ![list[k - 1]] = node]
      BY <2>1, <1>4, <1>5, NullAssumption DEF LinkBefore, NextBefore
    <3> QED
      BY <2>1, <3>1, <1>1, <1>3, <1>5 DEF ListTypeOK
  <2>2. CASE ~(k > 1)
    <3>1. next' = [next EXCEPT ![node] = at]
      BY <2>2, <1>4 DEF LinkBefore, NextBefore
    <3> QED
      BY <2>2, <3>1, <1>1, <1>3 DEF ListTypeOK
  <2> QED
    BY <2>1, <2>2
<1>9. k <= Len(list)
  BY <1>1
<1> HIDE DEF LInv
<1> QED
  BY <1>1, <1>2, <1>3, <1>6, <1>7, <1>8, <1>9, LinkKeepsLInv

(* A node is linked behind the last one. *)
LEMMA LinkAtEndKeepsLInv ==
  ASSUME LInv, LinkAtEnd
  PROVE  LInv'
<1> USE DEF LInv
<1>1. PICK i \in 1 .. Len(list) :
        at = list[i] /\ \A j \in 1 .. i - 1 : deadline[list[j]] < deadline[node]
  BY DEF LinkAtEnd, WalkInOrder
<1> DEFINE k == Len(list) + 1
<1>2. /\ node # NULL /\ node' = NULL /\ at' = NULL /\ ~(deadline[at] >= deadline[node])
      /\ next[at] = NULL
      /\ list' \in NodeAdd(list, deadline, node)
      /\ UNCHANGED <<first, cur, deadline, place>>
  BY DEF LinkAtEnd, Found, HasNext
<1>3. /\ node \in Timers /\ node \notin Range(list) /\ at \in Timers
      /\ at # node /\ Len(list) \in Nat /\ k \in 1 .. Len(list) + 1
      /\ deadline[at] \in Nat /\ deadline[node] \in Nat
  <2>1. node \in Timers /\ node \notin Range(list)
    BY <1>2 DEF ListTypeOK, WalkInOrder
  <2>2. at \in Timers /\ at # node /\ Len(list) \in Nat
    BY <2>1, <1>1 DEF ListTypeOK, Range
  <2>3. deadline[at] \in Nat /\ deadline[node] \in Nat
    BY <2>1, <2>2, DeadlinesAssumption DEF ListTypeOK
  <2> QED
    BY <2>1, <2>2, <2>3
<1>4. i = Len(list)
  <2>1. i < Len(list) => next[at] = list[i + 1] /\ list[i + 1] \in Timers
    BY <1>1 DEF Linked, ListTypeOK
  <2> QED
    BY <2>1, <1>1, <1>2, NullAssumption
<1>5. at = list[k - 1] /\ k > 1 /\ ~(k <= Len(list)) /\ k # 1
  BY <1>1, <1>3, <1>4
<1>6. \A j \in 1 .. k - 1 : deadline[list[j]] < deadline[node]
  BY <1>1, <1>2, <1>3, <1>4
<1>7. /\ prev' \in [Timers -> Timers \cup {NULL}]
      /\ prev'[node] = at
      /\ \A t \in Timers \ {node} : prev'[t] = prev[t]
  <2>1. prev' = [prev EXCEPT ![node] = at]
    BY DEF LinkAtEnd
  <2> QED
    BY <2>1, <1>3 DEF ListTypeOK
<1>8. /\ next' \in [Timers -> Timers \cup {NULL}]
      /\ next'[node] = NULL
      /\ next'[at] = node
      /\ \A t \in Timers \ {node} : t # at => next'[t] = next[t]
  <2>1. next' = [next EXCEPT ![at] = node, ![node] = NULL]
    BY DEF LinkAtEnd
  <2> QED
    BY <2>1, <1>3 DEF ListTypeOK
<1> HIDE DEF LInv, k
<1> QED
  BY <1>2, <1>3, <1>5, <1>6, <1>7, <1>8, LinkKeepsLInv

(* timer_node_remove, of a node off the list: nothing changes. *)
LEMMA RemoveOffList ==
  ASSUME LInv, NEW t \in Timers, timer_node_remove(t), t \notin Range(list)
  PROVE  LInv'
<1> USE DEF LInv
<1>1. next[t] = NULL /\ prev[t] = NULL
  BY DEF Linked
<1>2. t # first
  <2>1. CASE list = << >>
    BY <2>1, NullAssumption DEF Linked, First
  <2>2. CASE list # << >>
    <3>1. first = list[1] /\ 1 \in DOMAIN list
      BY <2>2 DEF Linked, First, ListTypeOK
    <3> QED
      BY <3>1 DEF Range
  <2> QED
    BY <2>1, <2>2
<1>3. FirstAfterRemove(t) = first
  BY <1>2 DEF FirstAfterRemove
<1>4. NextAfterRemove(t) = next
  BY <1>1 DEF NextAfterRemove, ListTypeOK
<1>5. PrevAfterRemove(t) = prev
  <2>1. first # NULL => prev[first] = NULL
    <3> SUFFICES ASSUME first # NULL PROVE prev[first] = NULL
      OBVIOUS
    <3>1. list # << >> /\ first = list[1] /\ 1 \in DOMAIN list
      BY DEF Linked, First, ListTypeOK
    <3> QED
      BY <3>1 DEF Linked, ListTypeOK
  <2> QED
    BY <2>1, <1>1, <1>3 DEF PrevAfterRemove, ListTypeOK
<1>6. cur # t
  BY NullAssumption DEF PlaceKept
<1>7. UNCHANGED listvars
  BY <1>3, <1>4, <1>5, <1>6 DEF timer_node_remove, CurMoved, NodeRemove,
     CurAfterRemove, listvars
<1> QED
  BY <1>7 DEF listvars, ListTypeOK, Linked, PlaceKept, Ordered, WalkInOrder

(* timer_node_remove, of a node on the list: its neighbours are linked to  *)
(* each other, and the pass goes on with the one behind it.                *)
LEMMA RemoveOnList ==
  ASSUME LInv, NEW t \in Timers, timer_node_remove(t), t \in Range(list)
  PROVE  LInv'
<1> USE DEF LInv
<1> DEFINE n == Len(list)
           i == Position(list, t)
           s == list'
<1>1. /\ list \in Seq(Timers) /\ n \in Nat /\ DOMAIN list = 1 .. n
      /\ i \in 1 .. n /\ list[i] = t
      /\ s = RemoveAt(list, i)
  BY PositionOfQueued DEF ListTypeOK, timer_node_remove, NodeRemove
<1>2. /\ s \in Seq(Timers) /\ Len(s) = n - 1
      /\ \A j \in 1 .. i - 1 : s[j] = list[j]
      /\ \A j \in i .. n - 1 : s[j] = list[j + 1]
  <2> DEFINE r == RemoveAt(list, i)
  <2>1. list \in Seq(Timers) /\ i \in 1 .. Len(list)
    BY <1>1
  <2> HIDE DEF i
  <2>2. /\ r \in Seq(Timers) /\ Len(r) = Len(list) - 1
        /\ \A j \in 1 .. i - 1 : r[j] = list[j]
        /\ \A j \in i .. Len(list) - 1 : r[j] = list[j + 1]
    BY <2>1, RemoveAtElements
  <2>3. s = r
    BY <1>1
  <2> HIDE DEF r, s
  <2> QED
    BY <2>2, <2>3
<1>3. \A j \in 1 .. n : list[j] \in Timers
  BY <1>1
<1>4. \A j, k \in 1 .. n : j < k => list[j] # list[k]
  BY DEF Ordered
<1>5. \A j \in 1 .. n : /\ next[list[j]] = IF j < n THEN list[j + 1] ELSE NULL
                        /\ prev[list[j]] = IF j > 1 THEN list[j - 1] ELSE NULL
  BY <1>1 DEF Linked
<1>6. n >= 1 /\ first = list[1]
  BY <1>1 DEF Linked, First
<1>7. /\ Range(s) = Range(list) \ {t}
      /\ Ordered(s, deadline)
  <2>1. deadline \in [Timers -> Nat]
    BY DeadlinesAssumption DEF ListTypeOK
  <2>2. s = NodeRemove(list, t)
    BY DEF timer_node_remove
  <2>3. list \in Seq(Timers) /\ Ordered(list, deadline)
    BY <1>1
  <2>4. /\ Range(NodeRemove(list, t)) = Range(list) \ {t}
        /\ Ordered(NodeRemove(list, t), deadline)
    BY <2>1, <2>3, NodeRemoveKeepsOrder
  <2> HIDE DEF s
  <2> QED
    BY <2>2, <2>4
<1>8. /\ first' = FirstAfterRemove(t) /\ next' = NextAfterRemove(t)
      /\ prev' = PrevAfterRemove(t) /\ cur' = CurMoved(t)
      /\ place' = CurAfterRemove(list, place, t)
      /\ node = NULL /\ UNCHANGED <<deadline, node, at>>
  BY DEF timer_node_remove
<1>9. next[t] = Successor(list, t)
  BY NextIsSuccessor
<1> HIDE DEF n, i, s
<1>10. i \in Nat /\ i >= 1 /\ i <= n
  BY <1>1
<1>11. first' = IF i = 1 THEN next[t] ELSE list[1]
  <2>1. CASE i = 1
    BY <2>1, <1>1, <1>5, <1>6, <1>8 DEF FirstAfterRemove
  <2>2. CASE i > 1
    <3>1. prev[t] = list[i - 1] /\ i - 1 \in 1 .. n
      BY <2>2, <1>1, <1>5, <1>10
    <3>2. prev[t] # NULL
      BY <3>1, <1>3, NullAssumption
    <3> QED
      BY <2>2, <3>2, <1>6, <1>8 DEF FirstAfterRemove
  <2> QED
    BY <2>1, <2>2, <1>10
<1>12. /\ next' \in [Timers -> Timers \cup {NULL}]
       /\ next'[t] = NULL
       /\ i > 1 => next'[list[i - 1]] = next[t]
       /\ \A u \in Timers \ {t} : (i > 1 => u # list[i - 1]) => next'[u] = next[u]
  <2>1. CASE i > 1
    <3>1. /\ prev[t] = list[i - 1] /\ i - 1 \in 1 .. n /\ list[i - 1] \in Timers
          /\ list[i - 1] # t
      BY <2>1, <1>1, <1>3, <1>4, <1>5, <1>10
    <3>2. next' = [[next EXCEPT ![prev[t]] = next[t]] EXCEPT ![t] = NULL]
      BY <3>1, <1>8, NullAssumption DEF NextAfterRemove
    <3> QED
      BY <2>1, <3>1, <3>2 DEF ListTypeOK
  <2>2. CASE ~(i > 1)
    <3>1. prev[t] = NULL
      BY <2>2, <1>1, <1>5
    <3>2. next' = [next EXCEPT ![t] = NULL]
      BY <3>1, <1>8 DEF NextAfterRemove
    <3> QED
      BY <2>2, <3>2 DEF ListTypeOK
  <2> QED
    BY <2>1, <2>2
<1>13. /\ prev' \in [Timers -> Timers \cup {NULL}]
       /\ prev'[t] = NULL
       /\ i < n => prev'[list[i + 1]] = prev[t]
       /\ \A u \in Timers \ {t} : (i < n => u # list[i + 1]) => prev'[u] = prev[u]
  <2> DEFINE p == IF next[t] # NULL THEN [prev EXCEPT ![next[t]] = prev[t]] ELSE prev
  <2>1. /\ p \in [Timers -> Timers \cup {NULL}]
        /\ i < n => p[list[i + 1]] = prev[t]
        /\ \A u \in Timers : (i < n => u # list[i + 1]) => p[u] = prev[u]
    <3>1. CASE i < n
      <4>1. next[t] = list[i + 1] /\ i + 1 \in 1 .. n
        BY <3>1, <1>1, <1>5, <1>10
      <4>2. next[t] # NULL /\ list[i + 1] \in Timers
        BY <4>1, <1>3, NullAssumption
      <4> QED
        BY <3>1, <4>1, <4>2 DEF ListTypeOK
    <3>2. CASE ~(i < n)
      <4>1. next[t] = NULL
        BY <3>2, <1>1, <1>5
      <4> QED
        BY <3>2, <4>1 DEF ListTypeOK
    <3> QED
      BY <3>1, <3>2
  <2>2. first' # NULL => first' \in Timers /\ p[first'] = NULL
    <3>1. CASE i = 1 /\ i < n
      <4>1. next[t] = list[i + 1] /\ i + 1 \in 1 .. n /\ prev[t] = NULL
        BY <3>1, <1>1, <1>5, <1>10
      <4> QED
        BY <3>1, <4>1, <2>1, <1>3, <1>11
    <3>2. CASE i = 1 /\ ~(i < n)
      <4>1. next[t] = NULL
        BY <3>2, <1>1, <1>5
      <4> QED
        BY <3>2, <4>1, <1>11
    <3>3. CASE i > 1
      <4>1. 1 \in 1 .. n /\ prev[list[1]] = NULL /\ list[1] \in Timers
        BY <1>3, <1>5, <1>6, <1>10
      <4>2. i < n => i + 1 \in 1 .. n /\ list[1] # list[i + 1]
        BY <3>3, <4>1, <1>4, <1>10, <1>1
      <4> QED
        BY <3>3, <4>1, <4>2, <2>1, <1>11
    <3> QED
      BY <3>1, <3>2, <3>3, <1>10
  <2>3. prev' = [(IF first' # NULL THEN [p EXCEPT ![first'] = NULL] ELSE p)
                   EXCEPT ![t] = NULL]
    BY <1>8 DEF PrevAfterRemove
  <2>4. i < n => list[i + 1] \in Timers /\ list[i + 1] # t
    <3>1. i < n => i + 1 \in 1 .. n
      BY <1>1, <1>10
    <3> QED
      BY <3>1, <1>1, <1>3, <1>4
  <2> HIDE DEF p
  <2>5. prev' = [p EXCEPT ![t] = NULL]
    BY <2>1, <2>2, <2>3
  <2> QED
    BY <2>1, <2>4, <2>5
<1>14. ASSUME NEW j \in 1 .. n - 1
       PROVE  /\ next'[s[j]] = IF j < n - 1 THEN s[j + 1] ELSE NULL
              /\ prev'[s[j]] = IF j > 1 THEN s[j - 1] ELSE NULL
  <2>1. CASE j < i
    <3>1. j \in 1 .. i - 1 /\ j \in 1 .. n /\ s[j] = list[j] /\ list[j] \in Timers \ {t}
      BY <2>1, <1>1, <1>2, <1>3, <1>4, <1>10
    <3>2. prev'[s[j]] = IF j > 1 THEN s[j - 1] ELSE NULL
      <4>1. i < n => i + 1 \in 1 .. n /\ list[j] # list[i + 1]
        BY <2>1, <3>1, <1>1, <1>4, <1>10
      <4>2. prev'[list[j]] = prev[list[j]]
        BY <4>1, <3>1, <1>13
      <4>3. j > 1 => j - 1 \in 1 .. i - 1 /\ s[j - 1] = list[j - 1]
        BY <3>1, <1>2, <1>10
      <4> QED
        BY <4>2, <4>3, <3>1, <1>5
    <3>3. CASE j = i - 1
      <4>1. i > 1 /\ next'[list[j]] = next[t]
        BY <2>1, <3>1, <3>3, <1>12, <1>10
      <4>2. next[t] = IF i < n THEN list[i + 1] ELSE NULL
        BY <1>1, <1>5
      <4>3. i < n => j + 1 \in i .. n - 1 /\ s[j + 1] = list[(j + 1) + 1] /\ j + 1 = i
        BY <3>3, <1>1, <1>2, <1>10
      <4>4. (j < n - 1) = (i < n)
        BY <3>3, <1>1, <1>10
      <4> QED
        BY <4>1, <4>2, <4>3, <4>4, <3>1, <3>2
    <3>4. CASE j < i - 1
      <4>1. i > 1 /\ i - 1 \in 1 .. n /\ list[j] # list[i - 1]
        BY <3>1, <3>4, <1>1, <1>4, <1>10
      <4>2. next'[list[j]] = next[list[j]]
        BY <4>1, <3>1, <1>12
      <4>3. j + 1 \in 1 .. i - 1 /\ s[j + 1] = list[j + 1] /\ j < n /\ j < n - 1
        BY <3>1, <3>4, <1>1, <1>2, <1>10
      <4> QED
        BY <4>2, <4>3, <3>1, <3>2, <1>5
    <3> QED
      BY <3>3, <3>4, <2>1, <1>10
  <2>2. CASE j >= i
    <3>1. j \in i .. n - 1 /\ j + 1 \in 1 .. n /\ i < j + 1 /\ s[j] = list[j + 1] /\ i < n
      BY <2>2, <1>1, <1>2, <1>10
    <3>2. list[j + 1] \in Timers \ {t}
      BY <3>1, <1>1, <1>3, <1>4
    <3>3. next'[list[j + 1]] = next[list[j + 1]]
      <4>1. i > 1 => i - 1 \in 1 .. n /\ i - 1 < j + 1
        BY <3>1, <1>1, <1>10
      <4>2. i > 1 => list[j + 1] # list[i - 1]
        BY <4>1, <3>1, <1>4
      <4> QED
        BY <4>2, <3>2, <1>12
    <3>4. next'[s[j]] = IF j < n - 1 THEN s[j + 1] ELSE NULL
      <4>1. j < n - 1 => /\ j + 1 \in i .. n - 1 /\ j + 1 < n
        BY <3>1, <1>1
      <4>2. j < n - 1 => s[j + 1] = list[(j + 1) + 1]
        BY <4>1, <1>2
      <4>3. ~(j < n - 1) => ~(j + 1 < n)
        BY <1>1
      <4> QED
        BY <4>1, <4>2, <4>3, <3>1, <3>3, <1>5
    <3>5. CASE j = i
      <4>1. prev'[list[j + 1]] = prev[t]
        BY <3>1, <3>5, <1>13
      <4>2. prev[t] = IF i > 1 THEN list[i - 1] ELSE NULL
        BY <1>1, <1>5
      <4>3. i > 1 => i - 1 \in 1 .. i - 1 /\ s[i - 1] = list[i - 1]
        BY <1>2, <1>10
      <4> QED
        BY <4>1, <4>2, <4>3, <3>1, <3>4, <3>5
    <3>6. CASE j > i
      <4>1. i + 1 \in 1 .. n /\ i + 1 < j + 1
        BY <3>1, <3>6, <1>1, <1>10
      <4>2. prev'[list[j + 1]] = prev[list[j + 1]]
        BY <4>1, <3>1, <3>2, <1>4, <1>13
      <4>3. j - 1 \in i .. n - 1 /\ j > 1 /\ j + 1 > 1 /\ (j - 1) + 1 = j /\ (j + 1) - 1 = j
        BY <3>1, <3>6, <1>1, <1>10
      <4>4. s[j - 1] = list[j]
        BY <4>3, <1>2
      <4>5. prev[list[j + 1]] = list[j]
        BY <4>3, <3>1, <1>5
      <4> QED
        BY <4>2, <4>3, <4>4, <4>5, <3>1, <3>4
    <3> QED
      BY <3>5, <3>6, <2>2, <1>10
  <2> QED
    BY <2>1, <2>2, <1>10
<1>15. first' = First(s)
  <2>1. CASE n = 1
    <3>1. s = << >> /\ i = 1 /\ next[t] = NULL
      BY <2>1, <1>1, <1>2, <1>5, <1>10
    <3> QED
      BY <3>1, <1>11 DEF First
  <2>2. CASE n > 1
    <3>1. s # << >> /\ First(s) = s[1]
      BY <2>2, <1>1, <1>2 DEF First
    <3>2. CASE i = 1
      <4>1. 1 \in i .. n - 1 /\ next[t] = list[1 + 1]
        BY <2>2, <3>2, <1>1, <1>5
      <4> QED
        BY <4>1, <3>1, <3>2, <1>2, <1>11
    <3>3. CASE i > 1
      <4>1. 1 \in 1 .. i - 1
        BY <3>3, <1>10
      <4> QED
        BY <4>1, <3>1, <3>3, <1>2, <1>11
    <3> QED
      BY <3>2, <3>3, <1>10
  <2> QED
    BY <2>1, <2>2, <1>1, <1>6
<1>16. ASSUME NEW u \in Timers \ Range(s) PROVE next'[u] = NULL /\ prev'[u] = NULL
  <2>1. CASE u = t
    BY <2>1, <1>12, <1>13
  <2>2. CASE u # t
    <3>1. u \notin Range(list)
      BY <2>2, <1>7
    <3>2. next[u] = NULL /\ prev[u] = NULL
      BY <3>1 DEF Linked
    <3>3. /\ i > 1 => i - 1 \in 1 .. n
          /\ i < n => i + 1 \in 1 .. n
      BY <1>1, <1>10
    <3>4. (i > 1 => u # list[i - 1]) /\ (i < n => u # list[i + 1])
      BY <3>1, <3>3, <1>1 DEF Range
    <3> QED
      BY <2>2, <3>2, <3>4, <1>12, <1>13
  <2> QED
    BY <2>1, <2>2
<1>17. Linked'
  <2>1. DOMAIN s = 1 .. n - 1
    BY <1>1, <1>2
  <2> QED
    BY <2>1, <1>2, <1>14, <1>15, <1>16 DEF Linked, s
<1>18. cur' = place'
  BY <1>8, <1>9, NullAssumption DEF PlaceKept, CurMoved, CurAfterRemove
<1>19. place' \in Range(s) \cup {NULL}
  BY <1>1, <1>7, <1>8, CurAfterRemoveIsQueued
<1>20. ListTypeOK'
  <2>1. Range(s) \subseteq Timers
    BY <1>2 DEF Range
  <2>2. first' \in Timers \cup {NULL}
    BY <1>3, <1>6, <1>11, <1>1 DEF ListTypeOK
  <2> QED
    BY <2>1, <2>2, <1>2, <1>8, <1>12, <1>13, <1>18, <1>19 DEF ListTypeOK, s
<1> QED
  BY <1>7, <1>8, <1>17, <1>18, <1>19, <1>20 DEF PlaceKept, WalkInOrder, s

(* The steps of timer_queue_process that move the place of the pass. *)
LEMMA MoveKeepsLInv ==
  ASSUME LInv, Rewind \/ \E t \in Timers : GoBehind(t)
  PROVE  LInv'
<1> USE DEF LInv
<1>1. UNCHANGED <<first, next, prev, deadline, node, at, list>>
  BY DEF Rewind, GoBehind
<1>2. cur' = place' /\ place' \in Range(list) \cup {NULL}
  <2>1. CASE Rewind
    <3>1. First(list) \in Range(list) \cup {NULL}
      BY DEF First, Range, ListTypeOK
    <3> QED
      BY <2>1, <3>1 DEF Rewind, Linked
  <2>2. ASSUME NEW t \in Timers, GoBehind(t)
        PROVE  cur' = place' /\ place' \in Range(list) \cup {NULL}
    BY <2>2, NextIsSuccessor, SuccessorIsQueued DEF GoBehind, ListTypeOK
  <2> QED
    BY <2>1, <2>2
<1>3. ListTypeOK'
  <2>1. Range(list) \subseteq Timers
    BY DEF ListTypeOK, Range
  <2> QED
    BY <2>1, <1>1, <1>2 DEF ListTypeOK
<1> QED
  BY <1>1, <1>2, <1>3 DEF Linked, PlaceKept, Ordered, WalkInOrder

LEMMA NextKeepsLInv == LInv /\ [ListNext]_listvars => LInv'
<1> SUFFICES ASSUME LInv, [ListNext]_listvars PROVE LInv'
  OBVIOUS
<1>1. ASSUME NEW t \in Timers, NEW e \in Deadlines, AddToEmpty(t, e) PROVE LInv'
  BY <1>1, AddToEmptyKeepsLInv
<1>2. ASSUME NEW t \in Timers, NEW e \in Deadlines, AddBegin(t, e) PROVE LInv'
  BY <1>2, AddBeginKeepsLInv
<1>3. CASE AddWalk
  BY <1>3, AddWalkKeepsLInv
<1>4. CASE LinkBefore
  BY <1>4, LinkBeforeKeepsLInv
<1>5. CASE LinkAtEnd
  BY <1>5, LinkAtEndKeepsLInv
<1>6. ASSUME NEW t \in Timers, timer_node_remove(t) PROVE LInv'
  BY <1>6, RemoveOnList, RemoveOffList
<1>7. CASE Rewind \/ \E t \in Timers : GoBehind(t)
  BY <1>7, MoveKeepsLInv
<1>8. CASE UNCHANGED listvars
  BY <1>8 DEF LInv, listvars, ListTypeOK, Linked, PlaceKept, Ordered, WalkInOrder
<1> QED
  BY <1>1, <1>2, <1>3, <1>4, <1>5, <1>6, <1>7, <1>8 DEF ListNext, AddStep

LEMMA ListInvariantHolds == ListSpec => []LInv
BY InitLInv, NextKeepsLInv, PTL DEF ListSpec

-----------------------------------------------------------------------------
(* The pointers of the list are those of the sequence, and a node off the  *)
(* list points nowhere.                                                    *)
THEOREM PointersSpellList == ListSpec => []Linked
<1>1. LInv => Linked
  BY DEF LInv
<1> QED
  BY <1>1, ListInvariantHolds, PTL

(* cur_timer_ is the place of the pass, whatever node is removed.          *)
THEOREM CursorFollowsPlace == ListSpec => []PlaceKept
<1>1. LInv => PlaceKept
  BY DEF LInv
<1> QED
  BY <1>1, ListInvariantHolds, PTL

(* No walk ever reads through a null pointer.                              *)
THEOREM ListTypeCorrect == ListSpec => []ListTypeOK
<1>1. LInv => ListTypeOK
  BY DEF LInv
<1> QED
  BY <1>1, ListInvariantHolds, PTL
=============================================================================
