------------------------------- MODULE GuiTimers -------------------------------
(***************************************************************************)
(* The timer queue in the main loops of graphical programs                 *)
(* (src/util/guiasync) and in a plain one: what runs timer_queue_process,  *)
(* and when.                                                               *)
(*                                                                         *)
(* win32: a timer of the system, set again behind each pass and by the     *)
(* observer; for a delay of 0 the observer posts a message, and the pass   *)
(* that this one starts leaves the timer alone.                            *)
(* apple: a dispatch source that fires when it is set, and set again       *)
(* behind each pass.                                                       *)
(* android: a thread that waits for a while or for the observer's signal   *)
(* and then, unless timerqueueready_ says that a pass is still to come,    *)
(* posts one to the main thread through a pipe.  How long it waits is left *)
(* out: a wait on a condition variable may end at any time.                *)
(* loop: nothing but a pass and a sleep, again and again.                  *)
(***************************************************************************)
EXTENDS TimerQueue

CONSTANTS Platforms,   \* the platforms that are looked at
          MaxMessages  \* bound: the messages to the main thread that wait

ASSUME PlatformsAssumption == Platforms \subseteq {"win32", "apple", "android", "loop"}
ASSUME MaxMessagesAssumption == MaxMessages \in Nat \ {0}

VARIABLES
  platform,          \* where the program runs
  armed,             \* win32, apple: when the system's timer fires, or NULL
  period,            \* win32: the delay it was set with
  messages,          \* the posted passes that the main thread has not begun
  origin,            \* what has begun the last pass: "timer" or "message"
  timerqueueready_,  \* android: is there a pass to come?
  waiter,            \* android: the waiting thread waits, tests or posts
  unseen             \* android: may the waiting thread still see the old value?

host == <<platform, armed, period, messages, origin, timerqueueready_, waiter, unseen>>
guivars == <<vars, host>>

GuiInit ==
  /\ Init
  /\ platform \in Platforms
  /\ armed = IF platform = "win32" THEN 1 ELSE NULL
  /\ period = 1
  /\ messages = 0
  /\ origin = "message"
  /\ timerqueueready_ = 0
  /\ waiter = "wait"
  /\ unseen = FALSE

-----------------------------------------------------------------------------
(* The clock has reached the tick n; behind its bound, time still passes.  *)
Elapsed(n) == n # NULL /\ (n <= now \/ now = MaxTick)

SetTimer(d) ==
  /\ armed' = IF platform = "apple" THEN now ELSE now + d
  /\ period' = IF platform = "win32" THEN d ELSE period

Posts(d) == platform = "win32" /\ d <= 0

(* on_timer_queue_change.                                                  *)
on_timer_queue_change(d) ==
  /\ IF platform \in {"android", "loop"} \/ Posts(d) THEN UNCHANGED <<armed, period>> ELSE SetTimer(d)
  /\ Posts(d) => messages < MaxMessages
  /\ messages' = IF Posts(d) THEN messages + 1 ELSE messages
  /\ UNCHANGED <<platform, origin, timerqueueready_, waiter, unseen>>

GuiAdd(t, d, l) ==
  /\ timer_add(t, d, l)
  /\ IF First(queue') = t THEN on_timer_queue_change(ToInt(d)) ELSE UNCHANGED host

-----------------------------------------------------------------------------
(* OnTimerProc, or the handler of the dispatch source.  The system's timer *)
(* of win32 goes on with its period.                                       *)
TimerFires ==
  /\ Elapsed(armed)
  /\ StartPass
  /\ armed' = IF platform = "win32" THEN now + period ELSE NULL
  /\ origin' = "timer"
  /\ UNCHANGED <<platform, period, messages, timerqueueready_, waiter, unseen>>

\* BUG: timerqueueready_ is cleared before the pass
ReadyAtBeginCleared == 0
ReadyAtBegin == timerqueueready_

(* WM_PROCESS_TIMER, or on_timer_queue_ready.                              *)
MessageArrives ==
  /\ messages > 0
  /\ StartPass
  /\ messages' = messages - 1
  /\ origin' = "message"
  /\ timerqueueready_' = ReadyAtBegin
  /\ UNCHANGED <<platform, armed, period, waiter, unseen>>

(* The main loop of src/test/main.c and src/util/curlasync/main.c.         *)
LoopTurns ==
  /\ platform = "loop"
  /\ StartPass
  /\ UNCHANGED host

\* BUG: the timer is not set again behind a pass
SetAfterPassForgotten == UNCHANGED <<armed, period>>
SetAfterPass == SetTimer(NextSleep)

GuiEndPass ==
  /\ EndPass
  /\ IF origin = "timer" THEN SetAfterPass ELSE UNCHANGED <<armed, period>>
  /\ timerqueueready_' = IF platform = "android" THEN 0 ELSE timerqueueready_
  /\ unseen' = (platform = "android")
  /\ UNCHANGED <<platform, messages, origin, waiter>>

OtherPassStep ==
  /\ FireOnce \/ FireInterval \/ OnceReturns \/ RearmInterval \/ SkipRearmedOnce
       \/ LeaveCancelled
  /\ UNCHANGED host

-----------------------------------------------------------------------------
(* delay_wait_thread.  It takes the mutex before each wait and sees then   *)
(* what the main thread has stored.                                        *)
WaitEnds ==
  /\ platform = "android" /\ waiter = "wait"
  /\ waiter' = "test"
  /\ UNCHANGED <<vars, platform, armed, period, messages, origin, timerqueueready_, unseen>>

TestReady ==
  /\ waiter = "test"
  /\ \/ /\ timerqueueready_ = 0
        /\ timerqueueready_' = 1
        /\ waiter' = "post"
        /\ UNCHANGED unseen
     \/ /\ timerqueueready_ = 1 \/ unseen
        /\ waiter' = "wait"
        /\ unseen' = FALSE
        /\ UNCHANGED timerqueueready_
  /\ UNCHANGED <<vars, platform, armed, period, messages, origin>>

PostReady ==
  /\ waiter = "post"
  /\ messages < MaxMessages
  /\ messages' = messages + 1
  /\ waiter' = "wait"
  /\ unseen' = FALSE
  /\ UNCHANGED <<vars, platform, armed, period, origin, timerqueueready_>>

Waiter == WaitEnds \/ TestReady \/ PostReady

-----------------------------------------------------------------------------
MainStep == TimerFires \/ MessageArrives \/ LoopTurns \/ GuiEndPass \/ OtherPassStep

GuiNext ==
  \/ Tick /\ UNCHANGED host
  \/ \E t \in Timers, d \in Timeouts : GuiAdd(t, d, FALSE)
  \/ \E t \in Timers, d \in Intervals : GuiAdd(t, d, TRUE)
  \/ \E t \in Timers : timer_cancel(t) /\ UNCHANGED host
  \/ MainStep
  \/ Waiter

GuiSpec == GuiInit /\ [][GuiNext]_guivars

(* Time goes on, and so does the main loop; callbacks return, waits end,   *)
(* and the pipe is written to.                                             *)
GuiFairSpec ==
  /\ GuiSpec
  /\ WF_guivars(Tick /\ UNCHANGED host)
  /\ WF_guivars(TimerFires) /\ WF_guivars(MessageArrives) /\ WF_guivars(LoopTurns)
  /\ WF_guivars(GuiEndPass \/ OtherPassStep)
  /\ WF_guivars(Waiter)

-----------------------------------------------------------------------------
GuiTypeOK ==
  /\ platform \in Platforms
  /\ armed \in Nat \cup {NULL}
  /\ period \in Nat
  /\ messages \in 0 .. MaxMessages
  /\ origin \in {"timer", "message"}
  /\ timerqueueready_ \in 0 .. 1
  /\ waiter \in {"wait", "test", "post"}
  /\ unseen \in BOOLEAN

(* android: timerqueueready_ says whether a pass is posted or runs, which  *)
(* is one at most, although two threads write it without a lock.           *)
OnePassToCome ==
  platform = "android" =>
    messages + (IF pc # "idle" THEN 1 ELSE 0) + (IF waiter = "post" THEN 1 ELSE 0)
      = timerqueueready_

-----------------------------------------------------------------------------
(* What a comment of timerqueue.h says and the win32 loop does not keep.   *)

(* timerqueue.h:71, "callback of timer will run when timer expired": with  *)
(* no pass under way or on its way, the system's timer is set to fire when *)
(* the first timer of the queue expires, or as much later as the last pass *)
(* took.  The observer is told of a timer only when it becomes the first   *)
(* one, and the pass of a message does not set the system's timer: behind  *)
(* a timer with a delay of 0 an earlier deadline goes unnoticed.           *)
HostIsArmed ==
  pc = "idle" /\ messages = 0 /\ queue # << >> /\ platform \in {"win32", "apple"}
    => /\ armed # NULL
       /\ armed <= Later(expire[queue[1]], ticknow + 1) + overrun
=============================================================================
