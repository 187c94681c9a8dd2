---------------------------- MODULE TimerContract ----------------------------
(***************************************************************************)
(* What timerqueue.h promises to the owner of a timer, with no list, no    *)
(* cursor and no pass over the queue:                                      *)
(*                                                                         *)
(*   - a callback runs only for an armed timer whose deadline has come;    *)
(*   - a cancelled timer does not run until somebody arms it again;        *)
(*   - a timeout runs once;                                                *)
(*   - an interval stays armed, and each of its runs moves its deadline by *)
(*     one period, or by more when the deadline it would get is past.      *)
(***************************************************************************)
EXTENDS Integers

CONSTANTS Timers,      \* the timer_ctx objects of the client
          NULL,        \* the null pointer
          Timeouts,    \* the delays a client asks for, once
          Intervals,   \* and again and again
          MaxTick      \* the last reading of the clock

VARIABLES now,       \* the clock
          armed,     \* the timers that wait for their deadline
          deadline,  \* when each armed timer is due
          period,    \* the delay it was armed with
          repeats,   \* whether it was armed by timer_add_interval
          firing,    \* the timer whose callback runs, or NULL
          again      \* it is an interval, and nobody has cancelled it since

cvars == <<now, armed, deadline, period, repeats, firing, again>>

CInit == /\ now = 0
         /\ armed = {}
         /\ deadline = [t \in Timers |-> 0]
         /\ period = [t \in Timers |-> 0]
         /\ repeats = [t \in Timers |-> FALSE]
         /\ firing = NULL
         /\ again = FALSE

Pass == /\ now < MaxTick
        /\ now' = now + 1
        /\ UNCHANGED <<armed, deadline, period, repeats, firing, again>>

Arm(t, d, l) ==
  /\ t \notin armed
  /\ armed' = armed \cup {t}
  /\ deadline' = [deadline EXCEPT ![t] = now + d]
  /\ period' = [period EXCEPT ![t] = d]
  /\ repeats' = [repeats EXCEPT ![t] = l]
  /\ UNCHANGED <<now, firing, again>>

Disarm(t) ==
  /\ armed' = armed \ {t}
  /\ again' = (again /\ t # firing)
  /\ UNCHANGED <<now, deadline, period, repeats, firing>>

Fire(t) ==
  /\ firing = NULL
  /\ t \in armed
  /\ deadline[t] <= now
  /\ firing' = t
  /\ again' = repeats[t]
  /\ armed' = IF repeats[t] THEN armed ELSE armed \ {t}
  /\ UNCHANGED <<now, deadline, period, repeats>>

(* The new deadline of an interval that has run is one period after the   *)
(* last one; only a run that comes later than that skips to the next tick. *)
NextDeadline(t, d) == \/ d = deadline[t] + period[t]
                      \/ deadline[t] + period[t] < d /\ d <= now + 1

Return ==
  /\ firing # NULL
  /\ firing' = NULL
  /\ again' = FALSE
  /\ IF again
       THEN \E d \in 0 .. MaxTick + deadline[firing] + period[firing] + 1 :
              /\ NextDeadline(firing, d)
              /\ deadline' = [deadline EXCEPT ![firing] = d]
       ELSE UNCHANGED deadline
  /\ UNCHANGED <<now, armed, period, repeats>>

CNext == \/ Pass
         \/ \E t \in Timers, d \in Timeouts : Arm(t, d, FALSE)
         \/ \E t \in Timers, d \in Intervals : Arm(t, d, TRUE)
         \/ \E t \in Timers : Disarm(t)
         \/ \E t \in Timers : Fire(t)
         \/ Return

CSpec == CInit /\ [][CNext]_cvars
=============================================================================
