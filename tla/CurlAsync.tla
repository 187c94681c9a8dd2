----------------------------- MODULE CurlAsync ------------------------------
(***************************************************************************)
(* The HTTP client (src/util/curlasync/curlasync.c, with the main loop of  *)
(* src/util/curlasync/main.c): libcurl asks through two callbacks for      *)
(* sockets to be watched and for one timer, and is told what happened; a   *)
(* transfer that it reports as done is called back and its curl_ctx freed. *)
(* The curl_ctx holds the poll_ctx of its socket.                          *)
(*                                                                         *)
(* libcurl is external.  Inside of curl_multi_socket_action it goes on     *)
(* with the transfer of the socket and with others whose time has come,    *)
(* when it is called for a timeout with any of them.  So it may be done in *)
(* a call for one socket with the transfer of another, of which an event   *)
(* is still to be processed: its curl_ctx is freed (line 68), and the      *)
(* event is then processed in freed memory.  What a program does from      *)
(* there on is not followed.  The timer queue is the contract that         *)
(* TimerContract states, without times.                                    *)
(***************************************************************************)
EXTENDS PollAsync

CONSTANT First  \* the transfers that main starts, callbacks the others

ASSUME FirstAssumption == First \subseteq Ctxs
ASSUME CallbackAssumption == NULL # "on_poll_result"

VARIABLES phase,          \* of each transfer
          wanted,         \* libcurl: what it waits for on the socket of each
          msgs,           \* libcurl: the transfers done and not read yet
          asks,           \* libcurl: does it wait for a timeout?
          elsewhere,      \* history: those done with in these events, in a
                          \* call for the socket of another
          timer_started_, \* is timer_ on the queue?
          timer,          \* how many times it is
          turn,           \* what the main loop is at
          at              \* where the code in a turn is

curl == <<phase, wanted, msgs, asks, elsewhere>>
timers == <<asks, timer_started_, timer>>
curlvars == <<pollvars, phase, wanted, msgs, elsewhere, timers, turn, at>>

CurlInit ==
  /\ PollInit
  /\ phase = [c \in Ctxs |-> "idle"]
  /\ wanted = [c \in Ctxs |-> {}]
  /\ msgs = << >> /\ elsewhere = {}
  /\ asks = FALSE /\ timer_started_ = FALSE /\ timer = 0
  /\ turn = "start" /\ at = "loop"

-----------------------------------------------------------------------------
(* timer_cancel if it is started, timer_add_timeout if there is a timeout. *)
start_timeout(ask) ==
  /\ asks' = ask
  /\ timer' = (IF timer_started_ THEN 0 ELSE timer) + (IF ask THEN 1 ELSE 0)
  /\ timer_started_' = ask

\* BUG: both directions are registered as one
WatchedOneWay(evs) == IF evs = {"in", "out"} THEN {"in"} ELSE evs
(* CURL_POLL_IN, CURL_POLL_OUT and CURL_POLL_INOUT.                        *)
Watched(evs) == evs

handle_socket(c, evs) ==
  IF evs = {} THEN poll_unregister(c)
  ELSE poll_register(c, FALSE, Watched(evs), "on_poll_result", c)

(* malloc, and curl_multi_add_handle, which asks for a timeout of 0: main  *)
(* starts the first transfers, any callback another.                       *)
curl_async_perform(c) ==
  /\ \/ turn = "start" /\ c \in First
     \/ at = "callback"
  /\ phase[c] = "idle"
  /\ phase' = [phase EXCEPT ![c] = "running"]
  /\ start_timeout(TRUE)
  /\ UNCHANGED <<pollvars, wanted, msgs, elsewhere, turn, at>>

-----------------------------------------------------------------------------
(* The main loop: timers, wait, events.                                    *)
MainLoop ==
  /\ turn = "start" /\ \A c \in First : phase[c] # "idle"
  /\ turn' = "timers"
  /\ UNCHANGED <<pollvars, curl, timer_started_, timer, at>>

\* BUG: the timer counts as started still, and nobody cancels the next one
StartedAfterKept == timer_started_
StartedAfter == FALSE

(* timer_queue_process: timer_ runs once at most, its callback puts it     *)
(* behind the place of the pass.                                           *)
on_timeout ==
  /\ turn = "timers" /\ at = "loop" /\ timer > 0
  /\ timer' = timer - 1 /\ timer_started_' = StartedAfter
  /\ asks' = FALSE
  /\ at' = "action"
  /\ turn' = "fired"
  /\ UNCHANGED <<pollvars, phase, wanted, msgs, elsewhere>>

TimersDone ==
  /\ turn \in {"timers", "fired"} /\ at = "loop"
  /\ turn' = "wait"
  /\ UNCHANGED <<pollvars, curl, timer_started_, timer, at>>

Alive(c) == phase[c] \in {"running", "done", "told"}
Dangling == batch # << >> /\ ~Alive(Head(batch).ctx)

(* It ends with events, or with its timeout.                               *)
CurlWait ==
  /\ turn = "wait"
  /\ \/ poll_looper_wait_events
     \/ Ready = {} /\ UNCHANGED pollvars
  /\ turn' = "events"
  /\ UNCHANGED <<curl, timer_started_, timer, at>>

on_poll_result ==
  /\ turn = "events" /\ at = "loop" /\ ~Dangling
  /\ ProcessEvent
  /\ at' = "action"
  /\ UNCHANGED <<curl, timer_started_, timer, turn>>

EventsDone ==
  /\ turn = "events" /\ Idle
  /\ turn' = "timers"
  /\ elsewhere' = {}
  /\ UNCHANGED <<pollvars, phase, wanted, msgs, timers, at>>

-----------------------------------------------------------------------------
(* Inside of curl_multi_socket_action.                                     *)
GoesOn(c) == at = "action" /\ phase[c] = "running"

(* One socket at a time, which no other transfer watches; a socket that    *)
(* has been waited for is let go of before the transfer is done.           *)
CurlSocket(c, evs) ==
  /\ GoesOn(c)
  /\ evs # wanted[c]
  /\ \A d \in Ctxs \ {c} : FdOf[d] = FdOf[c] => wanted[d] = {}
  /\ wanted' = [wanted EXCEPT ![c] = evs]
  /\ handle_socket(c, evs)
  /\ UNCHANGED <<backend, cond, batch, calling, phase, msgs, elsewhere, timers, turn, at>>

CurlTimer(ask) ==
  /\ at = "action"
  /\ start_timeout(ask)
  /\ UNCHANGED <<pollvars, phase, wanted, msgs, elsewhere, turn, at>>

CurlDone(c) ==
  /\ GoesOn(c)
  /\ wanted[c] = {}
  /\ phase' = [phase EXCEPT ![c] = "done"]
  /\ msgs' = Append(msgs, c)
  /\ elsewhere' = IF calling \in {c, NULL} THEN elsewhere ELSE elsewhere \cup {c}
  /\ UNCHANGED <<pollvars, wanted, timers, turn, at>>

CurlReturns ==
  /\ at = "action"
  /\ at' = "info"
  /\ UNCHANGED <<pollvars, curl, timer_started_, timer, turn>>

-----------------------------------------------------------------------------
(* check_multi_info.  curl_multi_remove_handle may set the timer again.    *)
NextMessage ==
  /\ at = "info" /\ msgs # << >>
  /\ msgs' = Tail(msgs)
  /\ phase' = [phase EXCEPT ![Head(msgs)] = "told"]
  /\ at' = "callback"
  /\ \/ \E ask \in BOOLEAN : start_timeout(ask)
     \/ UNCHANGED timers
  /\ UNCHANGED <<pollvars, wanted, elsewhere, turn>>

\* BUG: one message is read each time
AnyMoreNever == FALSE
AnyMore == msgs # << >>

(* The callback has returned: free, and the next message.                  *)
FreeCtx ==
  /\ at = "callback"
  /\ phase' = [c \in Ctxs |-> IF phase[c] = "told" THEN "freed" ELSE phase[c]]
  /\ IF AnyMore THEN at' = "info" /\ UNCHANGED calling
                ELSE at' = "loop" /\ calling' = NULL
  /\ UNCHANGED <<backend, cond, interest, pctx, batch, wanted, msgs, elsewhere, timers, turn>>

NoMessage ==
  /\ at = "info" /\ msgs = << >>
  /\ at' = "loop"
  /\ IF calling = NULL THEN UNCHANGED pollvars ELSE CallbackReturns
  /\ UNCHANGED <<curl, timer_started_, timer, turn>>

-----------------------------------------------------------------------------
Program == \/ \E c \in First : curl_async_perform(c)
           \/ MainLoop \/ on_timeout \/ TimersDone \/ CurlWait \/ on_poll_result \/ EventsDone
           \/ NextMessage \/ FreeCtx \/ NoMessage

CurlNext ==
  \/ Program
  \/ \E c \in Ctxs : curl_async_perform(c)
  \/ \E c \in Ctxs : \E evs \in SUBSET Conditions[FdOf[c]] : CurlSocket(c, evs)
  \/ \E ask \in BOOLEAN : CurlTimer(ask)
  \/ \E c \in Ctxs : CurlDone(c)
  \/ CurlReturns
  \/ \E f \in Fds : ConditionChanges(f) /\ UNCHANGED <<curl, timer_started_, timer, turn, at>>

CurlSpec == CurlInit /\ [][CurlNext]_curlvars

(* The program runs, and libcurl returns.                                  *)
FairCurlSpec == CurlSpec /\ WF_curlvars(Program) /\ WF_curlvars(CurlReturns)

-----------------------------------------------------------------------------
(* The looper watches what libcurl has asked for, whatever it asks for     *)
(* inside of which callback.  An event still to be processed holds the     *)
(* poll_ctx of a transfer whose curl_ctx is not freed yet (line 68 of      *)
(* curlasync.c), unless libcurl was done with it in a call for the socket  *)
(* of another.                                                             *)
WatchedAsAsked ==
  /\ \A c \in Ctxs : { e.events : e \in { e \in interest[FdOf[c]] : e.ctx = c } } = {wanted[c]} \ {{}}
  /\ \A i \in DOMAIN batch : Alive(batch[i].ctx) \/ batch[i].ctx \in elsewhere

(* timer_ is on the queue once when libcurl waits for a timeout and not at *)
(* all otherwise, although callbacks of libcurl start it inside of its own *)
(* callback and while a transfer is added in the callback of another.      *)
TimerAsAsked == timer = (IF asks THEN 1 ELSE 0) /\ timer_started_ = asks

(* Every transfer that libcurl has done with is called back, unless the    *)
(* program goes on in freed memory.                                        *)
AllToldBack == \A c \in Ctxs : phase[c] = "done" ~> phase[c] = "freed" \/ Dangling
=============================================================================
