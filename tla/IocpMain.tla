------------------------------- MODULE IocpMain -------------------------------
(***************************************************************************)
(* The main loop of src/test/main.c where completion ports are used.  The  *)
(* main thread has one port for its io, for work that other threads have   *)
(* done and for what a thread of its own, PollThread, has waited for in    *)
(* the poll looper.  That thread hands its one array of results over by a  *)
(* callback and waits on an event until the main thread is done with it.   *)
(***************************************************************************)
EXTENDS IoAsyncIocp

CONSTANT PollResult  \* on_poll_result

ASSUME PollResultAssumption == PollResult \in Callbacks

VARIABLES poller,  \* PollThread: it waits, has got results, or has handed them over
          hev,     \* is the event set that it waits on?
          deaf     \* history: has the port refused its callback?

vars == <<fut, offset, kernel, port, batch, calling, pending, moved, order, poller, hev, deaf>>
pollthread == <<poller, hev, deaf>>

Init == IoInit /\ poller = "wait" /\ hev = FALSE /\ deaf = FALSE

-----------------------------------------------------------------------------
(* PollThread.                                                             *)

PollGets ==
  /\ poller = "wait"
  /\ poller' = "got"
  /\ UNCHANGED <<iovars, hev, deaf>>

(* It waits on the event also when the post has failed.                    *)
PollPosts ==
  /\ poller = "got"
  /\ io_looper_post_callback(PollResult)
  /\ deaf' = (order' = order)
  /\ poller' = "held"
  /\ UNCHANGED hev

PollGoesOn ==
  /\ poller = "held" /\ hev
  /\ hev' = FALSE
  /\ poller' = "wait"
  /\ UNCHANGED <<iovars, deaf>>

-----------------------------------------------------------------------------
(* The main thread.                                                        *)

Client ==
  /\ \E f \in Futures, c \in Ctxs :
        \/ \E n \in 1 .. MaxLen : \/ io_async_read(f, c, n, 0)
                                  \/ io_async_write(f, c, n, 0)
                                  \/ io_async_recv(f, c, n)
                                  \/ io_async_send(f, c, n)
                                  \/ io_async_recvfrom(f, c, n)
                                  \/ io_async_sendto(f, c, n)
        \/ io_async_connect(f, c)
        \/ io_async_accept(f, c)
  /\ UNCHANGED pollthread

Wait == io_looper_wait_events /\ UNCHANGED pollthread

\* BUG: the event is set before the results are processed
HevAtEntryEarly(cb) == IF cb = PollResult THEN TRUE ELSE hev
HevAtEntry(cb) == hev

Process ==
  /\ ProcessPosted \/ ProcessCompleted
  /\ hev' = HevAtEntry(calling')
  /\ UNCHANGED <<poller, deaf>>

(* Other callbacks of users run within on_poll_result; it ends with        *)
(* SetEvent.                                                               *)
\* BUG: on_poll_result does not set the event
HevAtReturnForgotten(cb) == hev
HevAtReturn(cb) == IF cb = PollResult THEN TRUE ELSE hev

Return ==
  /\ CallbackReturns
  /\ hev' = HevAtReturn(calling)
  /\ UNCHANGED <<poller, deaf>>

MainStep == Wait \/ Process \/ Return

-----------------------------------------------------------------------------
(* A thread that has done its work posts the callback of the work, and is  *)
(* told when the port refuses it.                                          *)
main_work_queue_post(cb) ==
  /\ cb # PollResult
  /\ \A i \in DOMAIN order : order[i] # cb
  /\ io_looper_post_callback(cb)
  /\ UNCHANGED pollthread

Kernel == \E f \in Futures : Completed(f) /\ UNCHANGED pollthread

Next == \/ PollGets \/ PollPosts \/ PollGoesOn
        \/ Client
        \/ MainStep
        \/ \E cb \in Callbacks : main_work_queue_post(cb)
        \/ Kernel

Spec == Init /\ [][Next]_vars

(* The main loop and PollThread go on, callbacks return, and the kernel    *)
(* ends what it has taken.                                                 *)
FairSpec ==
  /\ Spec
  /\ WF_vars(MainStep) /\ WF_vars(PollPosts) /\ WF_vars(PollGoesOn)
  /\ \A f \in Futures : WF_vars(Completed(f) /\ UNCHANGED pollthread)

-----------------------------------------------------------------------------
TypeOK == IoTypeOK /\ poller \in {"wait", "got", "held"} /\ hev \in BOOLEAN /\ deaf \in BOOLEAN

(* PollThread does not touch its results, nor hand them over once more,    *)
(* from the post until the main thread is done with them.  It waits on the *)
(* event while they are handed over, or when it is set; for nothing only   *)
(* when the port has refused its callback, for it does not look at what    *)
(* the post returns (lines 54-55 of main.c): then for ever.                *)
ResultsAreStill ==
  LET handed == (\E i \in DOMAIN order : order[i] = PollResult) \/ calling = PollResult
  IN  /\ handed => poller = "held" /\ ~hev
      /\ poller = "held" => handed \/ hev \/ deaf

(* What waits ends: every call that the kernel has taken is called back,   *)
(* every callback that the port has taken runs, and PollThread gets to     *)
(* wait for events again, unless the port has refused its callback.        *)
AllServed ==
  /\ \A f \in Futures : f \in pending ~> f \notin pending
  /\ \A cb \in Callbacks : (\E i \in DOMAIN order : order[i] = cb) ~> calling = cb
  /\ poller # "wait" ~> poller = "wait" \/ deaf
=============================================================================
