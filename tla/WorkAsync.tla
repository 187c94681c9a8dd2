------------------------------ MODULE WorkAsync ------------------------------
(***************************************************************************)
(* Work on other threads (src/src/workasync.c) for coroutines              *)
(* (src/src/future.h), with the ways back to the main thread there are:    *)
(*                                                                         *)
(* pipe: the work queue of src/test/main.c on POSIX, a pipe that the main  *)
(* loop reads, one item per turn.                                          *)
(* stream: its work queue on Windows, a memory stream under a lock, from   *)
(* which the main loop takes some items per turn and calls them then.      *)
(* none: no main runner was given; the worker itself calls back.           *)
(*                                                                         *)
(* Each work gets a thread from default_back_runner.  A coroutine runs its *)
(* work Rounds times in the one work_ctx it owns.  Some coroutines wait    *)
(* for a run function (test_work_async1), the others are their own run     *)
(* function (test_work_async2).                                            *)
(*                                                                         *)
(* ready is an int that two threads use without a lock.  Until the worker  *)
(* has written to the pipe and the main thread has read it, the main       *)
(* thread may still see the old value, and where the processor reorders    *)
(* stores it may see the new one before what the run function has stored.  *)
(***************************************************************************)
EXTENDS Integers, Sequences, FiniteSets

CONSTANTS Clients,       \* the coroutines
          Main,          \* the main thread
          OnWorker,      \* those that are their own run function
          Rounds,        \* bound: the works of a coroutine, one after the other
          Runners,       \* the main runners that are looked at
          PipeSize,      \* the items that the pipe holds
          StreamSize,    \* the items that the memory stream holds
          Batch,         \* the items of it that the main loop takes at once
          StoresInOrder  \* do all processors see stores in their order?

ASSUME OnWorkerAssumption == OnWorker \subseteq Clients
ASSUME RoundsAssumption == Rounds \in Nat \ {0}
ASSUME RunnersAssumption == Runners \subseteq {"pipe", "stream", "none"}
ASSUME PipeAssumption == PipeSize \in Nat \ {0} /\ Batch \in Nat \ {0}
ASSUME StoresAssumption == StoresInOrder \in BOOLEAN

Works == Clients \X (1 .. Rounds)  \* each has a thread of its own

ASSUME MainAssumption == Main \notin Works

(* A stream that is full would lose or overwrite callbacks (MemStream):    *)
(* the program never has as many works under way.                          *)
ASSUME StreamAssumption == StreamSize \in Nat /\ StreamSize >= Cardinality(Works)

Threads == {Main} \cup Works

VARIABLES runner,  \* the main runner of the program
          status,  \* the line variable of a coroutine
          ready,   \* work_ctx.ready
          val,     \* what the run function has stored: the round it ran in
          round,   \* how many works the coroutine has started
          result,  \* what the coroutine has found in val behind its wait
          at,      \* where a thread is
          who,     \* the coroutine in which the main thread is
          pipe,    \* the items in the queue: works whose callback shall run
          taken,   \* the items that the main thread has taken from the stream
          heard,   \* the works whose item the main thread has read
          calling  \* the works whose thread runs the callback itself

queues == <<pipe, taken, heard>>
vars == <<runner, status, ready, val, round, result, at, who, queues, calling>>

(* With no main runner the callback of a work that has ended early would   *)
(* run beside the first call of its coroutine: only coroutines that are    *)
(* their own run function have left it by then.                            *)
MayRun(c) == runner = "none" => c \in OnWorker

CoroutineOf(t) == IF t = Main THEN who ELSE t[1]

InCoroutine(t) == at[t] \in {"start", "work", "check", "done"}

Init ==
  /\ runner \in Runners
  /\ status = [c \in Clients |-> "enter"]
  /\ ready = [c \in Clients |-> 0]
  /\ val = [c \in Clients |-> 0]
  /\ round = [c \in Clients |-> 0]
  /\ result = [c \in Clients |-> 0]
  /\ at = [t \in Threads |-> IF t = Main THEN "loop" ELSE "none"]
  /\ who \in Clients
  /\ pipe = << >>
  /\ taken = << >>
  /\ heard = {}
  /\ calling = {}

-----------------------------------------------------------------------------
(* run_work_ctx: first run, then ready = 1, then mainrunner_, and the      *)
(* thread ends.                                                            *)

\* BUG: the callback is posted before the work is ready
FollowingPostFirst(p) == CASE p = "run" -> "post" [] p = "post" -> "ready" [] p = "ready" -> "gone"
Following(p) == CASE p = "run" -> "ready" [] p = "ready" -> "post" [] p = "post" -> "gone"

(* Where a thread goes on when the coroutine or the callback returns.      *)
Back(t) == IF t = Main THEN "loop" ELSE IF t \in calling THEN "gone" ELSE Following("run")

(* Where future_enter enters a coroutine: at the start, behind the yield,  *)
(* at the condition of the wait, or behind future_leave.                   *)
\* BUG: the wait does not look at ready again
EntryUnchecked(c) == CASE status[c] = "enter" -> "start"
                       [] status[c] = "yield" -> "work"
                       [] status[c] = "wait" -> "done"
                       [] status[c] = "left" -> "left"
Entry(c) == CASE status[c] = "enter" -> "start"
              [] status[c] = "yield" -> "work"
              [] status[c] = "wait" -> "check"
              [] status[c] = "left" -> "left"

-----------------------------------------------------------------------------
(* A coroutine, on the thread t that has entered it.                       *)

\* BUG: work_async_run leaves ready as the last work has set it
ReadyAtStartKept(c) == ready[c]
ReadyAtStart(c) == 0

(* work_async_run makes the next work and its thread.  The coroutine that  *)
(* is its own run function has set its line before, and returns.           *)
work_async_run(t, c) ==
  /\ at[t] = "start" /\ CoroutineOf(t) = c
  /\ round' = [round EXCEPT ![c] = @ + 1]
  /\ ready' = [ready EXCEPT ![c] = ReadyAtStart(c)]
  /\ at' = [at EXCEPT ![<<c, round[c] + 1>>] = "run",
                      ![t] = IF c \in OnWorker THEN Back(t) ELSE "check"]
  /\ status' = IF c \in OnWorker THEN [status EXCEPT ![c] = "yield"] ELSE status
  /\ UNCHANGED <<val, result, who, queues, calling, runner>>

WorkInCoroutine(t, c) ==
  /\ at[t] = "work" /\ CoroutineOf(t) = c
  /\ val' = [val EXCEPT ![c] = round[c]]
  /\ at' = [at EXCEPT ![t] = "check"]
  /\ UNCHANGED <<status, ready, round, result, who, queues, calling, runner>>

(* Does the main thread read ready and val while the worker writes them?   *)
Racing(t, c) == t = Main /\ ready[c] = 1 /\ <<c, round[c]>> \notin heard

WaitYields(t, c) ==
  /\ at[t] = "check" /\ CoroutineOf(t) = c
  /\ ready[c] = 0 \/ Racing(t, c)
  /\ status' = [status EXCEPT ![c] = "wait"]
  /\ at' = [at EXCEPT ![t] = Back(t)]
  /\ UNCHANGED <<ready, val, round, result, who, queues, calling, runner>>

WaitPasses(t, c) ==
  /\ at[t] = "check" /\ CoroutineOf(t) = c
  /\ ready[c] = 1
  /\ \E v \in {val[c]} \cup (IF Racing(t, c) /\ ~StoresInOrder THEN {round[c] - 1} ELSE {}) :
        result' = [result EXCEPT ![c] = v]
  /\ at' = [at EXCEPT ![t] = "done"]
  /\ UNCHANGED <<status, ready, val, round, who, queues, calling, runner>>

(* The coroutine goes on with the next work, or it leaves.                 *)
GoOn(t, c) ==
  /\ at[t] = "done" /\ CoroutineOf(t) = c
  /\ \/ /\ round[c] < Rounds
        /\ at' = [at EXCEPT ![t] = "start"]
        /\ UNCHANGED status
     \/ /\ round[c] = Rounds
        /\ status' = [status EXCEPT ![c] = "left"]
        /\ at' = [at EXCEPT ![t] = Back(t)]
  /\ UNCHANGED <<ready, val, round, result, who, queues, calling, runner>>

CoroutineStep(t, c) == \/ work_async_run(t, c)
                       \/ WorkInCoroutine(t, c)
                       \/ WaitYields(t, c)
                       \/ WaitPasses(t, c)
                       \/ GoOn(t, c)

-----------------------------------------------------------------------------
(* The thread of a work.                                                   *)

RunFunction(w) ==
  /\ at[w] = "run"
  /\ IF w[1] \in OnWorker
       THEN /\ at' = [at EXCEPT ![w] = IF Entry(w[1]) = "left" THEN Back(w) ELSE Entry(w[1])]
            /\ UNCHANGED val
       ELSE /\ at' = [at EXCEPT ![w] = Back(w)]
            /\ val' = [val EXCEPT ![w[1]] = w[2]]
  /\ UNCHANGED <<status, ready, round, result, who, queues, calling, runner>>

SetReady(w) ==
  /\ at[w] = "ready"
  /\ ready' = [ready EXCEPT ![w[1]] = 1]
  /\ at' = [at EXCEPT ![w] = Following("ready")]
  /\ UNCHANGED <<status, val, round, result, who, queues, calling, runner>>

HasRoom(q) == Len(q) < PipeSize

(* The pipe: the write blocks while it is full.                            *)
main_work_queue_post(w) ==
  /\ runner = "pipe" /\ at[w] = "post"
  /\ HasRoom(pipe)
  /\ pipe' = Append(pipe, w)
  /\ at' = [at EXCEPT ![w] = Following("post")]
  /\ UNCHANGED <<status, ready, val, round, result, who, taken, heard, calling, runner>>

(* The stream: under the lock, and it does not wait for room.              *)
main_work_queue_post_stream(w) ==
  /\ runner = "stream" /\ at[w] = "post"
  /\ pipe' = Append(pipe, w)
  /\ at' = [at EXCEPT ![w] = Following("post")]
  /\ UNCHANGED <<status, ready, val, round, result, who, taken, heard, calling, runner>>

(* The callback, the coroutine, runs on the thread of the work.            *)
default_main_runner(w) ==
  /\ runner = "none" /\ at[w] = "post"
  /\ calling' = calling \cup {w}
  /\ at' = [at EXCEPT ![w] = IF Entry(w[1]) = "left" THEN "gone" ELSE Entry(w[1])]
  /\ UNCHANGED <<status, ready, val, round, result, who, queues, runner>>

WorkerStep(w) == \/ RunFunction(w)
                 \/ SetReady(w)
                 \/ main_work_queue_post(w)
                 \/ main_work_queue_post_stream(w)
                 \/ default_main_runner(w)
                 \/ CoroutineStep(w, w[1])

-----------------------------------------------------------------------------
(* The main loop: a client calls its coroutine the first time, or the      *)
(* callback of an item, the coroutine, is called.                          *)

FirstCall(c) ==
  /\ at[Main] = "loop" /\ taken = << >>
  /\ MayRun(c)
  /\ status[c] = "enter" /\ round[c] = 0
  /\ who' = c
  /\ at' = [at EXCEPT ![Main] = Entry(c)]
  /\ UNCHANGED <<status, ready, val, round, result, queues, calling, runner>>

CallBack(w) ==
  /\ who' = w[1]
  /\ at' = [at EXCEPT ![Main] = IF Entry(w[1]) = "left" THEN "loop" ELSE Entry(w[1])]
  /\ UNCHANGED <<status, ready, val, round, result, calling, runner>>

on_work_queue_readable ==
  /\ runner = "pipe" /\ at[Main] = "loop"
  /\ pipe # << >>
  /\ CallBack(Head(pipe))
  /\ heard' = heard \cup {Head(pipe)}
  /\ pipe' = Tail(pipe)
  /\ UNCHANGED taken

RestAfterTake(n) == SubSeq(pipe, n + 1, Len(pipe))

(* main_work_queue_process takes its items under the lock ...              *)
TakeItems ==
  /\ runner = "stream" /\ at[Main] = "loop" /\ taken = << >>
  /\ pipe # << >>
  /\ LET n == IF Len(pipe) < Batch THEN Len(pipe) ELSE Batch
     IN  /\ taken' = SubSeq(pipe, 1, n)
         /\ pipe' = RestAfterTake(n)
         /\ heard' = heard \cup { pipe[i] : i \in 1 .. n }
  /\ UNCHANGED <<status, ready, val, round, result, at, who, calling, runner>>

(* ... and calls one after the other, while more are posted.               *)
CallTaken ==
  /\ at[Main] = "loop"
  /\ taken # << >>
  /\ CallBack(Head(taken))
  /\ taken' = Tail(taken)
  /\ UNCHANGED <<pipe, heard>>

MainStep == \/ \E c \in Clients : FirstCall(c)
            \/ on_work_queue_readable
            \/ TakeItems
            \/ CallTaken
            \/ \E c \in Clients : CoroutineStep(Main, c)

Next == MainStep \/ \E w \in Works : WorkerStep(w)

Spec == Init /\ [][Next]_vars

(* The system runs every thread that can go on, and the main loop sleeps   *)
(* only while the pipe is empty.                                           *)
FairSpec == Spec /\ WF_vars(MainStep) /\ \A w \in Works : WF_vars(WorkerStep(w))

-----------------------------------------------------------------------------
TypeOK ==
  /\ status \in [Clients -> {"enter", "yield", "wait", "left"}]
  /\ ready \in [Clients -> 0 .. 1]
  /\ val \in [Clients -> 0 .. Rounds]
  /\ round \in [Clients -> 0 .. Rounds]
  /\ result \in [Clients -> 0 .. Rounds]
  /\ at \in [Threads -> {"loop", "none", "run", "ready", "post", "gone",
                         "start", "work", "check", "done"}]
  /\ who \in Clients
  /\ pipe \in Seq(Works) /\ (runner = "pipe" => Len(pipe) <= PipeSize)
  /\ taken \in Seq(Works) /\ Len(taken) <= Batch
  /\ heard \subseteq Works /\ calling \subseteq Works
  /\ runner \in Runners

(* future.h:46-47, "future_wait(&ctx->fut); async operation complete": a   *)
(* coroutine behind its wait finds the result of the work it has started   *)
(* last, although callbacks of earlier works may resume it and ready is    *)
(* used again.  Where stores are seen out of order, line 32 of workasync.c *)
(* publishes the result too early.                                         *)
ResultIsThere == \A t \in Threads : at[t] = "done" => result[CoroutineOf(t)] = round[CoroutineOf(t)]

(* A coroutine runs on one thread at a time: the main thread never enters  *)
(* it while a worker is in it, and its line variable has one writer.       *)
OneThread == \A s, t \in Threads :
  InCoroutine(s) /\ InCoroutine(t) /\ CoroutineOf(s) = CoroutineOf(t) => s = t

(* No wake-up is lost: each coroutine comes to its end, although it may    *)
(* read ready too early and the pipe may be full.                          *)
AllLeave == \A c \in Clients : <>(MayRun(c) => status[c] = "left")
=============================================================================
