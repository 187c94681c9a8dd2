----------------------------- MODULE IoAsyncPoll -----------------------------
(***************************************************************************)
(* src/src/ioasync_pollasync.c: asynchronous calls on nonblocking          *)
(* descriptors.  A call tries at once; if it would block it registers the  *)
(* one poll_ctx of the io_ctx, for one event, with a handler and the       *)
(* future.  The kernel's queues are abstracted to the conditions of        *)
(* PollLooper: "in" says that a read finds data, an end of file or a       *)
(* connection, "out" that a write finds room, "err" that a call fails.     *)
(***************************************************************************)
EXTENDS PollAsync

CONSTANTS Futures,      \* io_future structures
          Ops,          \* the calls that clients make with an io_ctx: those of its kind
          Uses,         \* the io_ctxs that a client uses its future with
          InLengths,    \* the lengths of the buffers to read into
          OutLengths,   \* the lengths of the buffers to write
          MaxLen,       \* bound: the longest of them; "sent" remembers one byte more
          OneAtATime,   \* does a client wait for a future of an io_ctx before the next call?
          PartialSends  \* does the kernel ever take a part of a stream's buffer?

ASSUME OpsAssumption ==
  Ops \in [Ctxs -> SUBSET {"read", "write", "connect", "accept", "recv", "send", "recvfrom", "sendto",
                           "ReadFile", "WriteFile"}]
ASSUME HandlersAssumption == \A c \in Ctxs : NULL \notin Ops[c]
ASSUME UsesAssumption == Uses \in [Futures -> SUBSET Ctxs]
ASSUME LengthsAssumption == MaxLen \in Nat \ {0} /\ InLengths \cup OutLengths \subseteq 1 .. MaxLen
ASSUME SwitchAssumption == OneAtATime \in BOOLEAN /\ PartialSends \in BOOLEAN

VARIABLES fut,     \* the io_future structures
          client,  \* what the client of a future knows of its call
          want,    \* history: the length of the client's buffer
          sent,    \* history: the bytes of it the kernel has taken, by position
          inuser   \* does the client's callback run (within that of the poll_ctx)?

vars == <<backend, cond, interest, pctx, batch, calling, fut, client, want, sent, inuser>>

Init ==
  /\ PollInit
  /\ fut = [f \in Futures |-> [io |-> NULL, buflen |-> 0, ready |-> 0, error |-> "ok", length |-> 0]]
  /\ client = [f \in Futures |-> "free"]
  /\ want = [f \in Futures |-> 0]
  /\ sent = [f \in Futures |-> << >>]
  /\ inuser = FALSE

-----------------------------------------------------------------------------
(* The system calls: how many bytes, or an error.                          *)
Again == -1   \* EWOULDBLOCK
Failed == -2  \* any other error

Incoming(c, n) == IF "err" \in cond[FdOf[c]] THEN {Failed}
                  ELSE IF "in" \in cond[FdOf[c]] THEN 0 .. n ELSE {Again}
Whole(c, n) == IF "err" \in cond[FdOf[c]] THEN {Failed}
               ELSE IF "out" \in cond[FdOf[c]] THEN {n} ELSE {Again}
Outgoing(c, n) == IF Whole(c, n) = {n} /\ PartialSends THEN 1 .. n ELSE Whole(c, n)

(* A call may use up the condition; a buffer that is taken in part has.    *)
Consumes(c, e, r, n) ==
  \/ /\ r >= 0
     /\ cond' = [cond EXCEPT ![FdOf[c]] = @ \ {e}]
  \/ /\ e = "out" /\ r >= 0 => r = n
     /\ UNCHANGED cond

Code(r) == IF r = Again THEN "again" ELSE IF r = Failed THEN "fail" ELSE "ok"
Front(n) == [k \in 1 .. n |-> k]
Taken(s, n) == LET all == s \o Front(n)
               IN  IF Len(all) > MaxLen THEN SubSeq(all, 1, MaxLen + 1) ELSE all

-----------------------------------------------------------------------------
(* What a call does to the future, and what the client learns from it.     *)

Unregistered == UNCHANGED <<interest, pctx>>

return_ok(f, len) ==
  /\ fut' = [fut EXCEPT ![f].length = len, ![f].ready = 1, ![f].error = "ok"]
  /\ client' = [client EXCEPT ![f] = "done"]
  /\ Unregistered

return_error(f, r) ==
  /\ fut' = [fut EXCEPT ![f].ready = 1, ![f].error = Code(r)]
  /\ client' = [client EXCEPT ![f] = "failed"]
  /\ Unregistered

(* Several calls return an error code without telling the future.          *)
ReturnOnly(f) ==
  /\ client' = [client EXCEPT ![f] = "failed"]
  /\ UNCHANGED fut
  /\ Unregistered

\* BUG: the poll_ctx stays registered after its event
OnceForgotten == FALSE
Once == TRUE

Pends(f, c, e, op, len, rest) ==
  /\ fut' = [fut EXCEPT ![f].io = c, ![f].length = len, ![f].buflen = rest, ![f].ready = 0]
  /\ client' = [client EXCEPT ![f] = "pending"]
  /\ poll_register(c, Once, {e}, op, f)

(* The client's code runs outside of the loop and in its callback.         *)
Call(op, f, c, n) ==
  /\ op \in Ops[c]
  /\ Idle \/ inuser
  /\ client[f] # "pending"
  /\ OneAtATime => \A g \in Futures : client[g] = "pending" => FdOf[fut[g].io] # FdOf[c]
  /\ want' = [want EXCEPT ![f] = n]
  /\ UNCHANGED <<backend, batch, calling, inuser>>

-----------------------------------------------------------------------------
(* The calls.                                                              *)

StreamIn(op, f, c, n) ==
  /\ Call(op, f, c, n)
  /\ \E r \in Incoming(c, n) :
        /\ Consumes(c, "in", r, n)
        /\ CASE r >= 0 -> return_ok(f, r)
             [] r = Again -> Pends(f, c, "in", op, fut[f].length, n)
             [] r = Failed -> return_error(f, r)
  /\ sent' = [sent EXCEPT ![f] = << >>]

io_async_read(f, c, n) == StreamIn("read", f, c, n)
io_async_recv(f, c, n) == StreamIn("recv", f, c, n)

(* EWOULDBLOCK is an error like the others; what the kernel has not taken  *)
(* is sent later, from the beginning of the buffer.                        *)
StreamOut(op, f, c, n) ==
  /\ Call(op, f, c, n)
  /\ \E r \in Outgoing(c, n) :
        /\ Consumes(c, "out", r, n)
        /\ CASE r = n -> return_ok(f, n)
             [] r >= 0 /\ r < n -> Pends(f, c, "out", op, n, n - r)
             [] r < 0 -> return_error(f, r)
        /\ sent' = [sent EXCEPT ![f] = IF r < 0 THEN << >> ELSE Front(r)]

io_async_write(f, c, n) == StreamOut("write", f, c, n)
io_async_send(f, c, n) == StreamOut("send", f, c, n)

io_async_recvfrom(f, c, n) == StreamIn("recvfrom", f, c, n)

io_async_sendto(f, c, n) ==
  /\ Call("sendto", f, c, n)
  /\ \E r \in Whole(c, n) :
        /\ Consumes(c, "out", r, n)
        /\ CASE r >= 0 -> return_ok(f, r)
             [] r = Again -> Pends(f, c, "out", "sendto", fut[f].length, n)
             [] r = Failed -> ReturnOnly(f)
        /\ sent' = [sent EXCEPT ![f] = IF r < 0 THEN << >> ELSE Front(r)]

(* A connection to a host in reach may stand at once; it fails at once, or *)
(* it is in progress.  The length stays what it was.                       *)
io_async_connect(f, c) ==
  /\ Call("connect", f, c, 0)
  /\ \/ return_ok(f, fut[f].length)
     \/ return_error(f, Failed)
     \/ Pends(f, c, "out", "connect", fut[f].length, fut[f].buflen)
  /\ sent' = [sent EXCEPT ![f] = << >>]
  /\ UNCHANGED cond

io_async_accept(f, c) ==
  /\ Call("accept", f, c, 0)
  /\ \E r \in Incoming(c, 0) :
        /\ Consumes(c, "in", r, 0)
        /\ CASE r >= 0 -> return_ok(f, fut[f].length)
             [] r = Again -> Pends(f, c, "in", "accept", fut[f].length, fut[f].buflen)
             [] r = Failed -> return_error(f, r)
  /\ sent' = [sent EXCEPT ![f] = << >>]

(* The Windows build reads and writes files at once, whatever it takes.    *)
FileCall(op, f, c, n, lengths) ==
  /\ Call(op, f, c, n)
  /\ \/ \E r \in lengths : return_ok(f, r)
     \/ return_error(f, Failed)
  /\ sent' = [sent EXCEPT ![f] = << >>]
  /\ UNCHANGED cond

io_async_read_file(f, c, n) == FileCall("ReadFile", f, c, n, 0 .. n)
io_async_write_file(f, c, n) == FileCall("WriteFile", f, c, n, {n})

-----------------------------------------------------------------------------
(* The handlers: the callback of the poll_ctx, with the future as its data.*)

Handler(op, f) ==
  /\ calling # NULL /\ ~inuser
  /\ pctx[calling].cb = op
  /\ f = pctx[calling].udata
  /\ UNCHANGED <<backend, batch, want>>

(* ready is set and the client called.                                     *)
Completes(f, error, len) ==
  /\ fut' = [fut EXCEPT ![f].error = error, ![f].length = len, ![f].ready = 1]
  /\ client' = [client EXCEPT ![f] = "done"]
  /\ inuser' = TRUE
  /\ UNCHANGED <<interest, pctx, calling>>

ReadLength(op, f, r) == IF r >= 0 THEN r ELSE IF op = "recvfrom" THEN fut[f].length ELSE 0

io_handle_in(op, f) ==
  /\ Handler(op, f)
  /\ \E r \in Incoming(fut[f].io, fut[f].buflen) :
        /\ Consumes(fut[f].io, "in", r, 0)
        /\ Completes(f, Code(r), ReadLength(op, f, r))
  /\ UNCHANGED sent

io_handle_read(f) == io_handle_in("read", f)
io_handle_recv(f) == io_handle_in("recv", f)
io_handle_recvfrom(f) == io_handle_in("recvfrom", f)

(* Neither the buffer nor its length moves on when a part has been taken.  *)
io_handle_out(op, f) ==
  LET c == fut[f].io
  IN  /\ Handler(op, f)
      /\ \E r \in Outgoing(c, fut[f].buflen) :
            /\ Consumes(c, "out", r, fut[f].buflen)
            /\ IF r = fut[f].buflen \/ r < 0
                 THEN Completes(f, Code(r), fut[f].length)
                 ELSE /\ poll_register(c, Once, {"out"}, op, f)
                      /\ calling' = NULL
                      /\ UNCHANGED <<fut, client, inuser>>
            /\ sent' = [sent EXCEPT ![f] = IF r < 0 THEN @ ELSE Taken(@, r)]

io_handle_write(f) == io_handle_out("write", f)
io_handle_send(f) == io_handle_out("send", f)

io_handle_sendto(f) ==
  /\ Handler("sendto", f)
  /\ \E r \in Whole(fut[f].io, fut[f].buflen) :
        /\ Consumes(fut[f].io, "out", r, fut[f].buflen)
        /\ Completes(f, Code(r), IF r >= 0 THEN r ELSE fut[f].length)
        /\ sent' = [sent EXCEPT ![f] = IF r < 0 THEN @ ELSE Taken(@, r)]

io_handle_connect(f) ==
  /\ Handler("connect", f)
  /\ Completes(f, IF "error" \in pctx[fut[f].io].events THEN "fail" ELSE "ok", fut[f].length)
  /\ UNCHANGED <<cond, sent>>

(* accept never fails with EINPROGRESS: it is not tried again.             *)
io_handle_accept(f) ==
  /\ Handler("accept", f)
  /\ \E r \in Incoming(fut[f].io, 0) :
        /\ Consumes(fut[f].io, "in", r, 0)
        /\ Completes(f, Code(r), fut[f].length)
  /\ UNCHANGED sent

-----------------------------------------------------------------------------
ioonly == <<fut, client, want, sent, inuser>>

Wait == poll_looper_wait_events /\ UNCHANGED ioonly
Serve == ProcessEvent /\ UNCHANGED ioonly

ClientReturns ==
  /\ inuser
  /\ inuser' = FALSE
  /\ CallbackReturns
  /\ UNCHANGED <<fut, client, want, sent>>

(* The network: data arrives, room is made, a connection breaks.           *)
Arises(fd, e) ==
  /\ e \in Conditions[fd] \ cond[fd]
  /\ cond' = [cond EXCEPT ![fd] = @ \cup {e}]
  /\ UNCHANGED <<backend, interest, pctx, batch, calling>>
  /\ UNCHANGED ioonly

Starts == \E f \in Futures : \E c \in Uses[f] :
  \/ \E n \in InLengths : \/ io_async_read(f, c, n)
                          \/ io_async_recv(f, c, n)
                          \/ io_async_recvfrom(f, c, n)
                          \/ io_async_read_file(f, c, n)
  \/ \E n \in OutLengths : \/ io_async_write(f, c, n)
                           \/ io_async_send(f, c, n)
                           \/ io_async_sendto(f, c, n)
                           \/ io_async_write_file(f, c, n)
  \/ io_async_connect(f, c)
  \/ io_async_accept(f, c)

Handles == \E f \in Futures : \/ io_handle_read(f)
                              \/ io_handle_write(f)
                              \/ io_handle_connect(f)
                              \/ io_handle_accept(f)
                              \/ io_handle_recv(f)
                              \/ io_handle_send(f)
                              \/ io_handle_recvfrom(f)
                              \/ io_handle_sendto(f)

Next == \/ Starts
        \/ Wait
        \/ Serve
        \/ Handles
        \/ ClientReturns
        \/ \E fd \in Fds : \E e \in Conditions[fd] : Arises(fd, e)

Spec == Init /\ [][Next]_vars

(* The main loop goes on, callbacks return, and the peers go on sending    *)
(* and reading.                                                            *)
FairSpec ==
  /\ Spec
  /\ WF_vars(Wait) /\ WF_vars(Serve) /\ WF_vars(Handles) /\ WF_vars(ClientReturns)
  /\ \A fd \in Fds : \A e \in Conditions[fd] \cap {"in", "out"} : WF_vars(Arises(fd, e))

-----------------------------------------------------------------------------
TypeOK ==
  /\ PollTypeOK
  /\ \A c \in Ctxs : pctx[c].cb \in Ops[c] \cup {NULL} /\ pctx[c].udata \in Futures \cup {NULL}
  /\ fut \in [Futures -> [io : Ctxs \cup {NULL}, buflen : 0 .. MaxLen, ready : 0 .. 1,
                          error : {"ok", "again", "fail"}, length : 0 .. MaxLen]]
  /\ client \in [Futures -> {"free", "pending", "done", "failed"}]
  /\ inuser \in BOOLEAN /\ (inuser => calling # NULL)

(* A pending future is held in exactly one place: by the epoll entry of    *)
(* its descriptor, by an event still to be processed, or by the callback   *)
(* that runs; and what is held is the future of a pending call.  So each   *)
(* call that did not complete at once is called back, and called back once.*)
Holds(f) ==
  LET c == fut[f].io
      mine == c # NULL /\ pctx[c].udata = f
      entry == mine /\ \E e \in interest[FdOf[c]] : e.ctx = c
      event == mine /\ \E i \in DOMAIN batch : batch[i].ctx = c
  IN  [entry |-> entry, event |-> event, call |-> mine /\ calling = c /\ ~inuser]

PendingIsHeld == \A f \in Futures :
  IF client[f] = "pending"
    THEN /\ fut[f].ready = 0
         /\ Holds(f).entry \/ Holds(f).event \/ Holds(f).call
         /\ Holds(f).call => ~Holds(f).entry /\ ~Holds(f).event
    ELSE ~Holds(f).entry /\ ~Holds(f).event /\ ~Holds(f).call

(* ioasync.h:144 and 150, "io_future.cb will not run" of a call that has   *)
(* completed at once and runs "when io complete": whoever is called back   *)
(* had a call pending, and the result it finds is that of this call.  A    *)
(* result stays as it is until the client makes its next call.             *)
CalledOncePending ==
  [][\A f \in Futures :
       /\ inuser' /\ ~inuser /\ f = pctx[calling].udata =>
            client[f] = "pending" /\ client'[f] = "done" /\ fut'[f].ready = 1
       /\ calling # NULL /\ ~inuser /\ client[f] # "pending" => fut'[f] = fut[f]]_vars

(* ioasync.h:150, "io_future.cb will run when io complete": a pending call *)
(* ends.  A second call on the same io_ctx takes its poll_ctx away from    *)
(* the first.                                                              *)
PendingCompletes == \A f \in Futures : client[f] = "pending" ~> client[f] # "pending"

(* ioasync.h:143, "io_future.length = readed or writed data length": a     *)
(* write that is done has written the buffer, each byte once and in order. *)
SentOnce == \A f \in Futures :
  client[f] = "done" /\ fut[f].error = "ok" /\ sent[f] # << >> => sent[f] = Front(want[f])

=============================================================================
