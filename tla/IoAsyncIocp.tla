------------------------------ MODULE IoAsyncIocp ------------------------------
(***************************************************************************)
(* src/src/ioasync_iocp.c on Windows Vista or later.  A call hands its     *)
(* buffer to the kernel, which puts a packet into the completion port when *)
(* it is done; other threads put callbacks into the same port, as packets  *)
(* with a length no transfer has.  The main thread takes packets out and   *)
(* processes them in order.  Whether a call completes at once or later is  *)
(* the same to the port: there is a packet for both.  Contents of buffers, *)
(* addresses and error codes are left out.                                 *)
(***************************************************************************)
EXTENDS Integers, Sequences, Functions

CONSTANTS Futures,    \* io_future structures
          Sockets,    \* io_ctx structures of sockets
          Streams,    \* those of files, without IO_FLAG_RANDOM_ACCESS
          Randoms,    \* and with it
          Callbacks,  \* what other threads post, each with its data
          MaxLen,     \* bound: the longest buffer
          MaxOffset,  \* bound: the length of a file
          MaxCount,   \* the length of the array given to wait_events
          OneAtATime, \* does a client wait for a call of a stream before the next?
          RunKey,     \* IO_RUN_KEY: the length that marks a callback
          NULL        \* nobody

ASSUME BoundsAssumption ==
  MaxLen \in Nat \ {0} /\ MaxOffset \in Nat /\ MaxCount \in Nat \ {0}
ASSUME SwitchAssumption == OneAtATime \in BOOLEAN
ASSUME RunKeyAssumption == RunKey \in Nat /\ RunKey > MaxLen
ASSUME KindsAssumption == Sockets \cap (Streams \cup Randoms) = {} /\ Futures \cap Callbacks = {}

Ctxs == Sockets \cup Streams \cup Randoms

KernelCall == [ctx : Ctxs, len : 0 .. MaxLen, pos : 0 .. MaxOffset]
Completion == [bytes : 0 .. MaxLen, key : Ctxs, ov : Futures, status : {"ok", "fail"}]
Post == [bytes : {RunKey}, key : Callbacks, ov : {NULL}, status : {NULL}]

ASSUME NullAssumption == NULL \notin Futures \cup Callbacks \cup KernelCall /\ NULL # "add_pos"

VARIABLES fut,      \* the io_future structures
          offset,   \* io_ctx.offset
          kernel,   \* the call the kernel works at for a future, or NULL
          port,     \* the packets in the completion port
          batch,    \* the results of the wait that are not processed yet
          calling,  \* whose callback runs: a future's, a posted one, or NULL
          pending,  \* the futures whose clients wait for a callback
          moved,    \* history: how many bytes the kernel has moved in a stream
          order     \* history: the callbacks that are posted and have not run

iovars == <<fut, offset, kernel, port, batch, calling, pending, moved, order>>

Idle == batch = << >> /\ calling = NULL

IoInit ==
  /\ fut = [f \in Futures |-> [ready |-> 0, length |-> 0, precb |-> NULL]]
  /\ offset = [c \in Ctxs |-> 0]
  /\ kernel = [f \in Futures |-> NULL]
  /\ port = << >>
  /\ batch = << >>
  /\ calling = NULL
  /\ pending = {}
  /\ moved = [c \in Ctxs |-> 0]
  /\ order = << >>

Packets == batch \o port
Busy(c) == \/ \E f \in Futures : kernel[f] # NULL /\ kernel[f].ctx = c
           \/ \E i \in DOMAIN Packets : Packets[i].key = c

-----------------------------------------------------------------------------
(* The calls.  The kernel takes a call, or refuses it at once: then there  *)
(* is no packet, and ready and length are not those of a result.           *)

\* BUG: ERROR_IO_PENDING is returned as an error
WaitingAfterPending(f) == pending
WaitingAfter(f) == pending \cup {f}

Issue(f, c, n, pos, precb) ==
  /\ fut' = [fut EXCEPT ![f].ready = 0, ![f].precb = precb]
  /\ \/ /\ kernel' = [kernel EXCEPT ![f] = [ctx |-> c, len |-> n, pos |-> pos]]
        /\ pending' = WaitingAfter(f)
     \/ UNCHANGED <<kernel, pending>>

(* The client's code runs outside of the loop and in callbacks.  It leaves *)
(* a future alone while its call is pending.                               *)
Call(f, c) ==
  /\ Idle \/ calling # NULL
  /\ f \notin pending
  /\ OneAtATime /\ c \in Streams => ~Busy(c)
  /\ UNCHANGED <<offset, port, batch, calling, moved, order>>

\* BUG: a call of a stream does not move the offset on
AfterFileForgotten(c) == NULL
AfterFile(c) == IF c \in Streams THEN "add_pos" ELSE NULL

(* io_async_read and io_async_write: the position is that of the stream,   *)
(* or given by the client.                                                 *)
FileCall(f, c, n, pos) ==
  /\ c \notin Sockets
  /\ Call(f, c)
  /\ offset[c] + n <= MaxOffset
  /\ Issue(f, c, n, IF c \in Streams THEN offset[c] ELSE pos, AfterFile(c))

io_async_read(f, c, n, pos) == FileCall(f, c, n, pos)
io_async_write(f, c, n, pos) == FileCall(f, c, n, pos)

(* io_async_recv, send, recvfrom and sendto, and connect with nothing to   *)
(* transfer.                                                               *)
SocketCall(f, c, n) ==
  /\ c \in Sockets
  /\ Call(f, c)
  /\ Issue(f, c, n, 0, NULL)

io_async_connect(f, c) == SocketCall(f, c, 0)
io_async_recv(f, c, n) == SocketCall(f, c, n)
io_async_send(f, c, n) == SocketCall(f, c, n)
io_async_recvfrom(f, c, n) == SocketCall(f, c, n)
io_async_sendto(f, c, n) == SocketCall(f, c, n)

(* accept may fail before it touches the future.  Its precb only copies    *)
(* the address, and is as good as none.                                    *)
io_async_accept(f, c) ==
  /\ c \in Sockets
  /\ Call(f, c)
  /\ \/ Issue(f, c, 0, 0, NULL)
     \/ UNCHANGED <<fut, kernel, pending>>

(* The kernel has done a call, in part perhaps, or has failed to.          *)
Completed(f) ==
  /\ kernel[f] # NULL
  /\ \E r \in 0 .. kernel[f].len, status \in {"ok", "fail"} :
        /\ status = "fail" => r = 0
        /\ port' = Append(port, [bytes |-> r, key |-> kernel[f].ctx, ov |-> f, status |-> status])
        /\ moved' = [moved EXCEPT ![kernel[f].ctx] =
                       IF kernel[f].ctx \in Streams THEN @ + r ELSE @]
  /\ kernel' = [kernel EXCEPT ![f] = NULL]
  /\ UNCHANGED <<fut, offset, batch, calling, pending, order>>

-----------------------------------------------------------------------------
(* The looper.                                                             *)

(* The port takes the packet, or refuses it.                               *)
io_looper_post_callback(cb) ==
  /\ \/ /\ port' = Append(port, [bytes |-> RunKey, key |-> cb, ov |-> NULL, status |-> NULL])
        /\ order' = Append(order, cb)
     \/ UNCHANGED <<port, order>>
  /\ UNCHANGED <<fut, offset, kernel, batch, calling, pending, moved>>

io_looper_wait_events ==
  /\ Idle
  /\ port # << >>
  /\ LET n == IF Len(port) < MaxCount THEN Len(port) ELSE MaxCount
     IN  /\ batch' = SubSeq(port, 1, n)
         /\ port' = SubSeq(port, n + 1, Len(port))
  /\ UNCHANGED <<fut, offset, kernel, calling, pending, moved, order>>

\* BUG: the loop ends behind a callback that another thread has posted
RestAfterRunLost == << >>
RestAfterRun == Tail(batch)

ProcessPosted ==
  /\ calling = NULL /\ batch # << >>
  /\ Head(batch).bytes = RunKey
  /\ calling' = Head(batch).key
  /\ batch' = RestAfterRun
  /\ order' = Tail(order)
  /\ UNCHANGED <<fut, offset, kernel, port, pending, moved>>

LengthOf(e) == IF e.status = "ok" THEN e.bytes ELSE 0

(* The offset has moved on when the callback starts the next call.         *)
ProcessCompleted ==
  /\ calling = NULL /\ batch # << >>
  /\ Head(batch).bytes # RunKey
  /\ LET e == Head(batch)
         f == e.ov
     IN  /\ fut' = [fut EXCEPT ![f].ready = 1, ![f].length = LengthOf(e)]
         /\ offset' = IF fut[f].precb = "add_pos"
                        THEN [offset EXCEPT ![e.key] = @ + LengthOf(e)] ELSE offset
         /\ calling' = f
         /\ pending' = pending \ {f}
  /\ batch' = Tail(batch)
  /\ UNCHANGED <<kernel, port, moved, order>>

CallbackReturns ==
  /\ calling # NULL
  /\ calling' = NULL
  /\ UNCHANGED <<fut, offset, kernel, port, batch, pending, moved, order>>

-----------------------------------------------------------------------------
IoTypeOK ==
  /\ fut \in [Futures -> [ready : 0 .. 1, length : 0 .. MaxLen, precb : {NULL, "add_pos"}]]
  /\ offset \in [Ctxs -> 0 .. MaxOffset] /\ moved \in [Ctxs -> 0 .. MaxOffset]
  /\ kernel \in [Futures -> KernelCall \cup {NULL}]
  /\ port \in Seq(Completion \cup Post)
  /\ batch \in Seq(Completion \cup Post) /\ Len(batch) <= MaxCount
  /\ calling \in Futures \cup Callbacks \cup {NULL}
  /\ pending \subseteq Futures
  /\ order \in Seq(Callbacks)

CompletionsOf(f) == { i \in DOMAIN Packets : Packets[i].ov = f }

(* A pending future is held in exactly one place: by the kernel, or by one *)
(* packet on its way; nothing holds another future.  So each call that the *)
(* kernel has taken is called back, once.                                  *)
PendingIsHeld == \A f \in Futures :
  IF f \in pending
    THEN /\ fut[f].ready = 0
         /\ IF kernel[f] # NULL THEN CompletionsOf(f) = {}
                                ELSE \E i \in DOMAIN Packets : CompletionsOf(f) = {i}
    ELSE kernel[f] = NULL /\ CompletionsOf(f) = {}

(* ioasync.h:161: reads and writes of a stream ignore the offset that is   *)
(* given and follow each other: what the kernel works at begins where the  *)
(* last call has ended, without a gap and without a byte twice.            *)
StreamIsContinuous == \A f \in Futures :
  kernel[f] # NULL /\ kernel[f].ctx \in Streams => kernel[f].pos = moved[kernel[f].ctx]

(* Callbacks that other threads post are kept, in the order of the posts:  *)
(* one packet each, and these one behind the other.                        *)
IsPosted(p) == p.bytes = RunKey
PostsAreKept ==
  \E place \in [DOMAIN order -> DOMAIN Packets] :
    /\ \A i, j \in DOMAIN order : i < j => place[i] < place[j]
    /\ \A i \in DOMAIN order : Packets[place[i]].key = order[i]
    /\ Range(place) = { k \in DOMAIN Packets : IsPosted(Packets[k]) }
=============================================================================
