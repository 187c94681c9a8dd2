--------------------------- MODULE IocpMain_proofs ---------------------------
(***************************************************************************)
(* Proofs about the completion port and the main loop over it, for any     *)
(* number of futures, sockets, files and callbacks, and buffers, files and *)
(* batches of any length.                                                  *)
(***************************************************************************)
EXTENDS IocpMain, SequenceTheorems, TLAPS

-----------------------------------------------------------------------------
(* The invariant, all of it about the packets on their way, in the batch   *)
(* or still in the port.                                                   *)
Packet == Completion \cup Post
Future == [ready : 0 .. 1, length : 0 .. MaxLen, precb : {NULL, "add_pos"}]

Types ==
  /\ fut \in [Futures -> Future]
  /\ offset \in [Ctxs -> Nat]
  /\ kernel \in [Futures -> KernelCall \cup {NULL}]
  /\ port \in Seq(Packet) /\ batch \in Seq(Packet)
  /\ calling \in Futures \cup Callbacks \cup {NULL}
  /\ pending \subseteq Futures
  /\ order \in Seq(Callbacks)
  /\ poller \in {"wait", "got", "held"}
  /\ hev \in BOOLEAN
  /\ deaf \in BOOLEAN

(* What is held is pending, by one holder, and what is pending is held.    *)
Held ==
  /\ \A f \in Futures : kernel[f] # NULL => f \in pending
  /\ \A i \in DOMAIN Packets :
        Packets[i].ov # NULL => Packets[i].ov \in pending /\ kernel[Packets[i].ov] = NULL
  /\ \A i, j \in DOMAIN Packets : Packets[i].ov # NULL /\ Packets[i].ov = Packets[j].ov => i = j
  /\ \A f \in pending : /\ fut[f].ready = 0
                        /\ kernel[f] # NULL \/ \E i \in DOMAIN Packets : Packets[i].ov = f

(* The results of PollThread are handed over once, and it waits for them   *)
(* unless the port has refused its callback.                               *)
Handed ==
  LET posted == \E i \in DOMAIN order : order[i] = PollResult
  IN  /\ posted \/ calling = PollResult => poller = "held" /\ ~hev
      /\ posted => calling # PollResult
      /\ \A i, j \in DOMAIN order : order[i] = PollResult /\ order[j] = PollResult => i = j
      /\ hev => poller = "held"
      /\ poller = "held" => posted \/ calling = PollResult \/ hev \/ deaf

Inv == Types /\ Held /\ PostsAreKept /\ Handed

(* What a client that waits for a call of a stream before it starts the    *)
(* next one adds: one call of a stream is on its way, and where that one   *)
(* begins, what it has moved and the offset belong together.               *)
Sized ==
  /\ offset \in [Ctxs -> 0 .. MaxOffset] /\ moved \in [Ctxs -> 0 .. MaxOffset]
  /\ Len(batch) <= MaxCount

AtWork == \A f \in Futures : kernel[f] # NULL =>
  IF kernel[f].ctx \in Streams
    THEN /\ fut[f].precb = "add_pos"
         /\ kernel[f].pos = offset[kernel[f].ctx] /\ kernel[f].pos = moved[kernel[f].ctx]
         /\ kernel[f].pos + kernel[f].len <= MaxOffset
    ELSE fut[f].precb = NULL

OnTheWay == \A i \in DOMAIN Packets : Packets[i].ov # NULL =>
  IF Packets[i].key \in Streams
    THEN /\ fut[Packets[i].ov].precb = "add_pos"
         /\ moved[Packets[i].key] = offset[Packets[i].key] + LengthOf(Packets[i])
    ELSE fut[Packets[i].ov].precb = NULL

Alone ==
  /\ \A f, g \in Futures : kernel[f] # NULL /\ kernel[g] # NULL
                              /\ kernel[f].ctx = kernel[g].ctx /\ kernel[f].ctx \in Streams => f = g
  /\ \A f \in Futures, i \in DOMAIN Packets :
        ~(kernel[f] # NULL /\ Packets[i].ov # NULL /\ Packets[i].key = kernel[f].ctx /\ kernel[f].ctx \in Streams)
  /\ \A i, j \in DOMAIN Packets : Packets[i].ov # NULL /\ Packets[j].ov # NULL
                                    /\ Packets[i].key = Packets[j].key /\ Packets[i].key \in Streams => i = j

Settled == \A c \in Ctxs :
  \/ moved[c] = offset[c]
  \/ c \in Streams /\ \E i \in DOMAIN Packets : Packets[i].ov # NULL /\ Packets[i].key = c

Streamed == Sized /\ AtWork /\ OnTheWay /\ Alone /\ Settled

-----------------------------------------------------------------------------
(* What a call and its result write into a future.                         *)
LEMMA FutureCalled ==
  ASSUME NEW x \in Future, NEW pre \in {NULL, "add_pos"}
  PROVE  [x EXCEPT !.ready = 0, !.precb = pre] \in Future
<1>1. [x EXCEPT !.ready = 0] \in Future
  BY DEF Future
<1>2. [[x EXCEPT !.ready = 0] EXCEPT !.precb = pre] \in Future
  BY <1>1 DEF Future
<1> QED
  BY <1>2

LEMMA FutureDone ==
  ASSUME NEW x \in Future, NEW n \in 0 .. MaxLen
  PROVE  [x EXCEPT !.ready = 1, !.length = n] \in Future
<1>1. [x EXCEPT !.ready = 1] \in Future
  BY DEF Future
<1>2. [[x EXCEPT !.ready = 1] EXCEPT !.length = n] \in Future
  BY <1>1 DEF Future
<1> QED
  BY <1>2

-----------------------------------------------------------------------------
(* What the actions do to the packets on their way.                        *)
LEMMA PacketsTyped ==
  ASSUME Types
  PROVE  /\ Packets \in Seq(Packet)
         /\ Len(Packets) = Len(batch) + Len(port)
         /\ DOMAIN Packets = 1 .. Len(batch) + Len(port)
         /\ \A i \in DOMAIN Packets : Packets[i] \in Packet
BY DEF Types, Packets

LEMMA PacketKinds ==
  ASSUME NEW p \in Packet
  PROVE  /\ p.ov # NULL <=> p \in Completion
         /\ p.bytes = RunKey <=> p \in Post
         /\ p \in Completion => p.ov \in Futures /\ p.key \in Ctxs /\ p.bytes \in 0 .. MaxLen
         /\ p \in Post => p.key \in Callbacks
BY RunKeyAssumption, BoundsAssumption, NullAssumption DEF Packet, Completion, Post

LEMMA PacketsPut ==
  ASSUME Types, NEW p \in Packet, port' = Append(port, p), batch' = batch
  PROVE  /\ port' \in Seq(Packet)
         /\ Packets' = Append(Packets, p)
         /\ DOMAIN Packets' = 1 .. Len(Packets) + 1
         /\ \A i \in DOMAIN Packets : Packets'[i] = Packets[i]
         /\ Packets'[Len(Packets) + 1] = p
<1>1. port' \in Seq(Packet)
  BY DEF Types
<1>2. Packets' = Append(Packets, p)
  BY AppendIsConcat, ConcatAssociative DEF Types, Packets
<1> QED
  BY <1>1, <1>2, PacketsTyped

LEMMA PacketsGrow ==
  ASSUME Types, NEW p \in Packet, port' = Append(port, p), batch' = batch
  PROVE  LET last == Len(Packets) + 1
         IN  /\ DOMAIN Packets' = DOMAIN Packets \cup {last} /\ last \notin DOMAIN Packets
             /\ \A i \in DOMAIN Packets : Packets'[i] = Packets[i]
             /\ Packets'[last] = p
<1> DEFINE last == Len(Packets) + 1
<1>1. DOMAIN Packets = 1 .. Len(Packets) /\ Len(Packets) \in Nat
  BY PacketsTyped
<1>2. 1 .. last = (1 .. Len(Packets)) \cup {last} /\ last \notin 1 .. Len(Packets)
  BY <1>1
<1> QED
  BY <1>1, <1>2, PacketsPut

LEMMA PacketsWait ==
  ASSUME Types, io_looper_wait_events
  PROVE  Packets' = Packets /\ port' \in Seq(Packet) /\ batch' \in Seq(Packet)
<1> DEFINE n == IF Len(port) < MaxCount THEN Len(port) ELSE MaxCount
<1>1. batch = << >> /\ batch' = SubSeq(port, 1, n) /\ port' = SubSeq(port, n + 1, Len(port))
  BY DEF io_looper_wait_events, Idle
<1>2. n \in 0 .. Len(port) /\ port \in Seq(Packet)
  BY BoundsAssumption DEF Types
<1> HIDE DEF n
<1>3. SubSeq(port, 1, n) \in Seq(Packet) /\ SubSeq(port, n + 1, Len(port)) \in Seq(Packet)
  BY <1>2, SubSeqProperties
<1>4. SubSeq(port, 1, n) \o SubSeq(port, n + 1, Len(port)) = port
  <2>1. SubSeq(port, 1, n) \o SubSeq(port, n + 1, Len(port)) = SubSeq(port, 1, Len(port))
    <3>1. 1 \in 1 .. Len(port) + 1 /\ n \in 1 - 1 .. Len(port) /\ Len(port) \in n .. Len(port)
      BY <1>2
    <3> QED
      BY <1>2, <3>1, ConcatAdjacentSubSeq, Zenon
  <2> QED
    BY <1>2, <2>1, SubSeqFull
<1>5. Packets = port
  BY <1>1, <1>2 DEF Packets
<1> QED
  BY <1>1, <1>3, <1>4, <1>5 DEF Packets

LEMMA PacketsTaken ==
  ASSUME Types, batch # << >>, batch' = Tail(batch), port' = port
  PROVE  /\ batch' \in Seq(Packet) /\ Head(batch) \in Packet
         /\ Len(Packets) > 0 /\ Packets[1] = Head(batch)
         /\ DOMAIN Packets' = 1 .. Len(Packets) - 1
         /\ \A i \in DOMAIN Packets' : i + 1 \in DOMAIN Packets /\ Packets'[i] = Packets[i + 1]
<1>1. batch \in Seq(Packet) /\ port \in Seq(Packet) /\ Len(batch) > 0
  BY DEF Types
<1>2. Tail(batch) \in Seq(Packet) /\ Len(Tail(batch)) = Len(batch) - 1
      /\ \A i \in 1 .. Len(batch) - 1 : Tail(batch)[i] = batch[i + 1]
  BY <1>1, HeadTailProperties
<1>3. Packets' = Tail(batch) \o port
  BY DEF Packets
<1> QED
  BY <1>1, <1>2, <1>3 DEF Packets

LEMMA PacketsShrink ==
  ASSUME Types, batch # << >>, batch' = Tail(batch), port' = port
  PROVE  /\ 1 \in DOMAIN Packets /\ Packets[1] = Head(batch)
         /\ \A i \in DOMAIN Packets' : i + 1 \in DOMAIN Packets /\ i + 1 # 1 /\ Packets'[i] = Packets[i + 1]
         /\ \A i \in DOMAIN Packets : i # 1 => i - 1 \in DOMAIN Packets' /\ Packets'[i - 1] = Packets[i]
         /\ DOMAIN Packets \subseteq Int /\ DOMAIN Packets' \subseteq Int
<1>1. DOMAIN Packets = 1 .. Len(Packets) /\ Len(Packets) \in Nat
  BY PacketsTyped
<1> QED
  BY <1>1, PacketsTaken

(* The calls of the client, told apart by what the offset has to do with.  *)
LEMMA ClientCalls ==
  ASSUME Types, Client
  PROVE  \E f \in Futures, c \in Ctxs, n \in 0 .. MaxLen, pos \in 0 .. MaxOffset, pre \in {NULL, "add_pos"} :
           /\ Call(f, c)
           /\ Issue(f, c, n, pos, pre) \/ UNCHANGED <<fut, kernel, pending>>
           /\ c \in Streams => pre = "add_pos" /\ pos = offset[c] /\ pos + n <= MaxOffset
           /\ c \notin Streams => pre = NULL
           /\ UNCHANGED pollthread
<1> USE BoundsAssumption
<1>1. PICK f \in Futures, c \in Ctxs :
           /\ \/ \E n \in 1 .. MaxLen : FileCall(f, c, n, 0) \/ SocketCall(f, c, n)
              \/ SocketCall(f, c, 0)
              \/ io_async_accept(f, c)
           /\ UNCHANGED pollthread
  BY DEF Client, io_async_read, io_async_write, io_async_connect, io_async_recv, io_async_send,
         io_async_recvfrom, io_async_sendto
<1>2. ASSUME NEW n \in 1 .. MaxLen, FileCall(f, c, n, 0)
      PROVE  \E pos \in 0 .. MaxOffset, pre \in {NULL, "add_pos"} :
               /\ Call(f, c) /\ Issue(f, c, n, pos, pre)
               /\ c \in Streams => pre = "add_pos" /\ pos = offset[c] /\ pos + n <= MaxOffset
               /\ c \notin Streams => pre = NULL
  <2>1. offset[c] \in Nat /\ offset[c] + n <= MaxOffset
    BY <1>2 DEF FileCall, Types
  <2>2. CASE c \in Streams
    <3>1. offset[c] \in 0 .. MaxOffset
      BY <2>1
    <3>2. Call(f, c) /\ Issue(f, c, n, offset[c], "add_pos")
      BY <1>2, <2>2 DEF FileCall, AfterFile
    <3> QED
      BY <2>1, <2>2, <3>1, <3>2
  <2>3. CASE c \notin Streams
    <3>1. Call(f, c) /\ Issue(f, c, n, 0, NULL)
      BY <1>2, <2>3 DEF FileCall, AfterFile
    <3>2. 0 \in 0 .. MaxOffset
      OBVIOUS
    <3> QED
      BY <2>3, <3>1, <3>2
  <2> QED
    BY <2>2, <2>3
<1>3. c \in Sockets => c \notin Streams
  BY KindsAssumption
<1>4. CASE \E n \in 1 .. MaxLen : FileCall(f, c, n, 0)
  <2>1. PICK n \in 1 .. MaxLen : FileCall(f, c, n, 0)
    BY <1>4
  <2>2. n \in 0 .. MaxLen
    OBVIOUS
  <2> QED
    BY <1>1, <1>2, <2>1, <2>2
<1>5. CASE \E n \in 0 .. MaxLen : SocketCall(f, c, n)
  <2>1. PICK n \in 0 .. MaxLen : SocketCall(f, c, n)
    BY <1>5
  <2>2. Call(f, c) /\ Issue(f, c, n, 0, NULL) /\ c \notin Streams /\ 0 \in 0 .. MaxOffset
    BY <1>3, <2>1 DEF SocketCall
  <2> QED
    BY <1>1, <2>2
<1>6. CASE io_async_accept(f, c)
  <2>1. /\ Call(f, c) /\ c \notin Streams /\ 0 \in 0 .. MaxOffset /\ 0 \in 0 .. MaxLen
        /\ Issue(f, c, 0, 0, NULL) \/ UNCHANGED <<fut, kernel, pending>>
    BY <1>3, <1>6 DEF io_async_accept
  <2> QED
    BY <1>1, <2>1
<1>7. (\E n \in 1 .. MaxLen : SocketCall(f, c, n)) \/ SocketCall(f, c, 0) => \E n \in 0 .. MaxLen : SocketCall(f, c, n)
  <2>1. 0 \in 0 .. MaxLen /\ 1 .. MaxLen \subseteq 0 .. MaxLen
    OBVIOUS
  <2> QED
    BY <2>1
<1> QED
  BY <1>1, <1>4, <1>5, <1>6, <1>7

-----------------------------------------------------------------------------
(* What is pending is held, by one holder.                                 *)
LEMMA HeldByCall ==
  ASSUME Types, Held, NEW f \in Futures, NEW c \in Ctxs, NEW n \in 0 .. MaxLen,
         NEW pos \in 0 .. MaxOffset, NEW pre, Call(f, c), Issue(f, c, n, pos, pre)
  PROVE  Held'
<1>1. UNCHANGED Packets /\ f \notin pending
  BY DEF Call, Packets
<1>2. fut' = [fut EXCEPT ![f].ready = 0, ![f].precb = pre] /\ \A g \in Futures \ {f} : fut'[g] = fut[g]
  BY DEF Issue, Types
<1>3. CASE UNCHANGED <<kernel, pending>>
  BY <1>1, <1>2, <1>3 DEF Held, Types
<1>4. CASE kernel' = [kernel EXCEPT ![f] = [ctx |-> c, len |-> n, pos |-> pos]] /\ pending' = pending \cup {f}
  <2>1. kernel'[f] # NULL /\ \A g \in Futures \ {f} : kernel'[g] = kernel[g]
    BY <1>4, NullAssumption DEF Types, KernelCall
  <2>2. fut'[f].ready = 0
    BY <1>2 DEF Types
  <2>3. \A i \in DOMAIN Packets : Packets[i].ov # NULL => Packets[i].ov # f /\ Packets[i].ov \in Futures
    BY <1>1 DEF Held, Types
  <2> QED
    BY <1>1, <1>2, <1>4, <2>1, <2>2, <2>3 DEF Held, Types
<1> QED
  BY <1>3, <1>4 DEF Issue, WaitingAfter

LEMMA HeldByPut ==
  ASSUME Types, Held, NEW p \in Packet, port' = Append(port, p), batch' = batch, UNCHANGED <<fut, pending>>,
         \/ p.ov = NULL /\ UNCHANGED kernel
         \/ p.ov \in Futures /\ kernel[p.ov] # NULL /\ kernel' = [kernel EXCEPT ![p.ov] = NULL]
  PROVE  Held'
<1> DEFINE last == Len(Packets) + 1
<1>1. /\ DOMAIN Packets' = DOMAIN Packets \cup {last} /\ last \notin DOMAIN Packets
      /\ \A i \in DOMAIN Packets : Packets'[i] = Packets[i]
      /\ Packets'[last] = p
  BY PacketsGrow
<1> HIDE DEF last
<1>2. CASE p.ov = NULL /\ UNCHANGED kernel
  BY <1>1, <1>2 DEF Held
<1>3. CASE p.ov \in Futures /\ kernel[p.ov] # NULL /\ kernel' = [kernel EXCEPT ![p.ov] = NULL]
  <2>1. p.ov \in pending /\ \A i \in DOMAIN Packets : Packets[i].ov # p.ov
    BY <1>3, NullAssumption DEF Held
  <2>2. kernel'[p.ov] = NULL /\ \A g \in Futures \ {p.ov} : kernel'[g] = kernel[g]
    BY <1>3 DEF Types
  <2>3. \A i \in DOMAIN Packets : Packets[i].ov # NULL => Packets[i].ov \in Futures
    BY DEF Held, Types
  <2>4. \A g \in Futures : kernel'[g] # NULL => g \in pending'
    BY <2>2 DEF Held
  <2>5. \A i \in DOMAIN Packets' : Packets'[i].ov # NULL => Packets'[i].ov \in pending' /\ kernel'[Packets'[i].ov] = NULL
    BY <1>1, <2>1, <2>2, <2>3 DEF Held
  <2>6. \A i, j \in DOMAIN Packets' : Packets'[i].ov # NULL /\ Packets'[i].ov = Packets'[j].ov => i = j
    BY <1>1, <2>1 DEF Held
  <2>7. \A g \in pending' : kernel'[g] # NULL \/ \E i \in DOMAIN Packets' : Packets'[i].ov = g
    <3> SUFFICES ASSUME NEW g \in pending, g # p.ov
                 PROVE  kernel'[g] # NULL \/ \E i \in DOMAIN Packets' : Packets'[i].ov = g
      BY <1>1
    <3>1. kernel'[g] = kernel[g]
      BY <2>2 DEF Types
    <3>2. kernel[g] # NULL \/ \E i \in DOMAIN Packets : Packets[i].ov = g
      BY DEF Held
    <3> QED
      BY <1>1, <3>1, <3>2
  <2>8. \A g \in pending' : fut'[g].ready = 0
    BY DEF Held
  <2> QED
    BY <2>4, <2>5, <2>6, <2>7, <2>8 DEF Held
<1> QED
  BY <1>2, <1>3

LEMMA HeldByTaken ==
  ASSUME Types, Held, batch # << >>, batch' = Tail(batch), port' = port, UNCHANGED kernel,
         \/ Head(batch).ov = NULL /\ UNCHANGED <<fut, pending>>
         \/ /\ Head(batch).ov # NULL
            /\ \A g \in Futures \ {Head(batch).ov} : fut'[g] = fut[g]
            /\ pending' = pending \ {Head(batch).ov}
  PROVE  Held'
<1>1. /\ 1 \in DOMAIN Packets /\ Packets[1] = Head(batch)
      /\ \A i \in DOMAIN Packets' : i + 1 \in DOMAIN Packets /\ i + 1 # 1 /\ Packets'[i] = Packets[i + 1]
      /\ \A i \in DOMAIN Packets : i # 1 => i - 1 \in DOMAIN Packets' /\ Packets'[i - 1] = Packets[i]
      /\ DOMAIN Packets \subseteq Int /\ DOMAIN Packets' \subseteq Int
  BY PacketsShrink
<1>2. \A i \in DOMAIN Packets : i # 1 => Packets[i].ov = NULL \/ Packets[i].ov # Head(batch).ov
  BY <1>1 DEF Held
<1>3. \A g \in pending' : g \in pending /\ fut'[g] = fut[g] /\ g # Head(batch).ov
  <2>1. NULL \notin pending
    BY NullAssumption DEF Types
  <2> QED
    BY <2>1 DEF Types
<1>4. \A g \in Futures : kernel'[g] # NULL => g \in pending'
  BY <1>1, NullAssumption DEF Held
<1>5. \A i \in DOMAIN Packets' : Packets'[i].ov # NULL => Packets'[i].ov \in pending' /\ kernel'[Packets'[i].ov] = NULL
  BY <1>1, <1>2 DEF Held
<1>6. \A i, j \in DOMAIN Packets' : Packets'[i].ov # NULL /\ Packets'[i].ov = Packets'[j].ov => i = j
  <2> SUFFICES ASSUME NEW i \in DOMAIN Packets', NEW j \in DOMAIN Packets',
                      Packets'[i].ov # NULL, Packets'[i].ov = Packets'[j].ov
               PROVE  i = j
    OBVIOUS
  <2>1. i + 1 = j + 1
    BY <1>1 DEF Held
  <2> QED
    BY <1>1, <2>1
<1>7. \A g \in pending' : kernel'[g] # NULL \/ \E i \in DOMAIN Packets' : Packets'[i].ov = g
  BY <1>1, <1>3 DEF Held
<1> QED
  BY <1>3, <1>4, <1>5, <1>6, <1>7 DEF Held

-----------------------------------------------------------------------------
(* What is posted is kept, in order.                                       *)
LEMMA PostsByPut ==
  ASSUME Types, PostsAreKept, NEW p \in Packet, port' = Append(port, p), batch' = batch,
         \/ p \in Post /\ order' = Append(order, p.key)
         \/ p \in Completion /\ order' = order
  PROVE  PostsAreKept'
<1> DEFINE last == Len(Packets) + 1
<1>1. /\ DOMAIN Packets = 1 .. Len(Packets) /\ Len(Packets) \in Nat
      /\ DOMAIN Packets' = 1 .. last
      /\ \A i \in DOMAIN Packets : Packets'[i] = Packets[i]
      /\ Packets'[last] = p
  BY PacketsPut, PacketsTyped
<1>2. PICK place \in [DOMAIN order -> DOMAIN Packets] :
    /\ \A i, j \in DOMAIN order : i < j => place[i] < place[j]
    /\ \A i \in DOMAIN order : Packets[place[i]].key = order[i]
    /\ Range(place) = { k \in DOMAIN Packets : IsPosted(Packets[k]) }
  BY DEF PostsAreKept
<1>3. CASE p \in Completion /\ order' = order
  <2>1. ~IsPosted(p)
    BY <1>3, PacketKinds, RunKeyAssumption, BoundsAssumption DEF IsPosted, Completion
  <2>2. { k \in DOMAIN Packets' : IsPosted(Packets'[k]) } = Range(place)
    BY <1>1, <1>2, <2>1
  <2>3. place \in [DOMAIN order' -> DOMAIN Packets']
    BY <1>1, <1>2, <1>3
  <2>4. \A i \in DOMAIN order' : Packets'[place[i]].key = order'[i]
    BY <1>1, <1>2, <1>3
  <2> QED
    BY <1>2, <1>3, <2>2, <2>3, <2>4 DEF PostsAreKept
<1>4. CASE p \in Post /\ order' = Append(order, p.key)
  <2> DEFINE new == [i \in 1 .. Len(order) + 1 |-> IF i <= Len(order) THEN place[i] ELSE last]
  <2>1. /\ order \in Seq(Callbacks) /\ Len(order) \in Nat /\ DOMAIN order = 1 .. Len(order)
        /\ DOMAIN order' = 1 .. Len(order) + 1
        /\ \A i \in DOMAIN order : order'[i] = order[i]
        /\ order'[Len(order) + 1] = p.key
    BY <1>4, PacketKinds DEF Types
  <2>2. IsPosted(p)
    BY <1>4 DEF IsPosted, Post
  <2>3. new \in [DOMAIN order' -> DOMAIN Packets']
    BY <1>1, <1>2, <2>1
  <2>4. \A i, j \in DOMAIN order' : i < j => new[i] < new[j]
    BY <1>1, <1>2, <2>1
  <2>5. \A i \in DOMAIN order' : Packets'[new[i]].key = order'[i]
    BY <1>1, <1>2, <2>1
  <2>6. Range(new) = Range(place) \cup {last}
    <3>1. \A i \in DOMAIN order : new[i] = place[i]
      BY <2>1
    <3>2. new[Len(order) + 1] = last
      BY <2>1
    <3>3. DOMAIN new = DOMAIN order \cup {Len(order) + 1} /\ DOMAIN place = DOMAIN order
      BY <1>2, <2>1
    <3> HIDE DEF new, last
    <3> QED
      BY <3>1, <3>2, <3>3 DEF Range
  <2>7. Range(new) = { k \in DOMAIN Packets' : IsPosted(Packets'[k]) }
    <3> HIDE DEF new
    <3> QED
      BY <1>1, <1>2, <2>2, <2>6
  <2> HIDE DEF new
  <2> QED
    BY <2>3, <2>4, <2>5, <2>7 DEF PostsAreKept
<1> QED
  BY <1>3, <1>4

LEMMA PostsByTaken ==
  ASSUME Types, PostsAreKept, batch # << >>, batch' = Tail(batch), port' = port,
         \/ IsPosted(Head(batch)) /\ order' = Tail(order)
         \/ ~IsPosted(Head(batch)) /\ order' = order
  PROVE  PostsAreKept' /\ (IsPosted(Head(batch)) => Len(order) > 0 /\ order[1] = Head(batch).key)
<1>1. /\ DOMAIN Packets = 1 .. Len(Packets) /\ Len(Packets) \in Nat \ {0}
      /\ DOMAIN Packets' = 1 .. Len(Packets) - 1
      /\ Packets[1] = Head(batch)
      /\ \A i \in DOMAIN Packets' : Packets'[i] = Packets[i + 1]
  BY PacketsTaken, PacketsTyped
<1>2. PICK place \in [DOMAIN order -> DOMAIN Packets] :
    /\ \A i, j \in DOMAIN order : i < j => place[i] < place[j]
    /\ \A i \in DOMAIN order : Packets[place[i]].key = order[i]
    /\ Range(place) = { k \in DOMAIN Packets : IsPosted(Packets[k]) }
  BY DEF PostsAreKept
<1>3. order \in Seq(Callbacks) /\ Len(order) \in Nat /\ DOMAIN order = 1 .. Len(order)
  BY DEF Types
<1>4. CASE IsPosted(Head(batch)) /\ order' = Tail(order)
  <2>1. PICK k \in DOMAIN order : place[k] = 1
    BY <1>1, <1>2, <1>4 DEF Range
  <2>2. k = 1 /\ Len(order) > 0
    <3>1. place[1] \in DOMAIN Packets /\ 1 \in DOMAIN order
      BY <1>2, <1>3, <2>1
    <3>2. ~(1 < k)
      BY <1>1, <1>2, <2>1, <3>1
    <3> QED
      BY <1>3, <2>1, <3>2
  <2>3. order[1] = Head(batch).key
    BY <1>1, <1>2, <2>1, <2>2
  <2> DEFINE new == [i \in 1 .. Len(order) - 1 |-> place[i + 1] - 1]
  <2>4. /\ DOMAIN order' = 1 .. Len(order) - 1
        /\ \A i \in DOMAIN order' : i + 1 \in DOMAIN order /\ order'[i] = order[i + 1]
    <3>1. order # << >>
      BY <2>2
    <3>2. /\ order' \in Seq(Callbacks) /\ Len(order') = Len(order) - 1
          /\ \A i \in 1 .. Len(order') : order'[i] = order[i + 1]
      BY <1>3, <1>4, <3>1, HeadTailProperties
    <3> QED
      BY <1>3, <3>2
  <2>5. \A i \in DOMAIN order' : /\ place[i + 1] \in DOMAIN Packets
                                 /\ place[i + 1] > 1
                                 /\ new[i] = place[i + 1] - 1
    BY <1>1, <1>2, <1>3, <2>1, <2>2, <2>4
  <2>6. new \in [DOMAIN order' -> DOMAIN Packets']
    BY <1>1, <2>4, <2>5
  <2>7. \A i, j \in DOMAIN order' : i < j => new[i] < new[j]
    <3> SUFFICES ASSUME NEW i \in DOMAIN order', NEW j \in DOMAIN order', i < j
                 PROVE  new[i] < new[j]
      OBVIOUS
    <3>1. place[i + 1] \in Int /\ place[j + 1] \in Int
      <4>1. DOMAIN Packets \subseteq Int
        BY <1>1
      <4> QED
        BY <2>5, <4>1
    <3>2. i + 1 \in DOMAIN order /\ j + 1 \in DOMAIN order /\ i + 1 < j + 1
      BY <1>3, <2>4
    <3>3. place[i + 1] < place[j + 1]
      BY <1>2, <3>2
    <3>4. new[i] = place[i + 1] - 1 /\ new[j] = place[j + 1] - 1
      BY <2>5
    <3> HIDE DEF new
    <3> QED
      BY <3>1, <3>3, <3>4
  <2>8. \A i \in DOMAIN order' : Packets'[new[i]].key = order'[i]
    <3> SUFFICES ASSUME NEW i \in DOMAIN order' PROVE Packets'[new[i]] = Packets[place[i + 1]]
      BY <1>2, <2>4
    <3>1. new[i] \in DOMAIN Packets' /\ new[i] + 1 = place[i + 1]
      <4>1. DOMAIN Packets \subseteq Int
        BY <1>1
      <4>2. PICK w \in Int : w = place[i + 1] /\ new[i] = w - 1
        BY <2>5, <4>1
      <4> HIDE DEF new
      <4> QED
        BY <2>6, <4>2
    <3> QED
      BY <1>1, <3>1
  <2>9. \A m \in DOMAIN Packets' : IsPosted(Packets'[m]) => \E i \in DOMAIN order' : new[i] = m
    <3> SUFFICES ASSUME NEW m \in DOMAIN Packets', IsPosted(Packets'[m])
                 PROVE  \E i \in DOMAIN order' : new[i] = m
      OBVIOUS
    <3>1. m + 1 \in Range(place)
      BY <1>1, <1>2
    <3>2. PICK j \in DOMAIN order : place[j] = m + 1
      BY <1>2, <3>1 DEF Range
    <3>3. j # 1
      BY <1>1, <2>1, <2>2, <3>2
    <3>4. j - 1 \in DOMAIN order' /\ (j - 1) + 1 = j
      BY <1>3, <2>4, <3>3
    <3>5. new[j - 1] = place[j] - 1
      BY <2>5, <3>4
    <3>6. new[j - 1] = m
      BY <1>1, <3>2, <3>5
    <3> QED
      BY <3>4, <3>6
  <2>10. \A i \in DOMAIN order' : IsPosted(Packets'[new[i]])
    <3> SUFFICES ASSUME NEW i \in DOMAIN order' PROVE Packets'[new[i]] = Packets[place[i + 1]]
      BY <1>2, <2>4 DEF Range
    <3>1. new[i] \in DOMAIN Packets' /\ new[i] + 1 = place[i + 1]
      <4>1. DOMAIN Packets \subseteq Int
        BY <1>1
      <4>2. PICK w \in Int : w = place[i + 1] /\ new[i] = w - 1
        BY <2>5, <4>1
      <4> HIDE DEF new
      <4> QED
        BY <2>6, <4>2
    <3> QED
      BY <1>1, <3>1
  <2> HIDE DEF new
  <2>11. Range(new) = { m \in DOMAIN Packets' : IsPosted(Packets'[m]) }
    BY <2>6, <2>9, <2>10 DEF Range
  <2> QED
    BY <2>2, <2>3, <2>6, <2>7, <2>8, <2>11 DEF PostsAreKept
<1>5. CASE ~IsPosted(Head(batch)) /\ order' = order
  <2>1. \A i \in DOMAIN order : place[i] \in DOMAIN Packets /\ place[i] # 1
    BY <1>1, <1>2, <1>5 DEF Range
  <2> DEFINE new == [i \in DOMAIN order |-> place[i] - 1]
  <2>2. \A i \in DOMAIN order : new[i] \in DOMAIN Packets' /\ new[i] + 1 = place[i]
    BY <1>1, <2>1
  <2>3. \A i, j \in DOMAIN order : i < j => new[i] < new[j]
    BY <1>1, <1>2, <1>3, <2>1
  <2>4. \A i \in DOMAIN order : Packets'[new[i]] = Packets[place[i]]
    BY <1>1, <2>2
  <2>5. \A m \in DOMAIN Packets' : IsPosted(Packets'[m]) => \E i \in DOMAIN order : new[i] = m
    <3> SUFFICES ASSUME NEW m \in DOMAIN Packets', IsPosted(Packets'[m])
                 PROVE  \E i \in DOMAIN order : new[i] = m
      OBVIOUS
    <3>1. m + 1 \in Range(place)
      BY <1>1, <1>2
    <3>2. PICK j \in DOMAIN order : place[j] = m + 1
      BY <1>2, <3>1 DEF Range
    <3>3. new[j] = m
      BY <1>1, <3>2
    <3> QED
      BY <3>3
  <2>6. new \in [DOMAIN order -> DOMAIN Packets'] /\ DOMAIN new = DOMAIN order
    BY <2>2
  <2> HIDE DEF new
  <2>7. Range(new) = { m \in DOMAIN Packets' : IsPosted(Packets'[m]) }
    BY <1>2, <2>2, <2>4, <2>5, <2>6 DEF Range
  <2> QED
    BY <1>2, <1>5, <2>3, <2>4, <2>6, <2>7 DEF PostsAreKept
<1> QED
  BY <1>4, <1>5

-----------------------------------------------------------------------------
(* The steps of the program.                                               *)
LEMMA InvInit ==
  ASSUME Init
  PROVE  Inv
<1> USE DEF Init, IoInit
<1>1. Packets = << >>
  BY DEF Packets
<1>2. Types
  <2>1. fut \in [Futures -> Future]
    BY BoundsAssumption DEF Future
  <2>2. kernel \in [Futures -> KernelCall \cup {NULL}] /\ offset \in [Ctxs -> Nat]
    OBVIOUS
  <2>3. << >> \in Seq(Packet) /\ << >> \in Seq(Callbacks)
    BY EmptySeq
  <2> QED
    BY <2>1, <2>2, <2>3 DEF Types
<1>3. Held
  BY <1>1 DEF Held
<1>4. PostsAreKept
  <2> DEFINE place == [i \in DOMAIN order |-> i]
  <2>1. DOMAIN order = {} /\ DOMAIN Packets = {}
    BY <1>1
  <2>2. place \in [DOMAIN order -> DOMAIN Packets] /\ Range(place) = {}
    BY <2>1 DEF Range
  <2> HIDE DEF place
  <2> QED
    BY <2>1, <2>2 DEF PostsAreKept
<1>5. Handed
  BY PollResultAssumption, NullAssumption DEF Handed
<1> QED
  BY <1>2, <1>3, <1>4, <1>5 DEF Inv

(* The order of the posts grows at its end and shrinks at its beginning.   *)
LEMMA OrderAppend ==
  ASSUME Types, NEW cb \in Callbacks, order' = Append(order, cb)
  PROVE  /\ order' \in Seq(Callbacks)
         /\ DOMAIN order' = DOMAIN order \cup {Len(order) + 1} /\ Len(order) + 1 \notin DOMAIN order
         /\ \A i \in DOMAIN order : order'[i] = order[i]
         /\ order'[Len(order) + 1] = cb
<1>1. order \in Seq(Callbacks) /\ Len(order) \in Nat /\ DOMAIN order = 1 .. Len(order)
  BY DEF Types
<1>2. 1 .. Len(order) + 1 = (1 .. Len(order)) \cup {Len(order) + 1} /\ Len(order) + 1 \notin 1 .. Len(order)
  BY <1>1
<1> QED
  BY <1>1, <1>2

LEMMA OrderTail ==
  ASSUME Types, Len(order) > 0, order' = Tail(order)
  PROVE  /\ order' \in Seq(Callbacks) /\ order[1] \in Callbacks /\ 1 \in DOMAIN order
         /\ DOMAIN order \subseteq Int /\ DOMAIN order' \subseteq Int
         /\ \A i \in DOMAIN order' : i + 1 \in DOMAIN order /\ i + 1 # 1 /\ order'[i] = order[i + 1]
         /\ \A i \in DOMAIN order : i = 1 \/ \E j \in DOMAIN order' : i = j + 1
<1>1. order \in Seq(Callbacks) /\ Len(order) \in Nat /\ DOMAIN order = 1 .. Len(order) /\ order # << >>
  BY DEF Types
<1>2. /\ order' \in Seq(Callbacks) /\ Len(order') = Len(order) - 1
      /\ \A i \in 1 .. Len(order') : order'[i] = order[i + 1]
  BY <1>1, HeadTailProperties
<1>3. ASSUME NEW i \in DOMAIN order, i # 1
      PROVE  \E j \in DOMAIN order' : i = j + 1
  <2>1. i - 1 \in DOMAIN order' /\ i = (i - 1) + 1
    BY <1>1, <1>2, <1>3
  <2> QED
    BY <2>1
<1>4. ASSUME NEW i \in DOMAIN order'
      PROVE  i + 1 \in DOMAIN order /\ i + 1 # 1 /\ order'[i] = order[i + 1]
  BY <1>1, <1>2
<1> QED
  BY <1>1, <1>2, <1>3, <1>4

LEMMA ClientKeeps ==
  ASSUME Inv, Client
  PROVE  Inv'
<1>1. PICK f \in Futures, c \in Ctxs, n \in 0 .. MaxLen, pos \in 0 .. MaxOffset, pre \in {NULL, "add_pos"} :
           /\ Call(f, c)
           /\ Issue(f, c, n, pos, pre) \/ UNCHANGED <<fut, kernel, pending>>
           /\ UNCHANGED pollthread
  BY ClientCalls DEF Inv
<1>2. UNCHANGED <<Packets, order, calling, poller, hev, deaf>>
  BY <1>1 DEF Call, Packets, pollthread
<1>3. [ctx |-> c, len |-> n, pos |-> pos] \in KernelCall
  BY <1>1 DEF KernelCall
<1>4. CASE Issue(f, c, n, pos, pre)
  <2>1. fut' \in [Futures -> Future]
    <3>1. fut[f] \in Future
      BY DEF Inv, Types
    <3>2. [fut[f] EXCEPT !.ready = 0, !.precb = pre] \in Future
      BY <3>1, FutureCalled
    <3>3. fut' = [fut EXCEPT ![f] = [fut[f] EXCEPT !.ready = 0, !.precb = pre]]
      BY <1>4 DEF Issue, Inv, Types
    <3> QED
      BY <3>2, <3>3 DEF Inv, Types
  <2>2. kernel' \in [Futures -> KernelCall \cup {NULL}] /\ pending' \subseteq Futures
    BY <1>3, <1>4 DEF Issue, WaitingAfter, Inv, Types
  <2>3. Types'
    BY <1>1, <1>2, <2>1, <2>2 DEF Call, Inv, Types
  <2>4. Held'
    BY <1>1, <1>4, HeldByCall DEF Inv
  <2> QED
    BY <1>2, <2>3, <2>4 DEF Inv, PostsAreKept, Handed
<1>5. CASE UNCHANGED <<fut, kernel, pending>>
  <2>1. Types'
    BY <1>1, <1>2, <1>5 DEF Call, Inv, Types
  <2>2. Held'
    BY <1>2, <1>5 DEF Inv, Held
  <2>3. PostsAreKept' /\ Handed'
    BY <1>2 DEF Inv, PostsAreKept, Handed
  <2> QED
    BY <2>1, <2>2, <2>3 DEF Inv
<1> QED
  BY <1>1, <1>4, <1>5

LEMMA KernelKeeps ==
  ASSUME Inv, NEW f \in Futures, Completed(f), UNCHANGED pollthread
  PROVE  Inv'
<1>1. kernel[f] \in KernelCall /\ kernel[f] # NULL
  BY DEF Inv, Types, Completed
<1>2. PICK r \in 0 .. kernel[f].len, status \in {"ok", "fail"} :
        port' = Append(port, [bytes |-> r, key |-> kernel[f].ctx, ov |-> f, status |-> status])
  BY DEF Completed
<1> DEFINE p == [bytes |-> r, key |-> kernel[f].ctx, ov |-> f, status |-> status]
<1>3. p \in Completion /\ p \in Packet /\ p.ov = f
  BY <1>1, BoundsAssumption DEF KernelCall, Completion, Packet
<1>4. port' = Append(port, p) /\ batch' = batch /\ kernel' = [kernel EXCEPT ![f] = NULL]
      /\ UNCHANGED <<fut, offset, calling, pending, order, poller, hev, deaf>>
  BY <1>2 DEF Completed, pollthread
<1> HIDE DEF p
<1>5. Types'
  BY <1>3, <1>4, PacketsPut DEF Inv, Types
<1>6. Held'
  BY <1>1, <1>3, <1>4, HeldByPut DEF Inv
<1>7. PostsAreKept'
  BY <1>3, <1>4, PostsByPut DEF Inv
<1>8. Handed'
  BY <1>4 DEF Inv, Handed
<1> QED
  BY <1>5, <1>6, <1>7, <1>8 DEF Inv

LEMMA PostKeeps ==
  ASSUME Inv, NEW cb \in Callbacks, io_looper_post_callback(cb), Handed',
         poller' \in {"wait", "got", "held"}, hev' \in BOOLEAN, deaf' \in BOOLEAN
  PROVE  Inv'
<1> DEFINE p == [bytes |-> RunKey, key |-> cb, ov |-> NULL, status |-> NULL]
<1>1. p \in Post /\ p \in Packet /\ p.key = cb /\ p.ov = NULL
  BY DEF Post, Packet
<1>2. batch' = batch /\ UNCHANGED <<fut, offset, kernel, calling, pending>>
  BY DEF io_looper_post_callback
<1>3. CASE port' = Append(port, p) /\ order' = Append(order, cb)
  <2> HIDE DEF p
  <2>1. Types'
    BY <1>1, <1>2, <1>3, PacketsPut, OrderAppend DEF Inv, Types
  <2>2. Held'
    BY <1>1, <1>2, <1>3, HeldByPut DEF Inv
  <2>3. PostsAreKept'
    BY <1>1, <1>2, <1>3, PostsByPut DEF Inv
  <2> QED
    BY <2>1, <2>2, <2>3 DEF Inv
<1>4. CASE UNCHANGED <<port, order>>
  <2>1. Packets' = Packets
    BY <1>2, <1>4 DEF Packets
  <2>2. Types'
    BY <1>2, <1>4 DEF Inv, Types
  <2>3. Held' /\ PostsAreKept'
    BY <1>2, <1>4, <2>1 DEF Inv, Held, PostsAreKept
  <2> QED
    BY <2>2, <2>3 DEF Inv
<1> QED
  BY <1>3, <1>4 DEF io_looper_post_callback

LEMMA WaitKeeps ==
  ASSUME Inv, Wait
  PROVE  Inv'
<1>1. Packets' = Packets /\ port' \in Seq(Packet) /\ batch' \in Seq(Packet)
  BY PacketsWait DEF Inv, Wait
<1>2. UNCHANGED <<fut, offset, kernel, calling, pending, order, poller, hev, deaf>>
  BY DEF Wait, io_looper_wait_events, pollthread
<1>3. Types'
  BY <1>1, <1>2 DEF Inv, Types
<1> QED
  BY <1>1, <1>2, <1>3 DEF Inv, Held, PostsAreKept, Handed

LEMMA PostedKeeps ==
  ASSUME Inv, Process, ProcessPosted
  PROVE  Inv'
<1>1. /\ batch # << >> /\ batch' = Tail(batch) /\ port' = port
      /\ IsPosted(Head(batch)) /\ order' = Tail(order)
      /\ calling' = Head(batch).key /\ calling = NULL
      /\ UNCHANGED <<fut, offset, kernel, pending, poller, hev, deaf>>
  BY DEF Process, ProcessPosted, RestAfterRun, IsPosted, HevAtEntry
<1>2. Head(batch) \in Post /\ Head(batch).ov = NULL
  <2>1. Head(batch) \in Packet /\ Head(batch).bytes = RunKey
    BY <1>1, PacketsTaken DEF Inv, IsPosted
  <2>2. Head(batch) \in Post
    BY <2>1, PacketKinds
  <2> QED
    BY <2>2 DEF Post
<1>3. PostsAreKept' /\ Len(order) > 0 /\ order[1] = calling'
  BY <1>1, PostsByTaken DEF Inv
<1>4. Types'
  BY <1>1, <1>3, PacketsTaken, OrderTail DEF Inv, Types
<1>5. Held'
  BY <1>1, <1>2, HeldByTaken DEF Inv
<1>6. Handed'
  <2>1. DOMAIN order' \subseteq Int /\ 1 \in DOMAIN order /\ order[1] = calling'
        /\ \A i \in DOMAIN order' : i + 1 \in DOMAIN order /\ i + 1 # 1 /\ order'[i] = order[i + 1]
    BY <1>1, <1>3, OrderTail DEF Inv
  <2>2. \A i \in DOMAIN order : i = 1 \/ \E j \in DOMAIN order' : i = j + 1
    BY <1>1, <1>3, OrderTail DEF Inv
  <2>3. calling # PollResult
    BY <1>1, PollResultAssumption, NullAssumption
  <2>4. poller = "held" => (\E i \in DOMAIN order : order[i] = PollResult) \/ hev \/ deaf
    BY <2>3 DEF Inv, Handed
  <2>5. poller' = "held" => (\E i \in DOMAIN order' : order'[i] = PollResult) \/ calling' = PollResult \/ hev' \/ deaf'
    BY <1>1, <2>1, <2>2, <2>4
  <2> QED
    BY <1>1, <2>1, <2>5 DEF Inv, Handed
<1> QED
  BY <1>3, <1>4, <1>5, <1>6 DEF Inv

LEMMA CompletedKeeps ==
  ASSUME Inv, Process, ProcessCompleted
  PROVE  Inv'
<1> DEFINE e == Head(batch)
           f == e.ov
<1>1. /\ batch # << >> /\ batch' = Tail(batch) /\ port' = port
      /\ ~IsPosted(e)
      /\ fut' = [fut EXCEPT ![f].ready = 1, ![f].length = LengthOf(e)]
      /\ offset' = IF fut[f].precb = "add_pos" THEN [offset EXCEPT ![e.key] = @ + LengthOf(e)] ELSE offset
      /\ calling' = f /\ pending' = pending \ {f}
      /\ UNCHANGED <<kernel, order, poller, hev, deaf>>
  BY DEF Process, ProcessCompleted, IsPosted, HevAtEntry
<1>2. e \in Completion /\ e.ov # NULL /\ f \in Futures /\ e.key \in Ctxs /\ LengthOf(e) \in 0 .. MaxLen
  <2>1. e \in Packet /\ e \notin Post
    BY <1>1, PacketsTaken, PacketKinds DEF Inv, IsPosted
  <2>2. 0 \in 0 .. MaxLen
    BY BoundsAssumption
  <2> QED
    BY <2>1, <2>2, PacketKinds DEF Packet, LengthOf
<1> HIDE DEF e
<1>3. fut' \in [Futures -> Future]
  <2>1. fut[f] \in Future
    BY <1>2 DEF Inv, Types
  <2>2. [fut[f] EXCEPT !.ready = 1, !.length = LengthOf(e)] \in Future
    BY <1>2, <2>1, FutureDone
  <2>3. fut' = [fut EXCEPT ![f] = [fut[f] EXCEPT !.ready = 1, !.length = LengthOf(e)]]
    BY <1>1, <1>2 DEF Inv, Types
  <2> QED
    BY <2>2, <2>3 DEF Inv, Types
<1>4. offset' \in [Ctxs -> Nat]
  BY <1>1, <1>2 DEF Inv, Types
<1>5. Types'
  BY <1>1, <1>2, <1>3, <1>4, PacketsTaken DEF Inv, Types
<1>6. \A g \in Futures \ {f} : fut'[g] = fut[g]
  BY <1>1, <1>2 DEF Inv, Types
<1>7. Held'
  BY <1>1, <1>2, <1>6, HeldByTaken DEF Inv, e
<1>8. PostsAreKept'
  BY <1>1, PostsByTaken DEF Inv, e
<1>9. calling # PollResult /\ calling' # PollResult
  <2>1. calling = NULL
    BY DEF ProcessCompleted
  <2> QED
    BY <1>1, <1>2, <2>1, PollResultAssumption, KindsAssumption, NullAssumption
<1>10. Handed'
  BY <1>1, <1>9 DEF Inv, Handed
<1> QED
  BY <1>5, <1>7, <1>8, <1>10 DEF Inv

LEMMA ReturnKeeps ==
  ASSUME Inv, Return
  PROVE  Inv'
<1>1. /\ UNCHANGED <<Packets, fut, offset, kernel, port, batch, pending, order, poller, deaf>>
      /\ calling' = NULL /\ hev' = IF calling = PollResult THEN TRUE ELSE hev
  BY DEF Return, CallbackReturns, HevAtReturn, Packets
<1>2. calling' # PollResult
  BY <1>1, PollResultAssumption, NullAssumption
<1>3. Handed'
  BY <1>1, <1>2 DEF Inv, Handed
<1>4. Types'
  BY <1>1 DEF Inv, Types
<1> QED
  BY <1>1, <1>3, <1>4 DEF Inv, Held, PostsAreKept

LEMMA PollThreadKeeps ==
  ASSUME Inv, PollGets \/ PollPosts \/ PollGoesOn
  PROVE  Inv'
<1>1. CASE PollGets
  BY <1>1 DEF PollGets, iovars, Inv, Types, Held, PostsAreKept, Packets, Handed
<1>2. CASE PollPosts
  <2>1. io_looper_post_callback(PollResult) /\ poller = "got" /\ poller' = "held" /\ hev' = hev
    BY <1>2 DEF PollPosts
  <2>2. /\ order' = Append(order, PollResult) \/ (order' = order /\ deaf')
        /\ calling' = calling /\ deaf' \in BOOLEAN
    <3>1. /\ order' = Append(order, PollResult) \/ order' = order
          /\ calling' = calling /\ deaf' = (order' = order)
      BY <1>2 DEF PollPosts, io_looper_post_callback
    <3>2. CASE order' = order
      BY <3>1, <3>2, Zenon
    <3>3. CASE order' # order
      BY <3>1, <3>3, Zenon
    <3> QED
      BY <3>2, <3>3
  <2>3. calling # PollResult /\ ~hev /\ \A i \in DOMAIN order : order[i] # PollResult
    BY <2>1 DEF Inv, Handed
  <2>4. Handed'
    <3>1. CASE order' = Append(order, PollResult)
      BY <2>1, <2>2, <2>3, <3>1, OrderAppend, PollResultAssumption DEF Inv, Handed
    <3>2. CASE order' = order /\ deaf'
      BY <2>1, <2>2, <2>3, <3>2 DEF Inv, Handed
    <3> QED
      BY <2>2, <3>1, <3>2
  <2>5. poller' \in {"wait", "got", "held"} /\ hev' \in BOOLEAN /\ deaf' \in BOOLEAN
    BY <2>1, <2>2 DEF Inv, Types
  <2> QED
    BY <2>1, <2>4, <2>5, PostKeeps, PollResultAssumption
<1>3. CASE PollGoesOn
  <2>1. UNCHANGED <<iovars, Packets>> /\ poller = "held" /\ hev /\ poller' = "wait" /\ hev' = FALSE
        /\ deaf' = deaf
    BY <1>3 DEF PollGoesOn, iovars, Packets
  <2>2. Types'
    BY <2>1 DEF iovars, Inv, Types
  <2>3. Handed'
    BY <2>1 DEF iovars, Inv, Handed
  <2> QED
    BY <2>1, <2>2, <2>3 DEF iovars, Inv, Held, PostsAreKept
<1> QED
  BY <1>1, <1>2, <1>3

LEMMA WorkKeeps ==
  ASSUME Inv, NEW cb \in Callbacks, main_work_queue_post(cb)
  PROVE  Inv'
<1>1. io_looper_post_callback(cb) /\ cb # PollResult /\ UNCHANGED <<poller, hev, deaf>>
  BY DEF main_work_queue_post, pollthread
<1>2. (order' = Append(order, cb) \/ order' = order) /\ calling' = calling
  BY <1>1 DEF io_looper_post_callback
<1>3. Handed'
  <2>1. CASE order' = Append(order, cb)
    BY <1>1, <1>2, <2>1, OrderAppend DEF Inv, Handed
  <2>2. CASE order' = order
    BY <1>1, <1>2, <2>2 DEF Inv, Handed
  <2> QED
    BY <1>2, <2>1, <2>2
<1>4. poller' \in {"wait", "got", "held"} /\ hev' \in BOOLEAN /\ deaf' \in BOOLEAN
  BY <1>1 DEF Inv, Types
<1> QED
  BY <1>1, <1>3, <1>4, PostKeeps

LEMMA NextKeeps ==
  ASSUME Inv, [Next]_vars
  PROVE  Inv'
<1>1. CASE Kernel
  BY <1>1, KernelKeeps DEF Kernel
<1>2. CASE UNCHANGED vars
  BY <1>2 DEF vars, Inv, Types, Held, PostsAreKept, Packets, Handed
<1> QED
  BY <1>1, <1>2, ClientKeeps, WaitKeeps, PostedKeeps, CompletedKeeps, ReturnKeeps, PollThreadKeeps, WorkKeeps
  DEF Next, MainStep, Process

LEMMA InvAlways == Spec => []Inv
<1>1. Init => Inv
  BY InvInit
<1>2. Inv /\ [Next]_vars => Inv'
  BY NextKeeps
<1> QED
  BY <1>1, <1>2, PTL DEF Spec

(* Whatever calls the clients start, also many at a time: each call that   *)
(* the kernel has taken is held in one place, by the kernel or by one      *)
(* packet on its way, and is therefore called back once.                   *)
THEOREM CallsAreHeld == Spec => []PendingIsHeld
<1>1. Inv => PendingIsHeld
  <2> SUFFICES ASSUME Inv, NEW f \in Futures
               PROVE  IF f \in pending
                        THEN /\ fut[f].ready = 0
                             /\ IF kernel[f] # NULL THEN CompletionsOf(f) = {}
                                                    ELSE \E i \in DOMAIN Packets : CompletionsOf(f) = {i}
                        ELSE kernel[f] = NULL /\ CompletionsOf(f) = {}
    BY DEF PendingIsHeld
  <2>1. Held /\ f # NULL
    BY NullAssumption DEF Inv
  <2>2. CASE f \notin pending
    BY <2>1, <2>2 DEF Held, CompletionsOf
  <2>3. CASE f \in pending /\ kernel[f] # NULL
    BY <2>1, <2>3 DEF Held, CompletionsOf
  <2>4. CASE f \in pending /\ kernel[f] = NULL
    <3>1. PICK i \in DOMAIN Packets : Packets[i].ov = f
      BY <2>1, <2>4 DEF Held
    <3>2. CompletionsOf(f) = {i}
      BY <2>1, <3>1 DEF Held, CompletionsOf
    <3> QED
      BY <2>1, <2>4, <3>2 DEF Held
  <2> QED
    BY <2>2, <2>3, <2>4
<1> QED
  BY <1>1, InvAlways, PTL

(* No callback that another thread has posted is lost, runs twice or       *)
(* overtakes another one, in whatever batches the port is emptied and      *)
(* whatever is completed in between.                                       *)
THEOREM PostsStayInOrder == Spec => []PostsAreKept
<1>1. Inv => PostsAreKept
  BY DEF Inv
<1> QED
  BY <1>1, InvAlways, PTL

(* The one array of results that the two threads share is not written      *)
(* while the main thread may still read it.                                *)
THEOREM ResultsAreLeftAlone == Spec => []ResultsAreStill
<1>1. Inv => ResultsAreStill
  BY DEF Inv, Handed, ResultsAreStill
<1> QED
  BY <1>1, InvAlways, PTL

-----------------------------------------------------------------------------
(* Streams, under clients that wait for a call before they start the next. *)
LEMMA StreamedInit ==
  ASSUME Init
  PROVE  Streamed
<1>1. Packets = << >> /\ DOMAIN Packets = {}
  BY DEF Init, IoInit, Packets
<1>2. Sized
  BY <1>1, BoundsAssumption DEF Init, IoInit, Sized
<1> QED
  BY <1>1, <1>2 DEF Init, IoInit, Streamed, AtWork, OnTheWay, Alone, Settled

LEMMA StreamedByClient ==
  ASSUME OneAtATime, Inv, Streamed, Client
  PROVE  Streamed'
<1>1. PICK f \in Futures, c \in Ctxs, n \in 0 .. MaxLen, pos \in 0 .. MaxOffset, pre \in {NULL, "add_pos"} :
           /\ Call(f, c)
           /\ Issue(f, c, n, pos, pre) \/ UNCHANGED <<fut, kernel, pending>>
           /\ c \in Streams => pre = "add_pos" /\ pos = offset[c] /\ pos + n <= MaxOffset
           /\ c \notin Streams => pre = NULL
  BY ClientCalls DEF Inv
<1>2. UNCHANGED <<Packets, offset, moved, batch>> /\ f \notin pending
  BY <1>1 DEF Call, Packets
<1>3. Sized' /\ Settled'
  BY <1>2 DEF Streamed, Sized, Settled
<1>4. CASE UNCHANGED <<fut, kernel, pending>>
  BY <1>2, <1>3, <1>4 DEF Streamed, AtWork, OnTheWay, Alone
<1>5. CASE Issue(f, c, n, pos, pre)
  <2>1. /\ fut'[f].precb = pre /\ \A g \in Futures \ {f} : fut'[g] = fut[g]
        /\ \A i \in DOMAIN Packets : Packets[i].ov # NULL => Packets[i].ov \in Futures \ {f}
        /\ kernel[f] = NULL
    <3>1. fut[f] \in Future
      BY DEF Inv, Types
    <3>2. fut'[f] = [fut[f] EXCEPT !.ready = 0, !.precb = pre] /\ \A g \in Futures \ {f} : fut'[g] = fut[g]
      BY <1>5 DEF Issue, Inv, Types
    <3>3. fut'[f].precb = pre
      BY <3>1, <3>2 DEF Future
    <3> QED
      BY <1>2, <3>2, <3>3 DEF Inv, Held, Types
  <2>2. OnTheWay'
    BY <1>2, <2>1 DEF Streamed, OnTheWay, LengthOf
  <2>3. CASE UNCHANGED kernel
    BY <1>2, <1>3, <2>1, <2>2, <2>3 DEF Streamed, AtWork, Alone
  <2>4. CASE kernel' = [kernel EXCEPT ![f] = [ctx |-> c, len |-> n, pos |-> pos]]
    <3>1. /\ kernel'[f] = [ctx |-> c, len |-> n, pos |-> pos]
          /\ \A g \in Futures \ {f} : kernel'[g] = kernel[g]
      BY <2>4 DEF Inv, Types
    <3>2. c \in Streams => /\ \A g \in Futures : ~(kernel[g] # NULL /\ kernel[g].ctx = c)
                           /\ \A i \in DOMAIN Packets : Packets[i].key # c
      BY <1>1 DEF Call, Busy
    <3>3. c \in Streams => moved[c] = offset[c]
      BY <3>2 DEF Streamed, Settled
    <3>4. AtWork'
      BY <1>1, <1>2, <2>1, <3>1, <3>3 DEF Streamed, AtWork
    <3>5. Alone'
      BY <1>2, <3>1, <3>2 DEF Streamed, Alone
    <3> QED
      BY <1>3, <2>2, <3>4, <3>5 DEF Streamed
  <2> QED
    BY <1>5, <2>3, <2>4 DEF Issue
<1> QED
  BY <1>1, <1>4, <1>5

LEMMA StreamedByKernel ==
  ASSUME Inv, Streamed, NEW f \in Futures, Completed(f)
  PROVE  Streamed'
<1>1. kernel[f] # NULL /\ kernel[f].ctx \in Ctxs /\ kernel[f].len \in 0 .. MaxLen /\ kernel[f].pos \in 0 .. MaxOffset
  BY DEF Inv, Types, Completed, KernelCall
<1> DEFINE c == kernel[f].ctx
           last == Len(Packets) + 1
<1>2. PICK r \in 0 .. kernel[f].len, status \in {"ok", "fail"} :
        /\ status = "fail" => r = 0
        /\ port' = Append(port, [bytes |-> r, key |-> c, ov |-> f, status |-> status])
        /\ moved' = [moved EXCEPT ![c] = IF c \in Streams THEN @ + r ELSE @]
  BY DEF Completed
<1> DEFINE p == [bytes |-> r, key |-> c, ov |-> f, status |-> status]
<1>3. /\ p \in Packet /\ p.ov = f /\ f # NULL /\ p.key = c /\ LengthOf(p) = r
  BY <1>1, <1>2, BoundsAssumption, NullAssumption DEF Completion, Packet, LengthOf
<1>4. /\ UNCHANGED <<fut, offset, batch>> /\ kernel' = [kernel EXCEPT ![f] = NULL]
      /\ port' = Append(port, p)
  BY <1>2 DEF Completed
<1> HIDE DEF p
<1>5. /\ DOMAIN Packets' = DOMAIN Packets \cup {last} /\ last \notin DOMAIN Packets
      /\ \A i \in DOMAIN Packets : Packets'[i] = Packets[i]
      /\ Packets'[last] = p
  BY <1>3, <1>4, PacketsGrow DEF Inv
<1> HIDE DEF last
<1>6. kernel'[f] = NULL /\ \A g \in Futures \ {f} : kernel'[g] = kernel[g]
  BY <1>4 DEF Inv, Types
<1>7. /\ \A d \in Ctxs \ {c} : moved'[d] = moved[d]
      /\ moved'[c] = IF c \in Streams THEN moved[c] + r ELSE moved[c]
  BY <1>1, <1>2 DEF Streamed, Sized
<1>8. c \in Streams => /\ fut[f].precb = "add_pos"
                       /\ moved[c] = offset[c] /\ moved[c] + r <= MaxOffset
  <2> SUFFICES ASSUME c \in Streams
               PROVE  fut[f].precb = "add_pos" /\ moved[c] = offset[c] /\ moved[c] + r <= MaxOffset
    OBVIOUS
  <2>1. /\ fut[f].precb = "add_pos" /\ kernel[f].pos = offset[c] /\ kernel[f].pos = moved[c]
        /\ kernel[f].pos + kernel[f].len <= MaxOffset
    BY <1>1 DEF Streamed, AtWork
  <2>2. r \in 0 .. kernel[f].len
    OBVIOUS
  <2> HIDE DEF c
  <2> QED
    BY <1>1, <2>1, <2>2, BoundsAssumption
<1>9. c \in Streams => /\ \A g \in Futures \ {f} : ~(kernel[g] # NULL /\ kernel[g].ctx = c)
                       /\ \A i \in DOMAIN Packets : ~(Packets[i].ov # NULL /\ Packets[i].key = c)
  BY <1>1 DEF Streamed, Alone
<1> HIDE DEF c
<1>10. Sized'
  <2>1. moved' \in [Ctxs -> 0 .. MaxOffset]
    <3>1. moved[c] \in 0 .. MaxOffset /\ r \in Nat /\ moved'[c] \in 0 .. MaxOffset
      BY <1>1, <1>2, <1>7, <1>8, BoundsAssumption DEF Streamed, Sized, c
    <3> QED
      BY <1>2, <1>7, <3>1 DEF Streamed, Sized
  <2> QED
    BY <1>3, <1>4, <1>5, <2>1 DEF Streamed, Sized
<1>11. AtWork'
  <2> DEFINE Right(k, ft, os, mv) ==
               IF k.ctx \in Streams
                 THEN /\ ft.precb = "add_pos" /\ k.pos = os[k.ctx] /\ k.pos = mv[k.ctx]
                      /\ k.pos + k.len <= MaxOffset
                 ELSE ft.precb = NULL
  <2>1. ASSUME NEW g \in Futures, kernel'[g] # NULL
        PROVE  Right(kernel'[g], fut'[g], offset', moved')
    <3>1. g # f /\ kernel'[g] = kernel[g] /\ kernel[g] # NULL
      BY <1>6, <2>1
    <3>2. Right(kernel[g], fut[g], offset, moved) /\ kernel[g].ctx \in Ctxs
      BY <3>1 DEF Streamed, AtWork, Inv, Types, KernelCall
    <3>3. CASE kernel[g].ctx \in Streams
      <4>1. kernel[g].ctx # c
        BY <1>9, <3>1, <3>3
      <4>2. moved'[kernel[g].ctx] = moved[kernel[g].ctx]
        BY <1>7, <3>2, <4>1
      <4> QED
        BY <1>4, <3>1, <3>2, <4>2
    <3>4. CASE kernel[g].ctx \notin Streams
      BY <1>4, <3>1, <3>2, <3>4
    <3> QED
      BY <3>3, <3>4
  <2> QED
    BY <2>1 DEF AtWork
<1>12. OnTheWay'
  <2>1. CASE c \in Streams
    <3>1. \A i \in DOMAIN Packets : Packets[i].ov # NULL => Packets[i].key \in Ctxs \ {c}
      BY <1>9, <2>1, PacketsTyped, PacketKinds DEF Inv
    <3>2. moved'[c] = offset'[c] + LengthOf(p) /\ fut'[f].precb = "add_pos"
      BY <1>3, <1>4, <1>7, <1>8, <2>1
    <3>3. \A i \in DOMAIN Packets : Packets[i].ov # NULL => moved'[Packets[i].key] = moved[Packets[i].key]
      BY <1>7, <3>1
    <3> QED
      BY <1>3, <1>4, <1>5, <2>1, <3>2, <3>3 DEF Streamed, OnTheWay, LengthOf
  <2>2. CASE c \notin Streams
    <3>1. fut[f].precb = NULL
      BY <1>1, <2>2 DEF Streamed, AtWork, c
    <3>2. \A d \in Ctxs : moved'[d] = moved[d]
      BY <1>7, <2>2
    <3>3. \A i \in DOMAIN Packets : Packets[i].ov # NULL => moved'[Packets[i].key] = moved[Packets[i].key]
      BY <3>2, PacketsTyped, PacketKinds DEF Inv
    <3> QED
      BY <1>3, <1>4, <1>5, <2>2, <3>1, <3>3 DEF Streamed, OnTheWay, LengthOf
  <2> QED
    BY <2>1, <2>2
<1>13. Alone'
  BY <1>3, <1>5, <1>6, <1>9 DEF Streamed, Alone
<1>14. Settled'
  BY <1>3, <1>4, <1>5, <1>7 DEF Streamed, Settled
<1> QED
  BY <1>10, <1>11, <1>12, <1>13, <1>14 DEF Streamed

LEMMA StreamedByWait ==
  ASSUME Inv, Streamed, Wait
  PROVE  Streamed'
<1>1. Packets' = Packets /\ UNCHANGED <<fut, offset, kernel, moved>>
  BY PacketsWait DEF Inv, Wait, io_looper_wait_events
<1>2. Len(batch') <= MaxCount
  <2> DEFINE n == IF Len(port) < MaxCount THEN Len(port) ELSE MaxCount
  <2>1. port \in Seq(Packet) /\ 1 \in Nat /\ n \in Nat /\ n <= MaxCount /\ n <= Len(port)
    BY BoundsAssumption DEF Inv, Types
  <2>2. batch' = SubSeq(port, 1, n)
    BY DEF Wait, io_looper_wait_events
  <2> HIDE DEF n
  <2>3. Len(SubSeq(port, 1, n)) = IF 1 <= n THEN n ELSE 0
    BY <2>1
  <2> QED
    BY <2>1, <2>2, <2>3, BoundsAssumption
<1> QED
  BY <1>1, <1>2 DEF Streamed, Sized, AtWork, OnTheWay, Alone, Settled, LengthOf

LEMMA StreamedByTaken ==
  ASSUME Inv, Streamed, Process, ProcessPosted \/ ProcessCompleted
  PROVE  Streamed'
<1> DEFINE e == Head(batch)
           f == e.ov
<1>1. /\ batch # << >> /\ batch' = Tail(batch) /\ port' = port /\ UNCHANGED <<kernel, moved>>
  BY DEF ProcessPosted, ProcessCompleted, RestAfterRun
<1>2. /\ 1 \in DOMAIN Packets /\ Packets[1] = e /\ e \in Packet
      /\ \A i \in DOMAIN Packets' : i + 1 \in DOMAIN Packets /\ i + 1 # 1 /\ Packets'[i] = Packets[i + 1]
      /\ \A i \in DOMAIN Packets : i # 1 => i - 1 \in DOMAIN Packets' /\ Packets'[i - 1] = Packets[i]
      /\ DOMAIN Packets' \subseteq Int
  BY <1>1, PacketsShrink, PacketsTaken DEF Inv
<1>3. Len(batch') <= MaxCount
  <2>1. Len(batch') = Len(batch) - 1 /\ Len(batch) \in Nat
    BY <1>1, HeadTailProperties DEF Inv, Types
  <2> QED
    BY <2>1, BoundsAssumption DEF Streamed, Sized
<1>4. Alone'
  <2>1. \A i, j \in DOMAIN Packets' : i + 1 = j + 1 => i = j
    BY <1>2
  <2> QED
    BY <1>1, <1>2, <2>1 DEF Streamed, Alone
<1>6. CASE ProcessPosted
  <2>1. UNCHANGED <<fut, offset>> /\ e.ov = NULL
    BY <1>2, <1>6, PacketKinds DEF ProcessPosted, Packet, Post
  <2>2. Settled'
    BY <1>1, <1>2, <2>1 DEF Streamed, Settled
  <2>3. OnTheWay'
    BY <1>1, <1>2, <2>1 DEF Streamed, OnTheWay, LengthOf
  <2>4. Sized' /\ AtWork'
    BY <1>1, <1>3, <2>1 DEF Streamed, Sized, AtWork
  <2> QED
    BY <1>4, <2>2, <2>3, <2>4 DEF Streamed
<1>7. CASE ProcessCompleted
  <2>1. /\ e \in Completion /\ f \in Futures /\ f # NULL /\ e.key \in Ctxs
    BY <1>2, <1>7, PacketKinds DEF ProcessCompleted, Packet
  <2>2. /\ fut' = [fut EXCEPT ![f].ready = 1, ![f].length = LengthOf(e)]
        /\ offset' = IF fut[f].precb = "add_pos" THEN [offset EXCEPT ![e.key] = @ + LengthOf(e)] ELSE offset
    BY <1>7 DEF ProcessCompleted
  <2>3. \A g \in Futures : fut'[g].precb = fut[g].precb
    <3>1. \A g \in Futures \ {f} : fut'[g] = fut[g]
      BY <2>2 DEF Inv, Types
    <3>2. fut[f] \in Future /\ fut'[f] = [fut[f] EXCEPT !.ready = 1, !.length = LengthOf(e)]
      BY <2>1, <2>2 DEF Inv, Types
    <3>3. fut'[f].precb = fut[f].precb
      BY <3>2 DEF Future
    <3> QED
      BY <3>1, <3>3
  <2>4. kernel[f] = NULL
    BY <1>2, <2>1 DEF Inv, Held
  <2>5. /\ \A d \in Ctxs \ {e.key} : offset'[d] = offset[d]
        /\ offset'[e.key] = IF e.key \in Streams THEN moved[e.key] ELSE offset[e.key]
    <3>1. CASE e.key \in Streams
      <4>1. fut[f].precb = "add_pos" /\ moved[e.key] = offset[e.key] + LengthOf(e)
        BY <1>2, <2>1, <3>1 DEF Streamed, OnTheWay
      <4> QED
        BY <2>1, <2>2, <3>1, <4>1 DEF Streamed, Sized
    <3>2. CASE e.key \notin Streams
      <4>1. fut[f].precb = NULL
        BY <1>2, <2>1, <3>2 DEF Streamed, OnTheWay
      <4> QED
        BY <2>2, <3>2, <4>1, NullAssumption
    <3> QED
      BY <3>1, <3>2
  <2>6. e.key \in Streams => /\ \A g \in Futures : kernel[g] # NULL => kernel[g].ctx # e.key
                             /\ \A i \in DOMAIN Packets' : Packets'[i].ov # NULL => Packets'[i].key # e.key
    <3> SUFFICES ASSUME e.key \in Streams
                 PROVE  /\ \A g \in Futures : kernel[g] # NULL => kernel[g].ctx # e.key
                        /\ \A i \in DOMAIN Packets' : Packets'[i].ov # NULL => Packets'[i].key # e.key
      OBVIOUS
    <3>1. \A g \in Futures : kernel[g] # NULL => kernel[g].ctx # e.key
      BY <1>2, <2>1 DEF Streamed, Alone
    <3>2. \A i \in DOMAIN Packets : i # 1 /\ Packets[i].ov # NULL => Packets[i].key # e.key
      BY <1>2, <2>1 DEF Streamed, Alone
    <3> QED
      BY <1>2, <3>1, <3>2
  <2> HIDE DEF e, f
  <2>7. Sized'
    <3>1. offset' \in [Ctxs -> 0 .. MaxOffset]
      <4>1. DOMAIN offset' = Ctxs /\ offset' = [d \in Ctxs |-> offset'[d]]
        BY <2>2 DEF Streamed, Sized
      <4>2. \A d \in Ctxs : offset'[d] \in 0 .. MaxOffset
        BY <2>5 DEF Streamed, Sized
      <4> QED
        BY <4>1, <4>2
    <3> QED
      BY <1>1, <1>3, <3>1 DEF Streamed, Sized
  <2>8. AtWork'
    <3> SUFFICES ASSUME NEW g \in Futures, kernel[g] # NULL
                 PROVE  IF kernel[g].ctx \in Streams
                          THEN offset'[kernel[g].ctx] = offset[kernel[g].ctx] ELSE TRUE
      BY <1>1, <2>3 DEF Streamed, AtWork
    <3>1. kernel[g].ctx \in Ctxs
      BY DEF Inv, Types, KernelCall
    <3> QED
      BY <2>5, <2>6, <3>1
  <2>9. OnTheWay'
    <3> SUFFICES ASSUME NEW i \in DOMAIN Packets', Packets'[i].ov # NULL
                 PROVE  /\ Packets'[i].ov \in Futures
                        /\ Packets'[i].key \in Streams => offset'[Packets'[i].key] = offset[Packets'[i].key]
      BY <1>1, <1>2, <2>3 DEF Streamed, OnTheWay, LengthOf
    <3>1. Packets'[i].ov \in Futures /\ Packets'[i].key \in Ctxs
      BY <1>2, PacketsTyped, PacketKinds DEF Inv
    <3> QED
      BY <2>5, <2>6, <3>1
  <2>10. Settled'
    <3> SUFFICES ASSUME NEW d \in Ctxs, moved[d] # offset'[d]
                 PROVE  /\ d \in Streams
                        /\ \E i \in DOMAIN Packets' : Packets'[i].ov # NULL /\ Packets'[i].key = d
      BY <1>1 DEF Settled
    <3>1. moved[d] # offset[d]
      BY <2>5
    <3>2. d \in Streams /\ d # e.key
      BY <2>5, <3>1 DEF Streamed, Settled
    <3>3. PICK i \in DOMAIN Packets : Packets[i].ov # NULL /\ Packets[i].key = d
      BY <3>1 DEF Streamed, Settled
    <3> QED
      BY <1>2, <3>2, <3>3
  <2> QED
    BY <1>4, <2>7, <2>8, <2>9, <2>10 DEF Streamed
<1> QED
  BY <1>6, <1>7

LEMMA StreamedNext ==
  ASSUME OneAtATime, Inv, Streamed, [Next]_vars
  PROVE  Streamed'
<1>1. ASSUME NEW cb \in Callbacks, io_looper_post_callback(cb), port' # port
      PROVE  Streamed'
  <2> DEFINE p == [bytes |-> RunKey, key |-> cb, ov |-> NULL, status |-> NULL]
  <2>1. p \in Packet /\ p.ov = NULL
    BY DEF Post, Packet
  <2>2. port' = Append(port, p) /\ UNCHANGED <<fut, offset, kernel, batch, moved>>
    BY <1>1 DEF io_looper_post_callback
  <2> HIDE DEF p
  <2>3. \E last : /\ DOMAIN Packets' = DOMAIN Packets \cup {last} /\ last \notin DOMAIN Packets
                  /\ \A i \in DOMAIN Packets : Packets'[i] = Packets[i]
                  /\ Packets'[last] = p
    BY <2>1, <2>2, PacketsGrow DEF Inv
  <2>4. Sized' /\ AtWork'
    BY <2>2 DEF Streamed, Sized, AtWork
  <2>5. OnTheWay'
    BY <2>1, <2>2, <2>3 DEF Streamed, OnTheWay, LengthOf
  <2>6. Alone'
    BY <2>1, <2>2, <2>3 DEF Streamed, Alone
  <2>7. Settled'
    BY <2>1, <2>2, <2>3 DEF Streamed, Settled
  <2> QED
    BY <2>4, <2>5, <2>6, <2>7 DEF Streamed
<1>2. CASE UNCHANGED <<fut, offset, kernel, port, batch, moved>>
  <2>1. Packets' = Packets
    BY <1>2 DEF Packets
  <2> QED
    BY <1>2, <2>1 DEF Streamed, Sized, AtWork, OnTheWay, Alone, Settled, LengthOf
<1>3. CASE Kernel
  BY <1>3, StreamedByKernel DEF Kernel
<1>4. CASE Process
  BY <1>4, StreamedByTaken DEF Process
<1>5. PollGets \/ PollGoesOn \/ Return \/ UNCHANGED vars => UNCHANGED <<fut, offset, kernel, port, batch, moved>>
  BY DEF PollGets, PollGoesOn, Return, CallbackReturns, iovars, vars
<1>6. ASSUME PollPosts \/ \E cb \in Callbacks : main_work_queue_post(cb)
      PROVE  Streamed'
  <2>1. PICK cb \in Callbacks : io_looper_post_callback(cb)
    BY <1>6, PollResultAssumption DEF PollPosts, main_work_queue_post
  <2>2. CASE port' = port
    BY <1>2, <2>1, <2>2 DEF io_looper_post_callback
  <2> QED
    BY <1>1, <2>1, <2>2
<1> QED
  BY <1>1, <1>2, <1>3, <1>4, <1>5, <1>6, StreamedByClient, StreamedByWait DEF Next, MainStep

LEMMA StreamedAlways == OneAtATime => (Spec => [](Inv /\ Streamed))
<1> SUFFICES ASSUME OneAtATime PROVE Spec => [](Inv /\ Streamed)
  OBVIOUS
<1>1. Init => Inv /\ Streamed
  BY InvInit, StreamedInit
<1>2. Inv /\ Streamed /\ [Next]_vars => (Inv /\ Streamed)'
  BY NextKeeps, StreamedNext
<1> QED
  BY <1>1, <1>2, PTL DEF Spec

(* A client that waits for a call of a stream before it starts the next    *)
(* one gets the bytes of the file one behind the other, none left out and  *)
(* none twice, whether the calls move all of their buffers, a part, or     *)
(* fail.                                                                   *)
THEOREM StreamsAreContinuous == OneAtATime => (Spec => []StreamIsContinuous)
<1> SUFFICES ASSUME OneAtATime PROVE Spec => []StreamIsContinuous
  OBVIOUS
<1>1. Inv /\ Streamed => StreamIsContinuous
  BY DEF Streamed, AtWork, StreamIsContinuous
<1>2. Spec => [](Inv /\ Streamed)
  BY StreamedAlways
<1> QED
  BY <1>1, <1>2, PTL

(* The values of the variables; that no offset leaves the file needs the   *)
(* client's discipline, too.                                               *)
THEOREM TypeCorrect == OneAtATime => (Spec => []TypeOK)
<1> SUFFICES ASSUME OneAtATime PROVE Spec => []TypeOK
  OBVIOUS
<1>1. Inv /\ Streamed => TypeOK
  BY DEF Inv, Types, Future, Packet, Streamed, Sized, TypeOK, IoTypeOK
<1>2. Spec => [](Inv /\ Streamed)
  BY StreamedAlways
<1> QED
  BY <1>1, <1>2, PTL

===============================================================================
