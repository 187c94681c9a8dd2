------------------------------ MODULE SslAsync ------------------------------
(***************************************************************************)
(* TLS over asynchronous io (src/util/sslasync/sslasync.c) and the two     *)
(* programs that use it (src/util/sslasync/main.c): a client that sends a  *)
(* request and receives until the server closes, and the session of a      *)
(* server that answers what it receives.  Both are coroutines with one     *)
(* future, "notify", for every call.  The io calls are those of completion *)
(* ports: pending, or failed at once.                                      *)
(*                                                                         *)
(* The TLS library is external.  Its data are units: 0, what it keeps to   *)
(* itself (a message of the handshake, the beginning of a record); 1, 2,   *)
(* ..., with which a record is whole and one SSL_read returns it; Bye, the *)
(* alert that closes.  sendbuf_ takes one unit and recvbuf_ RecvMax.       *)
(* SSL_do_handshake may fail, with an alert for the peer or without one.   *)
(*                                                                         *)
(* ssl_async_recv calls the future back before it returns when the library *)
(* has a record already.  The coroutine is then entered a second time      *)
(* while the first activation is still inside of the call: "stack" has the *)
(* activations, the innermost first.                                       *)
(***************************************************************************)
EXTENDS Integers, Sequences, SequencesExt, FiniteSets, FiniteSetsExt, Functions

CONSTANTS Sides,       \* the programs that are looked at
          Flights,     \* the handshake of each: what it receives and sends
          RecvMax,     \* the units that recvbuf_ takes
          MaxRecords,  \* bound: what the peer sends when the handshake is done
          PeerWaits,   \* does a peer wait for each answer before it sends more?
          FailsAtOnce  \* the programs whose io calls may fail at once

ASSUME SidesAssumption == Sides \subseteq {"client", "server"} /\ FailsAtOnce \subseteq Sides
ASSUME FlightsAssumption == \A s \in Sides : Flights[s] \in Seq({"in", "out"}) /\ Len(Flights[s]) > 0
ASSUME BoundsAssumption == RecvMax \in Nat \ {0} /\ MaxRecords \in Nat
ASSUME WaitsAssumption == PeerWaits \in BOOLEAN

Bye == MaxRecords + 1

VARIABLES side,      \* which program it is
          hs,        \* TLS: the flights of the handshake that are done
          bioin,     \* TLS: what bio_in_ holds, not read yet
          bioout,    \* TLS: how many units bio_out_ holds
          refused,   \* TLS: has the handshake failed?
          pending,   \* the callbacks of the pending io calls, or "none"
          recved_,   \* shall the next handshake step take what was received?
          notify,    \* the future of the session
          step,      \* the session's line variable, "gone" behind its free
          stack,     \* the activations of the session
          handled,   \* history: the records that the session has handled
          net,       \* the units on their way to the program
          came,      \* how many units the peer has sent, parts not counted
          got,       \* how many units the peer has got
          closed,    \* has the peer closed the connection?
          broken     \* is it broken?

tls == <<hs, bioin, bioout, refused>>
ctx == <<tls, pending, recved_, notify>>
session == <<step, stack, handled>>
peer == <<net, came, closed, broken>>
vars == <<side, ctx, session, peer, got>>

Flight == Flights[side]
Count(n, dir) == Cardinality({ i \in 1 .. n : Flight[i] = dir })
Ins == Count(Len(Flight), "in")
Outs == Count(Len(Flight), "out")

At(at, op) == [at |-> at, op |-> op]

FirstOp == IF side = "client" THEN "connect" ELSE "handshake"

NextOp(op) ==
  CASE op = "connect" -> "handshake"
    [] op = "handshake" -> IF side = "client" THEN "send" ELSE "recv"
    [] op = "send" -> "recv"
    [] op = "recv" -> IF side = "client" THEN "recv" ELSE "send"

Init ==
  /\ side \in Sides
  /\ hs = 0 /\ bioin = << >> /\ bioout = 0 /\ refused = FALSE
  /\ pending = [recv |-> "none", send |-> "none"]
  /\ recved_ = FALSE
  /\ notify = [ready |-> 0, error |-> 0, length |-> 0]
  /\ step = "enter" /\ stack = <<At("call", FirstOp)>> /\ handled = << >>
  /\ net = << >> /\ came = 0 /\ got = 0
  /\ closed = FALSE /\ broken = FALSE

-----------------------------------------------------------------------------
(* future_enter: where the session goes on when it is called back.         *)
Entry == IF step = "enter" THEN At("call", FirstOp) ELSE At("wait", step)

\* BUG: the result is stored and nobody is called
TellQuietly(st, error, length) ==
  /\ notify' = [ready |-> 1, error |-> error, length |-> length]
  /\ stack' = st
(* future_set_result and future_set_error: the callback runs inside.  "st" *)
(* is the stack with the code that called them.                            *)
Tell(st, error, length) ==
  /\ notify' = [ready |-> 1, error |-> error, length |-> length]
  /\ stack' = <<Entry>> \o st

(* What every call begins with.                                            *)
Reset == [notify EXCEPT !.ready = 0, !.error = 0]

Fails == side \in FailsAtOnce /\ broken

(* An io call made by a callback of the context, when p is pending and the *)
(* future is nf: an error is told.                                         *)
CallIo(p, nf, dir, cb, st) ==
  \/ /\ pending' = [p EXCEPT ![dir] = cb]
     /\ notify' = nf
     /\ stack' = st
  \/ /\ Fails
     /\ pending' = p
     /\ Tell(st, 1, 0)

-----------------------------------------------------------------------------
(* SSL_do_handshake goes as far as it can.                                 *)
Furthest(units) ==
  Max({ n \in hs .. Len(Flight) :
          Count(n, "in") - Count(hs, "in") <= Cardinality({ i \in DOMAIN units : units[i] = 0 }) })

\* BUG: what does not fit into sendbuf_ is dropped
OutLeftDropped(n) == 0
OutLeft(n) == n - 1

(* It goes on, or it fails: at what it reads (the alert that closes is     *)
(* such), or before anything is sent; and then always.                     *)
GoesOn(units, n) ==
  /\ ~refused
  /\ n = Furthest(units)
  /\ n < Len(Flight) => Bye \notin Range(units)
FailsAt(units, n, alert) ==
  IF refused THEN n = hs /\ alert = 0
  ELSE n \in hs .. Furthest(units) /\ n < Len(Flight) /\ (units # << >> \/ hs = 0)

(* "out" units are to be sent, and are sent first.  Behind them nobody is  *)
(* told of a handshake that has failed, and no call is made (lines         *)
(* 191-197).                                                               *)
Answer(p, nf, st, n, out) ==
  \/ /\ out > 0
     /\ bioout' = OutLeft(out)
     /\ recved_' = FALSE
     /\ CallIo(p, nf, "send", "handshake", st)
  \/ /\ out = 0 /\ ~refused' /\ n < Len(Flight)
     /\ bioout' = 0
     /\ recved_' = TRUE
     /\ CallIo(p, nf, "recv", "handshake", st)
  \/ /\ out = 0 /\ ~refused' /\ n = Len(Flight)
     /\ bioout' = 0
     /\ recved_' = FALSE
     /\ pending' = p
     /\ Tell(st, 0, 0)
  \/ /\ out = 0 /\ refused'
     /\ bioout' = 0
     /\ recved_' = FALSE
     /\ pending' = p /\ notify' = nf /\ stack' = st

ssl_handshake_work(p, nf, input, st) ==
  LET units == bioin \o (IF recved_ THEN input ELSE << >>)
  IN  \E n \in 0 .. Len(Flight), alert \in {0, 1} :
        /\ \/ GoesOn(units, n) /\ alert = 0 /\ refused' = FALSE
           \/ FailsAt(units, n, alert) /\ refused' = TRUE
        /\ hs' = n
        /\ bioin' = SubSeq(units, Count(n, "in") - Count(hs, "in") + 1, Len(units))
        /\ Answer(p, nf, st, n, bioout + Count(n, "out") - Count(hs, "out") + alert)

(* SSL_read: the first record that is whole, what is left, is there more   *)
(* to come?                                                                *)
Record(units) == SelectInSeq(units, LAMBDA u : u # 0)
HasRecord(units) == Record(units) # 0 /\ units[Record(units)] # Bye
\* BUG: what was received behind the record is dropped
RestAfterLost(units) == << >>
RestAfter(units) ==
  IF Record(units) = 0 THEN << >>
  ELSE SubSeq(units, IF HasRecord(units) THEN Record(units) + 1 ELSE Record(units), Len(units))

\* BUG: a record that is not whole is an error
WantsReadNever(units) == FALSE
WantsRead(units) == Record(units) = 0

\* BUG: nothing received is no end, more is waited for
EndedNever(input) == FALSE
Ended(input) == input = << >>

ssl_async_onrecv(p, error, input) ==
  LET units == bioin \o input
  IN  /\ \/ /\ error # 0
            /\ pending' = p /\ Tell(<< >>, error, 0)
            /\ UNCHANGED bioin
         \/ /\ error = 0 /\ Ended(input)
            /\ pending' = p /\ Tell(<< >>, 0, 0)
            /\ UNCHANGED bioin
         \/ /\ error = 0 /\ ~Ended(input) /\ HasRecord(units)
            /\ pending' = p /\ Tell(<< >>, 0, units[Record(units)])
            /\ bioin' = RestAfter(units)
         \/ /\ error = 0 /\ ~Ended(input) /\ ~HasRecord(units) /\ WantsRead(units)
            /\ CallIo(p, notify, "recv", "recv", << >>)
            /\ bioin' = RestAfter(units)
         \/ /\ error = 0 /\ ~Ended(input) /\ ~HasRecord(units) /\ ~WantsRead(units)
            /\ pending' = p /\ Tell(<< >>, -1, 0)
            /\ bioin' = RestAfter(units)
      /\ UNCHANGED <<hs, bioout, refused, recved_>>

-----------------------------------------------------------------------------
(* The session.  Its calls: the activation goes on at the wait behind.     *)
Top(at, op) == stack # << >> /\ step # "gone" /\ Head(stack) = At(at, op)

Calls(op) == Top("call", op) /\ UNCHANGED <<side, step, handled, peer, got>>
Behind(op) == <<At("wait", op)>> \o Tail(stack)

(* The call pends.                                                         *)
Pends(dir, cb, op) ==
  /\ pending' = [pending EXCEPT ![dir] = cb]
  /\ stack' = Behind(op)
  /\ notify' = Reset

io_async_connect ==
  /\ Calls("connect")
  /\ Pends("send", "connect", "connect")
  /\ UNCHANGED <<tls, recved_>>

ssl_async_handshake ==
  /\ Calls("handshake")
  /\ ssl_handshake_work(pending, Reset, << >>, Behind("handshake"))

ssl_async_recv ==
  /\ Calls("recv")
  /\ \/ /\ HasRecord(bioin)
        /\ Tell(Behind("recv"), 0, bioin[Record(bioin)])
        /\ UNCHANGED pending
     \/ /\ ~HasRecord(bioin)
        /\ Pends("recv", "recv", "recv")
  /\ bioin' = RestAfter(bioin)
  /\ UNCHANGED <<hs, bioout, refused, recved_>>

ssl_async_send ==
  /\ Calls("send")
  /\ bioout' = OutLeft(bioout + 1)
  /\ Pends("send", "send", "send")
  /\ UNCHANGED <<hs, bioin, refused, recved_>>

(* closesocket, ssl_ctx_free and free.                                     *)
Clean == step' = "gone" /\ stack' = Tail(stack)

(* The io call of ssl_async_recv or ssl_async_send fails at once.          *)
CallFails(op) ==
  /\ Top("call", op)
  /\ Fails
  /\ op = "recv" => ~HasRecord(bioin)
  /\ bioin' = IF op = "recv" THEN RestAfter(bioin) ELSE bioin
  /\ bioout' = IF op = "send" THEN OutLeft(bioout + 1) ELSE bioout
  /\ notify' = Reset
  /\ Clean
  /\ UNCHANGED <<side, hs, refused, pending, recved_, handled, peer, got>>

(* future_wait when the result is still to come.                           *)
Yield(op) ==
  /\ Top("wait", op)
  /\ notify.ready = 0
  /\ step' = op
  /\ stack' = Tail(stack)
  /\ UNCHANGED <<side, ctx, handled, peer, got>>

AtEnd(op) == op = "recv" /\ notify.length = 0

(* And when it is there.                                                   *)
GoOn(op) ==
  /\ Top("wait", op)
  /\ notify.ready = 1
  /\ \/ /\ notify.error # 0 \/ AtEnd(op)
        /\ Clean
        /\ UNCHANGED handled
     \/ /\ notify.error = 0 /\ ~AtEnd(op)
        /\ handled' = IF op = "recv" THEN Append(handled, notify.length) ELSE handled
        /\ stack' = <<At("call", NextOp(op))>> \o Tail(stack)
        /\ UNCHANGED step
  /\ UNCHANGED <<side, ctx, peer, got>>

Runs == \/ io_async_connect
        \/ ssl_async_handshake
        \/ ssl_async_recv
        \/ ssl_async_send
        \/ \E op \in {"recv", "send"} : CallFails(op)
        \/ \E op \in {"connect", "handshake", "recv", "send"} : Yield(op) \/ GoOn(op)

-----------------------------------------------------------------------------
(* The looper.  No completion is served while the session runs.            *)
Completes(dir) == stack = << >> /\ pending[dir] # "none" /\ UNCHANGED <<side, step, handled, came, closed, broken>>
Without(dir) == [pending EXCEPT ![dir] = "none"]

(* The handshake looks at no error: it takes length 0.                     *)
Received(error, input) ==
  \/ /\ pending.recv = "handshake"
     /\ ssl_handshake_work(Without("recv"), notify, input, << >>)
  \/ /\ pending.recv = "recv"
     /\ ssl_async_onrecv(Without("recv"), error, input)

RecvCompletes ==
  /\ Completes("recv")
  /\ \/ /\ ~broken
        /\ \E k \in 1 .. Min({Len(net), RecvMax}) :
             /\ Received(0, SubSeq(net, 1, k))
             /\ net' = SubSeq(net, k + 1, Len(net))
     \/ /\ ~broken /\ closed /\ net = << >>
        /\ Received(0, << >>)
        /\ UNCHANGED net
     \/ /\ broken
        /\ Received(1, << >>)
        /\ UNCHANGED net
  /\ UNCHANGED got

(* ssl_async_onsend looks at no error either: it tells the length.  A peer *)
(* makes nothing of what is sent when the handshake has failed.            *)
SendCompletes ==
  /\ Completes("send")
  /\ \/ /\ pending.send = "connect"
        /\ pending' = Without("send")
        /\ \E error \in {0, 1} : Tell(<< >>, error, 0)
        /\ UNCHANGED <<tls, recved_, got>>
     \/ /\ pending.send = "handshake"
        /\ ssl_handshake_work(Without("send"), notify, << >>, << >>)
        /\ got' = IF broken \/ refused THEN got ELSE got + 1
     \/ /\ pending.send = "send"
        /\ pending' = Without("send")
        /\ Tell(<< >>, 0, 1)
        /\ got' = IF broken THEN got ELSE got + 1
        /\ UNCHANGED <<tls, recved_>>
  /\ UNCHANGED net

-----------------------------------------------------------------------------
(* The peer.                                                               *)
Goes == ~closed /\ ~broken /\ UNCHANGED <<side, ctx, session, got, broken>>

(* It answers a flight when it has got what goes before.                   *)
PeerShakes ==
  /\ Goes
  /\ came < Ins
  /\ \E i \in DOMAIN Flight : /\ Flight[i] = "in"
                              /\ Count(i, "in") = came + 1
                              /\ Count(i, "out") <= got
  /\ came' = came + 1
  /\ net' = Append(net, 0)
  /\ UNCHANGED closed

(* What it sends a client answers the request; what it sends a server are  *)
(* requests.                                                               *)
MaySend(r) == IF side = "client" THEN got > Outs
              ELSE PeerWaits => got >= Outs + r - 1

PeerSends ==
  /\ Goes
  /\ came \in Ins .. Ins + MaxRecords - 1
  /\ LET r == came + 1 - Ins
     IN  /\ MaySend(r)
         /\ \E part \in {<< >>, <<0>>} : net' = net \o part \o <<r>>
  /\ came' = came + 1
  /\ UNCHANGED closed

PeerCloses ==
  /\ Goes
  /\ closed' = TRUE
  /\ \E last \in {<< >>, <<Bye>>} : net' = net \o last
  /\ UNCHANGED came

(* Bound: not before the session waits for the handshake.                  *)
Breaks ==
  /\ ~broken
  /\ step \notin {"enter", "connect"}
  /\ broken' = TRUE
  /\ net' = << >>
  /\ UNCHANGED <<side, ctx, session, came, got, closed>>

Next == Runs \/ RecvCompletes \/ SendCompletes \/ PeerShakes \/ PeerSends \/ PeerCloses \/ Breaks

Spec == Init /\ [][Next]_vars

(* The processor runs the session, the looper serves what is complete, and *)
(* a peer that does not close goes on with the handshake.                  *)
FairSpec == Spec /\ WF_vars(Runs) /\ WF_vars(RecvCompletes) /\ WF_vars(SendCompletes) /\ WF_vars(PeerShakes)

-----------------------------------------------------------------------------
(* Each record is handled once and in the order it was sent, although      *)
(* activations of the session are nested in calls that find a record at    *)
(* once (lines 249-252 of sslasync.c) and future and buffer are shared.    *)
InOrder == \A i \in DOMAIN handled : handled[i] = i

(* Between two callbacks a session waits for one io call, or it is gone    *)
(* and nothing is pending that would call back into freed memory           *)
(* (ioasync.h:155); no activation runs on behind the free.  It waits for   *)
(* nothing only if its handshake has failed, once all is sent: for ever.   *)
HeldByOneCall ==
  LET calls == { dir \in DOMAIN pending : pending[dir] # "none" }
  IN  /\ step = "gone" => stack = << >> /\ calls = {}
      /\ step # "gone" /\ stack = << >> =>
           Cardinality(calls) = 1 \/ (refused /\ bioout = 0 /\ calls = {})

(* A record that the peer has sent is handled, also when the peer closes   *)
(* right behind it, unless the connection breaks.                          *)
AllHandled ==
  \A r \in 1 .. MaxRecords : came >= Ins + r ~> Len(handled) >= r \/ broken

(* With a peer that goes on a handshake that does not fail is told,        *)
(* whatever is received together or in parts and however many pieces a     *)
(* flight is sent in.  One that fails is told to nobody (lines 191-197).   *)
HandshakeTold == step = "handshake" ~> step # "handshake" \/ closed \/ broken \/ refused

(* A session whose handshake is done ends when its peer closes or the      *)
(* connection breaks, whatever it waits for.                               *)
SessionEnds == (closed \/ broken) /\ step \in {"send", "recv"} ~> step = "gone"
=============================================================================
