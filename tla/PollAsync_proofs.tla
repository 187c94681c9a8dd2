-------------------------- MODULE PollAsync_proofs --------------------------
(***************************************************************************)
(* Proofs about the poll loopers on epoll and kqueue and the programs that *)
(* use them: any users of the looper (PollUsers), the HTTP client          *)
(* (CurlAsync) and the io calls (IoAsyncPoll), for any number of contexts, *)
(* descriptors, transfers and futures and any length of a batch.           *)
(***************************************************************************)
EXTENDS PollUsers, CurlAsync, IoAsyncPoll, TLAPS

-----------------------------------------------------------------------------
(* What a wait and one turn of the processing do, whoever the users are.   *)
AnyCondition == {"in", "out", "err", "hup"}
Report == [ctx : Ctxs, events : SUBSET AnyCondition]

(* The entries belong to contexts of their descriptor, one for each.       *)
OneEntry ==
  /\ \A f \in Fds : \A e \in interest[f] : e.ctx \in Ctxs /\ FdOf[e.ctx] = f
  /\ \A f \in Fds : \A d, e \in interest[f] : d = e

(* The results are of entries, of different descriptors.                   *)
LEMMA WaitReports ==
  ASSUME NEW E, interest \in [Fds -> SUBSET E], cond \in [Fds -> SUBSET AnyCondition], OneEntry,
         poll_looper_wait_events
  PROVE  /\ Idle /\ UNCHANGED <<backend, cond, pctx, calling>>
         /\ batch' \in Seq(Report) /\ Len(batch') <= MaxEvents
         /\ \A i \in DOMAIN batch' : \E e \in interest[FdOf[batch'[i].ctx]] :
               e.ctx = batch'[i].ctx /\ batch'[i].events = Reported(FdOf[e.ctx], e)
         /\ \A i, j \in DOMAIN batch' : FdOf[batch'[i].ctx] = FdOf[batch'[j].ctx] => i = j
         /\ interest' \in [Fds -> SUBSET E]
         /\ \A f \in Fds : interest'[f] =
               { e \in interest[f] : ~(e.once /\ \E i \in DOMAIN batch' : FdOf[batch'[i].ctx] = f) }
<1>1. PICK n \in 1 .. MaxEvents : \E told \in Injection(1 .. n, Ready) :
           /\ batch' = [i \in 1 .. n |-> [ctx |-> told[i][2].ctx,
                                          events |-> Reported(told[i][1], told[i][2])]]
           /\ interest' = [f \in Fds |-> { e \in interest[f] : ~(e.once /\ <<f, e>> \in Range(told)) }]
  BY DEF poll_looper_wait_events
<1>2. PICK told \in Injection(1 .. n, Ready) :
           /\ batch' = [i \in 1 .. n |-> [ctx |-> told[i][2].ctx,
                                          events |-> Reported(told[i][1], told[i][2])]]
           /\ interest' = [f \in Fds |-> { e \in interest[f] : ~(e.once /\ <<f, e>> \in Range(told)) }]
  BY <1>1
<1>3. Idle /\ UNCHANGED <<backend, cond, pctx, calling>>
  BY DEF poll_looper_wait_events
<1>4. n \in Nat /\ n <= MaxEvents /\ told \in [1 .. n -> Ready]
      /\ \A i, j \in 1 .. n : told[i] = told[j] => i = j
  <2>1. n \in Nat /\ n <= MaxEvents
    BY <1>1, MaxEventsAssumption
  <2>2. told \in Injection(1 .. n, Ready)
    BY <1>2
  <2>3. told \in [1 .. n -> Ready] /\ \A i, j \in 1 .. n : told[i] = told[j] => i = j
    <3> HIDE DEF Ready
    <3> QED
      BY <2>2, Zenon DEF Injection, IsInjective
  <2> QED
    BY <2>1, <2>3
<1>5. ASSUME NEW i \in 1 .. n
      PROVE  /\ told[i] = <<FdOf[told[i][2].ctx], told[i][2]>>
             /\ told[i][2].ctx \in Ctxs
             /\ told[i][2] \in interest[FdOf[told[i][2].ctx]]
             /\ Reported(told[i][1], told[i][2]) \in SUBSET AnyCondition
  <2> DEFINE r == told[i]
  <2>1. r \in Ready
    BY <1>4
  <2> HIDE DEF r
  <2>2. PICK f \in Fds : r \in {f} \X { e \in interest[f] : Reported(f, e) # {} }
    BY <2>1 DEF Ready
  <2>3. r = <<r[1], r[2]>> /\ r[1] = f /\ r[2] \in interest[f]
    BY <2>2
  <2>4. r[2].ctx \in Ctxs /\ FdOf[r[2].ctx] = f
    BY <2>3 DEF OneEntry
  <2>5. Reported(r[1], r[2]) \in SUBSET AnyCondition
    BY <2>3 DEF Reported
  <2> QED
    BY <2>3, <2>4, <2>5 DEF r
<1>6. /\ DOMAIN batch' = 1 .. n
      /\ \A i \in 1 .. n : /\ batch'[i].ctx = told[i][2].ctx
                           /\ batch'[i].events = Reported(told[i][1], told[i][2])
  BY <1>2
<1>7. batch' \in Seq(Report) /\ Len(batch') <= MaxEvents
  <2> DEFINE g(i) == [ctx |-> told[i][2].ctx, events |-> Reported(told[i][1], told[i][2])]
  <2>1. batch' = [i \in 1 .. n |-> g(i)] /\ \A i \in 1 .. n : g(i) \in Report
    BY <1>2, <1>5 DEF Report
  <2> HIDE DEF g
  <2>2. batch' \in Seq(Report) /\ Len(batch') = n
    BY <1>4, <2>1
  <2> QED
    BY <1>4, <2>2
<1>8. ASSUME NEW i \in 1 .. n
      PROVE  \E e \in interest[FdOf[batch'[i].ctx]] :
               e.ctx = batch'[i].ctx /\ batch'[i].events = Reported(FdOf[e.ctx], e)
  <2> DEFINE e == told[i][2]
  <2>1. /\ told[i] = <<FdOf[e.ctx], e>> /\ e \in interest[FdOf[e.ctx]]
        /\ batch'[i].ctx = e.ctx /\ batch'[i].events = Reported(told[i][1], e)
    BY <1>5, <1>6
  <2> HIDE DEF e
  <2>2. told[i][1] = FdOf[e.ctx]
    BY <2>1
  <2> QED
    BY <2>1, <2>2
<1>9. ASSUME NEW i \in 1 .. n, NEW j \in 1 .. n, FdOf[batch'[i].ctx] = FdOf[batch'[j].ctx]
      PROVE  i = j
  <2> DEFINE d == told[i][2]
             e == told[j][2]
  <2>1. /\ told[i] = <<FdOf[d.ctx], d>> /\ d \in interest[FdOf[d.ctx]] /\ d.ctx \in Ctxs
        /\ told[j] = <<FdOf[e.ctx], e>> /\ e \in interest[FdOf[e.ctx]]
        /\ FdOf[d.ctx] = FdOf[e.ctx]
    BY <1>5, <1>6, <1>9
  <2> HIDE DEF d, e
  <2>2. FdOf[d.ctx] \in Fds
    BY <2>1, FdOfAssumption
  <2>3. d = e
    BY <2>1, <2>2 DEF OneEntry
  <2>4. told[i] = told[j]
    BY <2>1, <2>3
  <2> QED
    BY <1>4, <2>4
<1>10. ASSUME NEW f \in Fds, NEW e \in interest[f]
       PROVE  <<f, e>> \in Range(told) <=> \E i \in 1 .. n : FdOf[batch'[i].ctx] = f
  <2>1. Range(told) = { told[i] : i \in 1 .. n }
    BY <1>4, Zenon DEF Range
  <2>2. ASSUME NEW i \in 1 .. n
        PROVE  <<f, e>> = told[i] <=> FdOf[batch'[i].ctx] = f
    <3> DEFINE d == told[i][2]
    <3>1. told[i] = <<FdOf[d.ctx], d>> /\ d \in interest[FdOf[d.ctx]] /\ batch'[i].ctx = d.ctx
      BY <1>5, <1>6
    <3>2. e \in interest[f] /\ FdOf[e.ctx] = f
      BY <1>10 DEF OneEntry
    <3> HIDE DEF d
    <3>3. FdOf[d.ctx] = f => d = e
      BY <3>1, <3>2 DEF OneEntry
    <3> QED
      BY <3>1, <3>2, <3>3
  <2> QED
    BY <2>1, <2>2
<1>11. /\ interest' \in [Fds -> SUBSET E]
       /\ \A f \in Fds : interest'[f] =
              { e \in interest[f] : ~(e.once /\ \E i \in DOMAIN batch' : FdOf[batch'[i].ctx] = f) }
  <2>1. \A f \in Fds : interest'[f] = { e \in interest[f] : ~(e.once /\ <<f, e>> \in Range(told)) }
    BY <1>2
  <2>2. interest' \in [Fds -> SUBSET E]
    BY <1>2
  <2>3. ASSUME NEW f \in Fds
        PROVE  interest'[f] =
                 { e \in interest[f] : ~(e.once /\ \E i \in DOMAIN batch' : FdOf[batch'[i].ctx] = f) }
    <3> DEFINE P == \E i \in DOMAIN batch' : FdOf[batch'[i].ctx] = f
               R(e) == <<f, e>> \in Range(told)
    <3>1. \A e \in interest[f] : R(e) <=> P
      BY <1>6, <1>10
    <3>2. interest'[f] = { e \in interest[f] : ~(e.once /\ R(e)) }
      BY <2>1
    <3> HIDE DEF P, R
    <3>3. { e \in interest[f] : ~(e.once /\ R(e)) } = { e \in interest[f] : ~(e.once /\ P) }
      BY <3>1, Zenon
    <3> QED
      BY <3>2, <3>3 DEF P
  <2> QED
    BY <2>2, <2>3
<1> QED
  BY <1>3, <1>6, <1>7, <1>8, <1>9, <1>11

(* The first result is taken off, the others move up.                      *)
LEMMA EventTaken ==
  ASSUME batch \in Seq(Report), ProcessEvent
  PROVE  LET c == Head(batch).ctx
         IN  /\ 1 \in DOMAIN batch /\ Head(batch) = batch[1] /\ c \in Ctxs
             /\ Head(batch).events \in SUBSET AnyCondition
             /\ calling = NULL /\ UNCHANGED <<backend, cond>>
             /\ batch' \in Seq(Report) /\ Len(batch') <= Len(batch)
             /\ \A i \in DOMAIN batch' : i + 1 \in DOMAIN batch /\ batch'[i] = batch[i + 1] /\ i + 1 # 1
             /\ \A i, j \in DOMAIN batch' : i + 1 = j + 1 => i = j
             /\ \A i \in DOMAIN batch : i # 1 => \E j \in DOMAIN batch' : batch'[j] = batch[i]
<1>1. batch # << >> /\ calling = NULL /\ UNCHANGED <<backend, cond>> /\ batch' = Tail(batch)
  BY DEF ProcessEvent
<1>2. Head(batch) = batch[1] /\ 1 \in DOMAIN batch /\ batch[1] \in Report
  <2> HIDE DEF Report
  <2> QED
    BY <1>1
<1>3. /\ batch' \in Seq(Report) /\ Len(batch') = Len(batch) - 1 /\ Len(batch) \in Nat
      /\ DOMAIN batch' = 1 .. Len(batch) - 1 /\ DOMAIN batch = 1 .. Len(batch)
      /\ \A i \in 1 .. Len(batch) - 1 : batch'[i] = batch[i + 1]
  BY <1>1
<1>4. ASSUME NEW i \in DOMAIN batch, i # 1
      PROVE  \E j \in DOMAIN batch' : batch'[j] = batch[i]
  <2>1. i - 1 \in 1 .. Len(batch) - 1 /\ i - 1 + 1 = i
    BY <1>3, <1>4
  <2>2. batch'[i - 1] = batch[i]
    BY <1>3, <2>1
  <2> QED
    BY <1>3, <2>1, <2>2
<1>5. batch[1].ctx \in Ctxs /\ batch[1].events \in SUBSET AnyCondition
  BY <1>2 DEF Report
<1> QED
  BY <1>1, <1>2, <1>3, <1>4, <1>5

-----------------------------------------------------------------------------
(* Any users, on epoll, whose callbacks leave other contexts alone.        *)
(* What the users ask for is what the entries say, one for a descriptor.   *)
UsersWatched ==
  /\ \A c \in Ctxs : asked[c] # NULL =>
        interest[FdOf[c]] = {[ctx |-> c, events |-> asked[c], once |-> FALSE]}
  /\ \A f \in Fds : \A e \in interest[f] : FdOf[e.ctx] = f /\ asked[e.ctx] # NULL

(* The events still to be processed are of contexts that wait for them, of *)
(* different descriptors, and of others than the one whose callback runs.  *)
UsersBatched ==
  /\ \A i \in DOMAIN batch : /\ asked[batch[i].ctx] # NULL
                             /\ batch[i].events \cap {"in", "out"} \subseteq asked[batch[i].ctx]
  /\ \A i, j \in DOMAIN batch : FdOf[batch[i].ctx] = FdOf[batch[j].ctx] => i = j
  /\ calling # NULL => \A i \in DOMAIN batch : FdOf[batch[i].ctx] # FdOf[calling]

UsersInv == UsersTypeOK /\ UsersWatched /\ UsersBatched

OnEpoll == Backends = {"epoll"} /\ ~TouchOthers

LEMMA UsersTypes ==
  ASSUME UsersTypeOK, OnEpoll
  PROVE  /\ backend = "epoll"
         /\ interest \in [Fds -> SUBSET Entries]
         /\ asked \in [Ctxs -> AskedSets \cup {NULL}]
         /\ batch \in Seq([ctx : Ctxs, events : SUBSET {"in", "out", "err", "hup"}])
         /\ calling \in Ctxs \cup {NULL}
         /\ pctx \in [Ctxs -> [once : BOOLEAN, cb : {"user", NULL}, udata : Ctxs \cup {NULL},
                               events : SUBSET {"in", "out", "error"}]]
         /\ cond \in [Fds -> SUBSET {"in", "out", "err", "hup"}]
         /\ Len(batch) <= MaxEvents
         /\ backend \in Backends
BY DEF UsersTypeOK, PollTypeOK, OnEpoll

LEMMA UsersBatch ==
  ASSUME UsersTypeOK
  PROVE  /\ Len(batch) \in Nat
         /\ DOMAIN batch = 1 .. Len(batch)
         /\ \A i \in DOMAIN batch : /\ batch[i].ctx \in Ctxs
                                    /\ batch[i].events \in SUBSET {"in", "out", "err", "hup"}
<1> DEFINE S == [ctx : Ctxs, events : SUBSET {"in", "out", "err", "hup"}]
<1>1. batch \in Seq(S)
  BY DEF UsersTypeOK, PollTypeOK
<1>2. \A r \in S : r.ctx \in Ctxs /\ r.events \in SUBSET {"in", "out", "err", "hup"}
  OBVIOUS
<1> HIDE DEF S
<1>3. Len(batch) \in Nat /\ DOMAIN batch = 1 .. Len(batch) /\ \A i \in DOMAIN batch : batch[i] \in S
  BY <1>1
<1> QED
  BY <1>2, <1>3

(* Of the contexts of a descriptor one waits at most.                      *)
LEMMA OneWaits ==
  ASSUME UsersWatched, NEW c \in Ctxs, NEW d \in Ctxs, asked[c] # NULL, asked[d] # NULL, FdOf[c] = FdOf[d]
  PROVE  c = d
<1> DEFINE ec == [ctx |-> c, events |-> asked[c], once |-> FALSE]
           ed == [ctx |-> d, events |-> asked[d], once |-> FALSE]
<1>1. {ec} = {ed}
  BY DEF UsersWatched
<1>2. ec = ed
  BY <1>1
<1>3. ec.ctx = c /\ ed.ctx = d
  OBVIOUS
<1> QED
  BY <1>2, <1>3

LEMMA UsersInvInit ==
  ASSUME UsersInit
  PROVE  UsersInv
<1>1. UsersTypeOK
  BY MaxEventsAssumption, ConditionsAssumption, SMT DEF UsersInit, PollInit, UsersTypeOK, PollTypeOK
<1>2. UsersWatched
  BY FdOfAssumption DEF UsersInit, PollInit, UsersWatched
<1>3. UsersBatched
  BY DEF UsersInit, PollInit, UsersBatched
<1> QED
  BY <1>1, <1>2, <1>3 DEF UsersInv

-----------------------------------------------------------------------------
LEMMA RegisterKeeps ==
  ASSUME UsersInv, OnEpoll, NEW c \in Ctxs, NEW once \in BOOLEAN, NEW evs \in AskedSets, Register(c, once, evs)
  PROVE  UsersInv'
<1> USE FdOfAssumption, NullAssumption, AskedAssumption
<1>t. UsersTypeOK
  BY DEF UsersInv
<1>1. /\ pctx' = [pctx EXCEPT ![c] = [once |-> once, cb |-> "user", udata |-> c, events |-> {}]]
      /\ interest' = [interest EXCEPT ![FdOf[c]] = {[ctx |-> c, events |-> evs, once |-> FALSE]}]
      /\ asked' = [d \in Ctxs |-> IF d = c THEN evs ELSE IF FdOf[d] = FdOf[c] THEN NULL ELSE asked[d]]
      /\ UNCHANGED <<backend, cond, batch, calling>>
  BY <1>t, UsersTypes DEF Register, poll_register, EpollEntry
<1>2. [ctx |-> c, events |-> evs, once |-> FALSE] \in Entries
  BY DEF Entries
<1>3. UsersTypeOK'
  <2>1. /\ interest' \in [Fds -> SUBSET Entries]
        /\ asked' \in [Ctxs -> AskedSets \cup {NULL}]
    BY <1>1, <1>2, <1>t, UsersTypes
  <2>2. pctx' \in [Ctxs -> [once : BOOLEAN, cb : {"user", NULL}, udata : Ctxs \cup {NULL},
                            events : SUBSET {"in", "out", "error"}]]
    BY <1>1, <1>t, UsersTypes
  <2> QED
    BY <1>1, <2>1, <2>2, <1>t, UsersTypes DEF UsersTypeOK, PollTypeOK
<1>4. UsersWatched'
  <2>1. ASSUME NEW d \in Ctxs, asked'[d] # NULL
        PROVE  interest'[FdOf[d]] = {[ctx |-> d, events |-> asked'[d], once |-> FALSE]}
    BY <1>1, <2>1, <1>t, UsersTypes DEF UsersInv, UsersWatched
  <2>2. ASSUME NEW f \in Fds, NEW e \in interest'[f]
        PROVE  FdOf[e.ctx] = f /\ asked'[e.ctx] # NULL
    <3>1. CASE f = FdOf[c]
      BY <1>1, <2>2, <3>1, <1>t, UsersTypes
    <3>2. CASE f # FdOf[c]
      <4>1. e \in interest[f] /\ e \in Entries /\ FdOf[e.ctx] = f /\ asked[e.ctx] # NULL
        BY <1>1, <2>2, <3>2, <1>t, UsersTypes DEF UsersInv, UsersWatched
      <4>2. e.ctx \in Ctxs
        BY <4>1 DEF Entries
      <4> QED
        BY <1>1, <3>2, <4>1, <4>2
    <3> QED
      BY <3>1, <3>2
  <2> QED
    BY <2>1, <2>2 DEF UsersWatched
<1>5. \A i \in DOMAIN batch : batch[i].ctx \in Ctxs /\ FdOf[batch[i].ctx] # FdOf[c]
  <2>1. \A i \in DOMAIN batch : batch[i].ctx \in Ctxs
    BY <1>t, UsersBatch
  <2>2. batch = << >> \/ calling = c
    BY DEF Register, MayTouch, Idle, OnEpoll
  <2> QED
    BY <2>1, <2>2 DEF UsersInv, UsersBatched
<1>6. UsersBatched'
  BY <1>1, <1>5 DEF UsersInv, UsersBatched
<1> QED
  BY <1>3, <1>4, <1>6 DEF UsersInv

LEMMA UnregisterKeeps ==
  ASSUME UsersInv, OnEpoll, NEW c \in Ctxs, Unregister(c)
  PROVE  UsersInv'
<1> USE FdOfAssumption, NullAssumption, AskedAssumption
<1>t. UsersTypeOK
  BY DEF UsersInv
<1>1. /\ interest' = [interest EXCEPT ![FdOf[c]] = {}]
      /\ asked' = [asked EXCEPT ![c] = NULL]
      /\ asked[c] # NULL
      /\ UNCHANGED <<backend, cond, pctx, batch, calling>>
  BY <1>t, UsersTypes DEF Unregister, poll_unregister, EpollDelete
<1>2. UsersTypeOK'
  <2>1. /\ interest' \in [Fds -> SUBSET Entries]
        /\ asked' \in [Ctxs -> AskedSets \cup {NULL}]
    BY <1>1, <1>t, UsersTypes
  <2> QED
    BY <1>1, <2>1, <1>t, UsersTypes DEF UsersTypeOK, PollTypeOK
<1>3. interest[FdOf[c]] = {[ctx |-> c, events |-> asked[c], once |-> FALSE]}
  BY <1>1 DEF UsersInv, UsersWatched
<1>4. UsersWatched'
  <2>1. ASSUME NEW d \in Ctxs, asked'[d] # NULL
        PROVE  interest'[FdOf[d]] = {[ctx |-> d, events |-> asked'[d], once |-> FALSE]}
    <3>1. d # c /\ asked'[d] = asked[d] /\ asked[d] # NULL
      BY <1>1, <2>1, <1>t, UsersTypes
    <3>2. interest[FdOf[d]] = {[ctx |-> d, events |-> asked[d], once |-> FALSE]}
      BY <3>1 DEF UsersInv, UsersWatched
    <3>3. FdOf[d] # FdOf[c]
      BY <1>1, <3>1, OneWaits DEF UsersInv
    <3> QED
      BY <1>1, <3>1, <3>2, <3>3, <1>t, UsersTypes
  <2>2. ASSUME NEW f \in Fds, NEW e \in interest'[f]
        PROVE  FdOf[e.ctx] = f /\ asked'[e.ctx] # NULL
    <3>1. f # FdOf[c] /\ e \in interest[f] /\ e \in Entries
      BY <1>1, <2>2, <1>t, UsersTypes
    <3>2. e.ctx \in Ctxs /\ FdOf[e.ctx] = f /\ asked[e.ctx] # NULL
      BY <3>1 DEF UsersInv, UsersWatched, Entries
    <3> QED
      BY <1>1, <3>1, <3>2, <1>t, UsersTypes
  <2> QED
    BY <2>1, <2>2 DEF UsersWatched
<1>5. \A i \in DOMAIN batch : batch[i].ctx \in Ctxs /\ FdOf[batch[i].ctx] # FdOf[c]
  <2>1. \A i \in DOMAIN batch : batch[i].ctx \in Ctxs
    BY <1>t, UsersBatch
  <2>2. batch = << >> \/ calling = c
    BY DEF Unregister, MayTouch, Idle, OnEpoll
  <2> QED
    BY <2>1, <2>2 DEF UsersInv, UsersBatched
<1>6. UsersBatched'
  BY <1>1, <1>5, <1>t, UsersTypes DEF UsersInv, UsersBatched
<1> QED
  BY <1>2, <1>4, <1>6 DEF UsersInv

-----------------------------------------------------------------------------
(* The events of a batch are those of the entries that are ready.          *)
LEMMA UsersWaitKeeps ==
  ASSUME UsersInv, OnEpoll, UsersWait
  PROVE  UsersInv'
<1>1. /\ UsersTypeOK /\ poll_looper_wait_events /\ UNCHANGED asked
  BY DEF UsersInv, UsersWait
<1>2. OneEntry
  <2>1. ASSUME NEW f \in Fds, NEW e \in interest[f]
        PROVE  /\ e.ctx \in Ctxs /\ FdOf[e.ctx] = f /\ asked[e.ctx] # NULL
               /\ interest[f] = {[ctx |-> e.ctx, events |-> asked[e.ctx], once |-> FALSE]}
    <3>1. e.ctx \in Ctxs
      BY <1>1, <2>1, UsersTypes DEF Entries
    <3> QED
      BY <2>1, <3>1 DEF UsersInv, UsersWatched
  <2>2. ASSUME NEW f \in Fds, NEW d \in interest[f], NEW e \in interest[f]
        PROVE  d = e
    <3> DEFINE x == [ctx |-> e.ctx, events |-> asked[e.ctx], once |-> FALSE]
    <3>1. interest[f] = {x}
      BY <2>1
    <3> HIDE DEF x
    <3> QED
      BY <3>1
  <2> QED
    BY <2>1, <2>2 DEF OneEntry
<1>3. /\ Idle /\ UNCHANGED <<backend, cond, pctx, calling>>
      /\ batch' \in Seq(Report) /\ Len(batch') <= MaxEvents
      /\ \A i \in DOMAIN batch' : \E e \in interest[FdOf[batch'[i].ctx]] :
            e.ctx = batch'[i].ctx /\ batch'[i].events = Reported(FdOf[e.ctx], e)
      /\ \A i, j \in DOMAIN batch' : FdOf[batch'[i].ctx] = FdOf[batch'[j].ctx] => i = j
      /\ interest' \in [Fds -> SUBSET Entries]
      /\ \A f \in Fds : interest'[f] =
            { e \in interest[f] : ~(e.once /\ \E i \in DOMAIN batch' : FdOf[batch'[i].ctx] = f) }
  BY <1>1, <1>2, UsersTypes, WaitReports DEF AnyCondition
<1>4. ASSUME NEW f \in Fds, NEW e \in interest[f]
      PROVE  e.ctx \in Ctxs /\ asked[e.ctx] # NULL /\ e.events = asked[e.ctx] /\ e.once = FALSE
  <2>1. e.ctx \in Ctxs /\ FdOf[e.ctx] = f /\ asked[e.ctx] # NULL
    BY <1>2, <1>4 DEF OneEntry, UsersInv, UsersWatched
  <2>2. e = [ctx |-> e.ctx, events |-> asked[e.ctx], once |-> FALSE]
    BY <1>4, <2>1 DEF UsersInv, UsersWatched
  <2> QED
    BY <2>1, <2>2
<1>5. interest' = interest
  <2>1. ASSUME NEW f \in Fds
        PROVE  interest'[f] = interest[f]
    <3> DEFINE P == \E i \in DOMAIN batch' : FdOf[batch'[i].ctx] = f
    <3>1. interest'[f] = { e \in interest[f] : ~(e.once /\ P) }
      BY <1>3
    <3> HIDE DEF P
    <3> QED
      BY <1>4, <3>1
  <2> QED
    BY <1>1, <1>3, <2>1, UsersTypes
<1>6. UsersTypeOK'
  BY <1>1, <1>3, <1>5, UsersTypes DEF UsersTypeOK, PollTypeOK, Report, AnyCondition
<1>7. ASSUME NEW i \in DOMAIN batch'
      PROVE  /\ asked[batch'[i].ctx] # NULL
             /\ batch'[i].events \cap {"in", "out"} \subseteq asked[batch'[i].ctx]
  <2>1. batch'[i].ctx \in Ctxs
    <3>1. batch'[i] \in Report
      BY <1>3
    <3> QED
      BY <3>1 DEF Report
  <2>2. FdOf[batch'[i].ctx] \in Fds
    BY <2>1, FdOfAssumption
  <2>3. PICK e \in interest[FdOf[batch'[i].ctx]] :
          e.ctx = batch'[i].ctx /\ batch'[i].events = Reported(FdOf[e.ctx], e)
    BY <1>3
  <2> QED
    BY <1>4, <2>2, <2>3 DEF Reported
<1>8. UsersBatched'
  BY <1>1, <1>3, <1>7 DEF UsersBatched, Idle
<1> QED
  BY <1>1, <1>3, <1>5, <1>6, <1>8 DEF UsersInv, UsersWatched

LEMMA UsersServeKeeps ==
  ASSUME UsersInv, OnEpoll, UsersServe
  PROVE  /\ UsersInv'
         /\ calling' # NULL => /\ asked[calling'] # NULL
                               /\ pctx'[calling'].events \subseteq asked[calling'] \cup {"error"}
<1> USE FdOfAssumption, NullAssumption, AskedAssumption
<1>t. UsersTypeOK
  BY DEF UsersInv
<1> DEFINE c == Head(batch).ctx
<1>1. /\ batch # << >> /\ 1 \in DOMAIN batch
      /\ Head(batch) = batch[1]
      /\ c \in Ctxs /\ Head(batch).events \in SUBSET {"in", "out", "err", "hup"}
  <2>1. batch # << >>
    BY DEF UsersServe, ProcessEvent
  <2>2. Head(batch) = batch[1] /\ 1 \in DOMAIN batch
    <3> DEFINE S == [ctx : Ctxs, events : SUBSET {"in", "out", "err", "hup"}]
    <3>1. batch \in Seq(S)
      BY <1>t, UsersTypes
    <3> HIDE DEF S
    <3> QED
      BY <2>1, <3>1
  <2> QED
    BY <2>1, <2>2, <1>t, UsersBatch
<1>2. /\ asked[c] # NULL
      /\ Head(batch).events \cap {"in", "out"} \subseteq asked[c]
      /\ interest[FdOf[c]] = {[ctx |-> c, events |-> asked[c], once |-> FALSE]}
  BY <1>1 DEF UsersInv, UsersBatched, UsersWatched
<1>3. /\ pctx' = [pctx EXCEPT ![c].events = EpollEvents(Head(batch).events)]
      /\ interest' = IF pctx[c].once THEN [interest EXCEPT ![FdOf[c]] = {}] ELSE interest
      /\ asked' = IF pctx[c].once THEN [asked EXCEPT ![c] = NULL] ELSE asked
      /\ calling' = IF pctx[c].cb = NULL THEN NULL ELSE c
      /\ batch' = Tail(batch)
      /\ UNCHANGED <<backend, cond>>
  BY <1>t, UsersTypes DEF UsersServe, ProcessEvent, PollEvents, AfterOnce, EpollAfterOnce, EpollDelete
<1>4. EpollEvents(Head(batch).events) \in SUBSET {"in", "out", "error"}
      /\ EpollEvents(Head(batch).events) \subseteq asked[c] \cup {"error"}
  BY <1>1, <1>2 DEF EpollEvents
<1>5. /\ pctx' \in [Ctxs -> [once : BOOLEAN, cb : {"user", NULL}, udata : Ctxs \cup {NULL},
                             events : SUBSET {"in", "out", "error"}]]
      /\ pctx'[c].events = EpollEvents(Head(batch).events)
  <2> DEFINE S == [once : BOOLEAN, cb : {"user", NULL}, udata : Ctxs \cup {NULL},
                   events : SUBSET {"in", "out", "error"}]
  <2>1. pctx[c] \in S
    BY <1>1, <1>t, UsersTypes
  <2> DEFINE r == [pctx[c] EXCEPT !.events = EpollEvents(Head(batch).events)]
  <2>2. r \in S /\ r.events = EpollEvents(Head(batch).events)
    <3> HIDE DEF c
    <3> QED
      BY <1>4, <2>1
  <2>3. pctx' = [pctx EXCEPT ![c] = r]
    BY <1>3
  <2>4. pctx \in [Ctxs -> S] /\ c \in Ctxs
    BY <1>1, <1>t, UsersTypes
  <2> HIDE DEF S, r
  <2>5. pctx' \in [Ctxs -> S] /\ pctx'[c] = r
    BY <2>2, <2>3, <2>4
  <2> QED
    BY <2>2, <2>5 DEF S
<1>6. /\ batch' \in Seq([ctx : Ctxs, events : SUBSET {"in", "out", "err", "hup"}])
      /\ Len(batch') <= MaxEvents
      /\ DOMAIN batch' = 1 .. Len(batch) - 1
      /\ \A i \in DOMAIN batch' : i + 1 \in DOMAIN batch /\ batch'[i] = batch[i + 1]
  BY <1>1, <1>3, <1>t, UsersTypes, MaxEventsAssumption
<1>7. \A i \in DOMAIN batch' : batch'[i].ctx \in Ctxs /\ FdOf[batch'[i].ctx] # FdOf[c]
  <2>1. ASSUME NEW i \in DOMAIN batch'
        PROVE  i + 1 # 1 /\ i + 1 \in DOMAIN batch /\ batch'[i] = batch[i + 1]
    BY <1>6, <1>t, UsersBatch
  <2>2. \A i \in DOMAIN batch : batch[i].ctx \in Ctxs /\ (FdOf[batch[i].ctx] = FdOf[batch[1].ctx] => i = 1)
    BY <1>1, <1>t, UsersBatch DEF UsersInv, UsersBatched
  <2> QED
    BY <1>1, <2>1, <2>2
<1>8. UsersTypeOK'
  <2>1. interest' \in [Fds -> SUBSET Entries] /\ asked' \in [Ctxs -> AskedSets \cup {NULL}]
    BY <1>3, <1>t, UsersTypes
  <2>2. calling' \in Ctxs \cup {NULL}
    BY <1>1, <1>3
  <2> QED
    BY <1>3, <1>5, <1>6, <2>1, <2>2, <1>t, UsersTypes DEF UsersTypeOK, PollTypeOK
<1>9. UsersWatched'
  <2>1. CASE ~pctx[c].once
    BY <1>3, <2>1 DEF UsersInv, UsersWatched
  <2>2. CASE pctx[c].once
    <3>0. interest' = [interest EXCEPT ![FdOf[c]] = {}] /\ asked' = [asked EXCEPT ![c] = NULL]
      BY <1>3, <2>2
    <3>1. ASSUME NEW d \in Ctxs, asked'[d] # NULL
          PROVE  interest'[FdOf[d]] = {[ctx |-> d, events |-> asked'[d], once |-> FALSE]}
      <4>1. d # c /\ asked'[d] = asked[d] /\ asked[d] # NULL
        BY <1>1, <3>0, <3>1, <1>t, UsersTypes
      <4>2. interest[FdOf[d]] = {[ctx |-> d, events |-> asked[d], once |-> FALSE]}
        BY <4>1 DEF UsersInv, UsersWatched
      <4>3. FdOf[d] # FdOf[c]
        BY <1>1, <1>2, <4>1, OneWaits DEF UsersInv
      <4> QED
        BY <1>1, <3>0, <4>1, <4>2, <4>3, <1>t, UsersTypes
    <3>2. ASSUME NEW f \in Fds, NEW e \in interest'[f]
          PROVE  FdOf[e.ctx] = f /\ asked'[e.ctx] # NULL
      <4>1. f # FdOf[c] /\ e \in interest[f] /\ e \in Entries
        BY <1>1, <3>0, <3>2, <1>t, UsersTypes
      <4>2. e.ctx \in Ctxs /\ FdOf[e.ctx] = f /\ asked[e.ctx] # NULL
        BY <4>1 DEF UsersInv, UsersWatched, Entries
      <4> QED
        BY <3>0, <4>1, <4>2, <1>t, UsersTypes
    <3> QED
      BY <3>1, <3>2 DEF UsersWatched
  <2> QED
    BY <2>1, <2>2
<1>10. UsersBatched'
  <2>1. ASSUME NEW i \in DOMAIN batch'
        PROVE  /\ asked'[batch'[i].ctx] # NULL
               /\ batch'[i].events \cap {"in", "out"} \subseteq asked'[batch'[i].ctx]
    <3>1. batch'[i].ctx \in Ctxs /\ batch'[i].ctx # c
      BY <1>7, <2>1
    <3>2. asked'[batch'[i].ctx] = asked[batch'[i].ctx]
      BY <1>3, <3>1, <1>t, UsersTypes
    <3> QED
      BY <1>6, <2>1, <3>2 DEF UsersInv, UsersBatched
  <2>2. ASSUME NEW i \in DOMAIN batch', NEW j \in DOMAIN batch', FdOf[batch'[i].ctx] = FdOf[batch'[j].ctx]
        PROVE  i = j
    <3>1. i + 1 = j + 1
      BY <1>6, <2>2 DEF UsersInv, UsersBatched
    <3>2. i \in Int /\ j \in Int
      BY <1>6, <2>2, <1>t, UsersTypes
    <3> QED
      BY <3>1, <3>2
  <2> QED
    BY <1>3, <1>7, <2>1, <2>2 DEF UsersBatched
<1> QED
  BY <1>2, <1>3, <1>4, <1>5, <1>8, <1>9, <1>10 DEF UsersInv

-----------------------------------------------------------------------------
LEMMA UsersNextKeeps ==
  ASSUME UsersInv, OnEpoll, [UsersNext]_usersvars
  PROVE  UsersInv'
<1>1. CASE \E c \in Ctxs, once \in BOOLEAN, evs \in AskedSets : Register(c, once, evs)
  BY <1>1, RegisterKeeps
<1>2. CASE \E c \in Ctxs : Unregister(c)
  BY <1>2, UnregisterKeeps
<1>3. CASE UsersWait
  BY <1>3, UsersWaitKeeps
<1>4. CASE UsersServe
  BY <1>4, UsersServeKeeps
<1>5. CASE Return
  <2>1. calling' = NULL /\ UNCHANGED <<backend, cond, interest, pctx, batch, asked>>
    BY <1>5 DEF Return, CallbackReturns
  <2> QED
    BY <2>1 DEF UsersInv, UsersTypeOK, PollTypeOK, UsersWatched, UsersBatched
<1>6. CASE \E f \in Fds : ConditionChanges(f) /\ UNCHANGED asked
  <2>0. PICK f \in Fds : ConditionChanges(f) /\ UNCHANGED asked
    BY <1>6
  <2>1. PICK e \in Conditions[f] :
          /\ cond' = [cond EXCEPT ![f] = IF e \in cond[f] THEN cond[f] \ {e} ELSE cond[f] \cup {e}]
          /\ UNCHANGED <<backend, interest, pctx, batch, calling, asked>>
    BY <2>0, UsersTypes DEF ConditionChanges, UsersInv
  <2>2. e \in {"in", "out", "err", "hup"}
    BY ConditionsAssumption
  <2>3. cond' \in [Fds -> SUBSET {"in", "out", "err", "hup"}]
    BY <2>1, <2>2, UsersTypes DEF UsersInv
  <2>4. UsersTypeOK'
    BY <2>1, <2>3 DEF UsersInv, UsersTypeOK, PollTypeOK
  <2> QED
    BY <2>1, <2>4 DEF UsersInv, UsersWatched, UsersBatched
<1>7. CASE UNCHANGED usersvars
  BY <1>7 DEF usersvars, UsersInv, UsersTypeOK, PollTypeOK, UsersWatched, UsersBatched
<1> QED
  BY <1>1, <1>2, <1>3, <1>4, <1>5, <1>6, <1>7 DEF UsersNext

LEMMA UsersAgree ==
  ASSUME UsersInv, OnEpoll
  PROVE  Agreed
<1>1. SUFFICES ASSUME NEW c \in Ctxs
               PROVE  LET mine == { e \in interest[FdOf[c]] : e.ctx = c }
                      IN  IF asked[c] # NULL THEN interest[FdOf[c]] = mine /\ { e.events : e \in mine } = {asked[c]}
                                             ELSE mine = {}
  BY DEF Agreed
<1> DEFINE r == [ctx |-> c, events |-> asked[c], once |-> FALSE]
<1>2. CASE asked[c] # NULL
  <2>1. interest[FdOf[c]] = {r}
    BY <1>2 DEF UsersInv, UsersWatched
  <2>2. r.ctx = c /\ r.events = asked[c]
    OBVIOUS
  <2> HIDE DEF r
  <2>3. { e \in interest[FdOf[c]] : e.ctx = c } = {r}
    BY <2>1, <2>2
  <2>4. { e.events : e \in {r} } = {asked[c]}
    BY <2>2
  <2> QED
    BY <1>2, <2>1, <2>3, <2>4
<1>3. CASE asked[c] = NULL
  BY <1>3, FdOfAssumption DEF UsersInv, UsersWatched
<1> QED
  BY <1>2, <1>3

(* The state of the looper and of its users keeps its types.               *)
THEOREM LooperTypeCorrect ==
  ASSUME OnEpoll
  PROVE  UsersSpec => []UsersTypeOK
<1>1. UsersInit => UsersInv
  BY UsersInvInit
<1>2. UsersInv /\ [UsersNext]_usersvars => UsersInv'
  BY UsersNextKeeps
<1>3. UsersInv => UsersTypeOK
  BY DEF UsersInv
<1> QED
  BY <1>1, <1>2, <1>3, PTL DEF UsersSpec

(* The kernel waits for what the users wait for, whatever they register,   *)
(* unregister or take over, with POLL_FLAG_ONCE or without                 *)
(* (pollasync_epoll.c:83-146).                                             *)
THEOREM KernelAgrees ==
  ASSUME OnEpoll
  PROVE  UsersSpec => []Agreed
<1>1. UsersInit => UsersInv
  BY UsersInvInit
<1>2. UsersInv /\ [UsersNext]_usersvars => UsersInv'
  BY UsersNextKeeps
<1>3. UsersInv => Agreed
  BY UsersAgree
<1> QED
  BY <1>1, <1>2, <1>3, PTL DEF UsersSpec

(* A callback runs only for a context that waits, and is told of events it *)
(* waits for or of an error (pollasync.h:118).                             *)
THEOREM CallsAreAsked ==
  ASSUME OnEpoll
  PROVE  UsersSpec => CalledAsAsked
<1> DEFINE Told == calling' # calling /\ calling' # NULL =>
                     /\ asked[calling'] # NULL
                     /\ pctx'[calling'].events \subseteq asked[calling'] \cup {"error"}
<1>1. UsersInit => UsersInv
  BY UsersInvInit
<1>2. UsersInv /\ [UsersNext]_usersvars => UsersInv'
  BY UsersNextKeeps
<1>3. UsersInv /\ [UsersNext]_usersvars => [Told]_usersvars
  <2>1. SUFFICES ASSUME UsersInv, UsersNext, calling' # calling, calling' # NULL
                 PROVE  /\ asked[calling'] # NULL
                        /\ pctx'[calling'].events \subseteq asked[calling'] \cup {"error"}
    BY DEF usersvars
  <2>2. UsersServe
    BY <2>1 DEF UsersNext, Register, Unregister, UsersWait, poll_looper_wait_events, Return, CallbackReturns,
                ConditionChanges
  <2> QED
    BY <2>1, <2>2, UsersServeKeeps
<1> QED
  BY <1>1, <1>2, <1>3, PTL DEF UsersSpec, CalledAsAsked

-----------------------------------------------------------------------------
(* The HTTP client, on epoll.                                              *)
CurlTypes ==
  /\ backend = "epoll"
  /\ cond \in [Fds -> SUBSET AnyCondition]
  /\ interest \in [Fds -> SUBSET [ctx : Ctxs, events : SUBSET AnyCondition, once : {FALSE}]]
  /\ pctx \in [Ctxs -> [once : {FALSE}, cb : {"on_poll_result", NULL}, udata : Ctxs \cup {NULL},
                        events : SUBSET {"in", "out", "error"}]]
  /\ batch \in Seq(Report)
  /\ calling \in Ctxs \cup {NULL}
  /\ phase \in [Ctxs -> {"idle", "running", "done", "told", "freed"}]
  /\ wanted \in [Ctxs -> SUBSET AnyCondition]
  /\ msgs \in Seq(Ctxs)
  /\ turn \in {"start", "timers", "fired", "wait", "events"}
  /\ at \in {"loop", "action", "info", "callback"}

(* The one entry of a descriptor is that of the transfer which waits.      *)
CurlWatched ==
  /\ \A c \in Ctxs : wanted[c] # {} =>
        /\ interest[FdOf[c]] = {[ctx |-> c, events |-> wanted[c], once |-> FALSE]}
        /\ phase[c] = "running" /\ pctx[c].cb = "on_poll_result"
  /\ \A f \in Fds : \A e \in interest[f] : FdOf[e.ctx] = f /\ wanted[e.ctx] # {}

(* The results to come are of other transfers than the one whose callback  *)
(* runs, and those that do not run on were done with elsewhere.            *)
CurlBatched ==
  /\ \A i \in DOMAIN batch : /\ phase[batch[i].ctx] = "running" \/ batch[i].ctx \in elsewhere
                             /\ pctx[batch[i].ctx].cb = "on_poll_result"
  /\ \A i, j \in DOMAIN batch : batch[i].ctx = batch[j].ctx => i = j
  /\ calling # NULL => at # "loop" /\ turn = "events" /\ \A i \in DOMAIN batch : batch[i].ctx # calling
  /\ at # "loop" => calling # NULL \/ turn = "fired"
  /\ batch # << >> => turn = "events"

(* A transfer is reported as done once.                                    *)
CurlReports ==
  /\ \A i \in DOMAIN msgs : phase[msgs[i]] = "done"
  /\ \A i, j \in DOMAIN msgs : msgs[i] = msgs[j] => i = j

CurlInv == CurlTypes /\ CurlWatched /\ CurlBatched /\ CurlReports

CurlOnEpoll == Backends = {"epoll"}

LEMMA CondAtFirst ==
  ASSUME PollInit
  PROVE  cond \in [Fds -> SUBSET AnyCondition]
BY ConditionsAssumption DEF PollInit, AnyCondition

LEMMA CondTyped ==
  ASSUME cond \in [Fds -> SUBSET AnyCondition], NEW f \in Fds, ConditionChanges(f)
  PROVE  cond' \in [Fds -> SUBSET AnyCondition] /\ UNCHANGED <<backend, interest, pctx, batch, calling>>
<1>1. PICK e \in Conditions[f] :
        /\ cond' = [cond EXCEPT ![f] = IF e \in cond[f] THEN cond[f] \ {e} ELSE cond[f] \cup {e}]
        /\ UNCHANGED <<backend, interest, pctx, batch, calling>>
  BY DEF ConditionChanges
<1>2. e \in AnyCondition
  BY ConditionsAssumption DEF AnyCondition
<1> QED
  BY <1>1, <1>2

LEMMA CurlInvInit ==
  ASSUME CurlInit, CurlOnEpoll
  PROVE  CurlInv
<1> USE DEF CurlInit, PollInit
<1>1. CurlTypes
  BY CondAtFirst DEF CurlTypes, CurlOnEpoll, AnyCondition
<1>2. CurlWatched /\ CurlBatched /\ CurlReports
  BY FdOfAssumption DEF CurlWatched, CurlBatched, CurlReports
<1> QED
  BY <1>1, <1>2 DEF CurlInv

(* The events of a batch and the messages, as they stand in them.          *)
LEMMA CurlHeld ==
  ASSUME CurlInv
  PROVE  /\ \A i \in DOMAIN batch : batch[i].ctx \in Ctxs
         /\ \A i \in DOMAIN msgs : msgs[i] \in Ctxs
         /\ \A f \in Fds : \A e \in interest[f] : e.ctx \in Ctxs
<1>1. batch \in Seq(Report) /\ msgs \in Seq(Ctxs)
      /\ interest \in [Fds -> SUBSET [ctx : Ctxs, events : SUBSET AnyCondition, once : {FALSE}]]
  BY DEF CurlInv, CurlTypes
<1>2. \A i \in DOMAIN batch : batch[i] \in Report
  BY <1>1
<1>3. \A i \in DOMAIN msgs : msgs[i] \in Ctxs
  BY <1>1
<1>4. \A i \in DOMAIN batch : batch[i].ctx \in Ctxs
  BY <1>2 DEF Report
<1>5. ASSUME NEW f \in Fds, NEW e \in interest[f]
      PROVE  e.ctx \in Ctxs
  <2>1. e \in [ctx : Ctxs, events : SUBSET AnyCondition, once : {FALSE}]
    BY <1>1
  <2> QED
    BY <2>1
<1> QED
  BY <1>3, <1>4, <1>5

LEMMA PerformKeeps ==
  ASSUME CurlInv, NEW c \in Ctxs, curl_async_perform(c)
  PROVE  CurlInv'
<1>1. /\ phase[c] = "idle" /\ phase' = [phase EXCEPT ![c] = "running"]
      /\ UNCHANGED <<backend, cond, interest, pctx, batch, calling, wanted, msgs, elsewhere, turn, at>>
  BY DEF curl_async_perform, pollvars
<1>2. CurlTypes'
  BY <1>1 DEF CurlInv, CurlTypes
<1>3. \A d \in Ctxs : phase[d] # "idle" => phase'[d] = phase[d]
  BY <1>1 DEF CurlInv, CurlTypes
<1>4. CurlWatched'
  BY <1>1, <1>3 DEF CurlInv, CurlWatched
<1>5. CurlBatched' /\ CurlReports'
  BY <1>1, <1>3, CurlHeld DEF CurlInv, CurlBatched, CurlReports
<1> QED
  BY <1>2, <1>4, <1>5 DEF CurlInv

(* What only goes on in the turn of the main loop.                         *)
LEMMA TurnKeeps ==
  ASSUME CurlInv,
         MainLoop \/ on_timeout \/ TimersDone \/ EventsDone \/ CurlReturns \/ NoMessage
           \/ \E ask \in BOOLEAN : CurlTimer(ask)
  PROVE  CurlInv'
<1>1. UNCHANGED <<backend, cond, interest, pctx, batch, phase, wanted, msgs>>
  BY DEF MainLoop, on_timeout, TimersDone, EventsDone, CurlReturns, NoMessage, CurlTimer, CallbackReturns,
         pollvars, curl
<1>2. /\ turn' \in {"start", "timers", "fired", "wait", "events"}
      /\ at' \in {"loop", "action", "info", "callback"}
      /\ calling' \in Ctxs \cup {NULL}
  BY DEF MainLoop, on_timeout, TimersDone, EventsDone, CurlReturns, NoMessage, CurlTimer, CallbackReturns,
         pollvars, CurlInv, CurlTypes
<1>3. CurlTypes'
  BY <1>1, <1>2 DEF CurlInv, CurlTypes
<1>4. /\ calling' # NULL => calling' = calling /\ at' # "loop" /\ turn' = "events"
      /\ at' # "loop" => calling' # NULL \/ turn' = "fired"
      /\ batch # << >> => turn' = "events"
  <2> USE DEF CurlInv, CurlBatched
  <2>1. CASE MainLoop
    BY <2>1 DEF MainLoop, pollvars
  <2>2. CASE on_timeout
    BY <2>2 DEF on_timeout, pollvars
  <2>3. CASE TimersDone
    BY <2>3 DEF TimersDone, pollvars
  <2>4. CASE EventsDone
    BY <2>4 DEF EventsDone, Idle, pollvars
  <2>5. CASE CurlReturns
    BY <2>5 DEF CurlReturns, pollvars
  <2>6. CASE NoMessage
    BY <2>6 DEF NoMessage, CallbackReturns, pollvars
  <2>7. CASE \E ask \in BOOLEAN : CurlTimer(ask)
    BY <2>7 DEF CurlTimer, pollvars
  <2> QED
    BY <2>1, <2>2, <2>3, <2>4, <2>5, <2>6, <2>7
<1>5. CurlWatched' /\ CurlReports'
  BY <1>1 DEF CurlInv, CurlWatched, CurlReports
<1>6. elsewhere' = elsewhere \/ batch = << >>
  BY DEF MainLoop, on_timeout, TimersDone, EventsDone, CurlReturns, NoMessage, CurlTimer, Idle, curl
<1>7. CurlBatched'
  BY <1>1, <1>4, <1>6 DEF CurlInv, CurlBatched
<1> QED
  BY <1>3, <1>5, <1>7 DEF CurlInv

LEMMA CurlWaitKeeps ==
  ASSUME CurlInv, CurlWait
  PROVE  CurlInv'
<1>1. turn = "wait" /\ turn' = "events" /\ UNCHANGED <<phase, wanted, msgs, elsewhere, at>>
  BY DEF CurlWait, curl
<1>2. CASE UNCHANGED pollvars
  <2>1. UNCHANGED <<backend, cond, interest, pctx, batch, calling>>
    BY <1>2 DEF pollvars
  <2>2. CurlTypes' /\ CurlWatched'
    BY <1>1, <2>1 DEF CurlInv, CurlTypes, CurlWatched
  <2>3. CurlBatched' /\ CurlReports'
    BY <1>1, <2>1 DEF CurlInv, CurlBatched, CurlReports
  <2> QED
    BY <2>2, <2>3 DEF CurlInv
<1>3. CASE poll_looper_wait_events
  <2> DEFINE E == [ctx : Ctxs, events : SUBSET AnyCondition, once : {FALSE}]
  <2>1. ASSUME NEW f \in Fds, NEW e \in interest[f]
        PROVE  /\ e.ctx \in Ctxs /\ FdOf[e.ctx] = f /\ e.once = FALSE
               /\ wanted[e.ctx] # {} /\ phase[e.ctx] = "running" /\ pctx[e.ctx].cb = "on_poll_result"
               /\ interest[f] = {[ctx |-> e.ctx, events |-> wanted[e.ctx], once |-> FALSE]}
    <3>1. e \in E
      BY <2>1 DEF CurlInv, CurlTypes
    <3>2. e.ctx \in Ctxs /\ e.once = FALSE
      BY <3>1
    <3> QED
      BY <2>1, <3>2 DEF CurlInv, CurlWatched
  <2>2. ASSUME NEW f \in Fds, NEW d \in interest[f], NEW e \in interest[f]
        PROVE  d = e
    <3> DEFINE x == [ctx |-> e.ctx, events |-> wanted[e.ctx], once |-> FALSE]
    <3>1. interest[f] = {x}
      BY <2>1
    <3> HIDE DEF x
    <3> QED
      BY <3>1
  <2>3. OneEntry
    BY <2>1, <2>2 DEF OneEntry
  <2>4. interest \in [Fds -> SUBSET E] /\ cond \in [Fds -> SUBSET AnyCondition]
    BY DEF CurlInv, CurlTypes
  <2> HIDE DEF E
  <2>5. /\ Idle /\ UNCHANGED <<backend, cond, pctx, calling>>
        /\ batch' \in Seq(Report)
        /\ \A i \in DOMAIN batch' : \E e \in interest[FdOf[batch'[i].ctx]] : e.ctx = batch'[i].ctx
        /\ \A i, j \in DOMAIN batch' : FdOf[batch'[i].ctx] = FdOf[batch'[j].ctx] => i = j
        /\ interest' \in [Fds -> SUBSET E]
        /\ \A f \in Fds : interest'[f] =
              { e \in interest[f] : ~(e.once /\ \E i \in DOMAIN batch' : FdOf[batch'[i].ctx] = f) }
    BY <1>3, <2>3, <2>4, WaitReports
  <2>6. interest' = interest
    <3>1. ASSUME NEW f \in Fds
          PROVE  interest'[f] = interest[f]
      <4> DEFINE P == \E i \in DOMAIN batch' : FdOf[batch'[i].ctx] = f
      <4>1. interest'[f] = { e \in interest[f] : ~(e.once /\ P) }
        BY <2>5
      <4> HIDE DEF P
      <4> QED
        BY <2>1, <4>1
    <3> QED
      BY <2>4, <2>5, <3>1
  <2>7. CurlTypes'
    BY <1>1, <2>5, <2>6 DEF CurlInv, CurlTypes
  <2>8. ASSUME NEW i \in DOMAIN batch'
        PROVE  phase[batch'[i].ctx] = "running" /\ pctx[batch'[i].ctx].cb = "on_poll_result"
    <3>1. batch'[i] \in Report
      BY <2>5
    <3> DEFINE f == FdOf[batch'[i].ctx]
    <3>2. f \in Fds
      BY <3>1, FdOfAssumption DEF Report
    <3>3. PICK e \in interest[f] : e.ctx = batch'[i].ctx
      BY <2>5
    <3> HIDE DEF f
    <3>4. phase[e.ctx] = "running" /\ pctx[e.ctx].cb = "on_poll_result"
      BY <2>1, <3>2
    <3> QED
      BY <3>3, <3>4
  <2>9. CurlBatched'
    <3>1. calling' = NULL /\ at' = "loop"
      BY <1>1, <2>5 DEF Idle, CurlInv, CurlBatched
    <3>2. UNCHANGED <<phase, pctx>> /\ turn' = "events"
      BY <1>1, <2>5
    <3>3. ASSUME NEW i \in DOMAIN batch', NEW j \in DOMAIN batch', batch'[i].ctx = batch'[j].ctx
          PROVE  i = j
      BY <2>5, <3>3
    <3> QED
      BY <2>8, <3>1, <3>2, <3>3 DEF CurlBatched
  <2> QED
    BY <1>1, <2>5, <2>6, <2>7, <2>9 DEF CurlInv, CurlWatched, CurlReports
<1> QED
  BY <1>2, <1>3 DEF CurlWait

LEMMA ResultKeeps ==
  ASSUME CurlInv, on_poll_result
  PROVE  CurlInv'
<1> DEFINE c == Head(batch).ctx
<1>1. /\ turn = "events" /\ at = "loop" /\ ProcessEvent /\ at' = "action"
      /\ UNCHANGED <<phase, wanted, msgs, elsewhere, turn>>
  BY DEF on_poll_result, curl
<1>2. /\ 1 \in DOMAIN batch /\ Head(batch) = batch[1] /\ c \in Ctxs
      /\ Head(batch).events \in SUBSET AnyCondition
      /\ UNCHANGED <<backend, cond>>
      /\ batch' \in Seq(Report)
      /\ \A i \in DOMAIN batch' : i + 1 \in DOMAIN batch /\ batch'[i] = batch[i + 1] /\ i + 1 # 1
      /\ \A i, j \in DOMAIN batch' : i + 1 = j + 1 => i = j
  BY <1>1, EventTaken DEF CurlInv, CurlTypes
<1>3. pctx[c].cb = "on_poll_result" /\ pctx[c].once = FALSE
  BY <1>2 DEF CurlInv, CurlTypes, CurlBatched
<1>4. /\ pctx' = [pctx EXCEPT ![c].events = EpollEvents(Head(batch).events)]
      /\ interest' = interest
      /\ calling' = c
  BY <1>1, <1>3, CallbackAssumption DEF ProcessEvent, PollEvents, AfterOnce, EpollAfterOnce, CurlInv, CurlTypes
<1>5. EpollEvents(Head(batch).events) \in SUBSET {"in", "out", "error"}
  BY DEF EpollEvents
<1> HIDE DEF c
<1>6. CurlTypes' /\ \A d \in Ctxs : pctx'[d].cb = pctx[d].cb
  <2> DEFINE S == [once : {FALSE}, cb : {"on_poll_result", NULL}, udata : Ctxs \cup {NULL},
                   events : SUBSET {"in", "out", "error"}]
             r == [pctx[c] EXCEPT !.events = EpollEvents(Head(batch).events)]
  <2>1. pctx \in [Ctxs -> S] /\ pctx[c] \in S
    BY <1>2 DEF CurlInv, CurlTypes
  <2>2. r \in S /\ r.cb = pctx[c].cb
    BY <1>5, <2>1
  <2>3. pctx' = [pctx EXCEPT ![c] = r]
    BY <1>4
  <2> HIDE DEF S, r
  <2>4. pctx' \in [Ctxs -> S] /\ \A d \in Ctxs : pctx'[d].cb = pctx[d].cb
    BY <1>2, <2>1, <2>2, <2>3
  <2> QED
    BY <1>1, <1>2, <1>4, <2>4 DEF CurlInv, CurlTypes, S
<1>7. CurlWatched'
  BY <1>1, <1>4, <1>6 DEF CurlInv, CurlWatched
<1>8. \A i \in DOMAIN batch' : batch'[i].ctx \in Ctxs /\ batch'[i].ctx # c
  BY <1>2, CurlHeld DEF CurlInv, CurlBatched, c
<1>9. CurlBatched'
  <2>1. \A i \in DOMAIN batch' : /\ phase'[batch'[i].ctx] = "running" \/ batch'[i].ctx \in elsewhere'
                                 /\ pctx'[batch'[i].ctx].cb = "on_poll_result"
    BY <1>1, <1>2, <1>6, <1>8 DEF CurlInv, CurlBatched
  <2>2. ASSUME NEW i \in DOMAIN batch', NEW j \in DOMAIN batch', batch'[i].ctx = batch'[j].ctx
        PROVE  i = j
    BY <1>2, <2>2 DEF CurlInv, CurlBatched
  <2>3. calling' # NULL
    BY <1>2, <1>4, NullAssumption
  <2> QED
    BY <1>1, <1>4, <1>8, <2>1, <2>2, <2>3 DEF CurlBatched
<1> QED
  BY <1>1, <1>6, <1>7, <1>9 DEF CurlInv, CurlReports

LEMMA SocketKeeps ==
  ASSUME CurlInv, NEW c \in Ctxs, NEW evs \in SUBSET Conditions[FdOf[c]], CurlSocket(c, evs)
  PROVE  CurlInv'
<1> DEFINE f == FdOf[c]
           x == [ctx |-> c, events |-> evs, once |-> FALSE]
<1>1. /\ phase[c] = "running" /\ evs # wanted[c]
      /\ \A d \in Ctxs \ {c} : FdOf[d] = f => wanted[d] = {}
      /\ wanted' = [wanted EXCEPT ![c] = evs]
      /\ handle_socket(c, evs)
      /\ UNCHANGED <<backend, cond, batch, calling, phase, msgs, elsewhere, turn, at>>
  BY DEF CurlSocket, GoesOn
<1>2. f \in Fds /\ evs \in SUBSET AnyCondition
  BY FdOfAssumption, ConditionsAssumption DEF AnyCondition
<1>3. /\ interest' = [interest EXCEPT ![f] = IF evs = {} THEN {} ELSE {x}]
      /\ pctx' = IF evs = {} THEN pctx
                 ELSE [pctx EXCEPT ![c] = [once |-> FALSE, cb |-> "on_poll_result", udata |-> c, events |-> {}]]
  <2>1. backend = "epoll"
    BY DEF CurlInv, CurlTypes
  <2>2. CASE evs = {}
    BY <1>1, <2>1, <2>2 DEF handle_socket, poll_unregister, EpollDelete
  <2>3. CASE evs # {}
    BY <1>1, <2>1, <2>3 DEF handle_socket, poll_register, EpollEntry, Watched
  <2> QED
    BY <2>2, <2>3
<1>4. x \in [ctx : Ctxs, events : SUBSET AnyCondition, once : {FALSE}] /\ x.ctx = c
  BY <1>2
<1>5. CurlTypes'
  <2>1. wanted' \in [Ctxs -> SUBSET AnyCondition]
    BY <1>1, <1>2 DEF CurlInv, CurlTypes
  <2>2. interest' \in [Fds -> SUBSET [ctx : Ctxs, events : SUBSET AnyCondition, once : {FALSE}]]
    <3> HIDE DEF f, x
    <3> QED
      BY <1>2, <1>3, <1>4 DEF CurlInv, CurlTypes
  <2>3. pctx' \in [Ctxs -> [once : {FALSE}, cb : {"on_poll_result", NULL}, udata : Ctxs \cup {NULL},
                            events : SUBSET {"in", "out", "error"}]]
    BY <1>3 DEF CurlInv, CurlTypes
  <2> QED
    BY <1>1, <2>1, <2>2, <2>3 DEF CurlInv, CurlTypes
<1>6. \A d \in Ctxs : pctx[d].cb = "on_poll_result" => pctx'[d].cb = "on_poll_result"
  BY <1>3 DEF CurlInv, CurlTypes
<1>7. /\ \A d \in Ctxs : wanted'[d] = IF d = c THEN evs ELSE wanted[d]
      /\ \A g \in Fds : interest'[g] = IF g # f THEN interest[g] ELSE IF evs = {} THEN {} ELSE {x}
  <2> HIDE DEF f, x
  <2> QED
    BY <1>1, <1>2, <1>3 DEF CurlInv, CurlTypes
<1>8. ASSUME NEW d \in Ctxs, wanted'[d] # {}
      PROVE  /\ interest'[FdOf[d]] = {[ctx |-> d, events |-> wanted'[d], once |-> FALSE]}
             /\ phase[d] = "running" /\ pctx'[d].cb = "on_poll_result"
  <2>1. CASE d = c
    <3>1. evs # {} /\ wanted'[d] = evs /\ interest'[FdOf[d]] = {x}
      BY <1>2, <1>7, <1>8, <2>1
    <3>2. pctx'[c].cb = "on_poll_result"
      BY <1>3, <3>1 DEF CurlInv, CurlTypes
    <3> QED
      BY <1>1, <2>1, <3>1, <3>2
  <2>2. CASE d # c
    <3>1. wanted'[d] = wanted[d] /\ FdOf[d] # f /\ FdOf[d] \in Fds
      BY <1>1, <1>7, <1>8, <2>2, FdOfAssumption
    <3>2. interest'[FdOf[d]] = interest[FdOf[d]]
      BY <1>7, <3>1
    <3> QED
      BY <1>6, <1>8, <3>1, <3>2 DEF CurlInv, CurlWatched
  <2> QED
    BY <2>1, <2>2
<1>9. ASSUME NEW g \in Fds, NEW e \in interest'[g]
      PROVE  FdOf[e.ctx] = g /\ wanted'[e.ctx] # {}
  <2>1. CASE g = f
    <3>1. evs # {} /\ e = x
      BY <1>7, <1>9, <2>1
    <3> QED
      BY <1>4, <1>7, <2>1, <3>1
  <2>2. CASE g # f
    <3>1. e \in interest[g]
      BY <1>7, <1>9, <2>2
    <3>2. e.ctx \in Ctxs /\ FdOf[e.ctx] = g /\ wanted[e.ctx] # {}
      BY <3>1, CurlHeld DEF CurlInv, CurlWatched
    <3> QED
      BY <1>7, <2>2, <3>2
  <2> QED
    BY <2>1, <2>2
<1>10. CurlWatched'
  BY <1>1, <1>8, <1>9 DEF CurlWatched
<1>11. CurlBatched' /\ CurlReports'
  BY <1>1, <1>6, CurlHeld DEF CurlInv, CurlBatched, CurlReports
<1> QED
  BY <1>5, <1>10, <1>11 DEF CurlInv

LEMMA DoneKeeps ==
  ASSUME CurlInv, NEW c \in Ctxs, CurlDone(c)
  PROVE  CurlInv'
<1>1. /\ at = "action" /\ phase[c] = "running" /\ wanted[c] = {}
      /\ elsewhere' = IF calling \in {c, NULL} THEN elsewhere ELSE elsewhere \cup {c}
      /\ phase' = [phase EXCEPT ![c] = "done"]
      /\ msgs' = Append(msgs, c)
      /\ UNCHANGED <<backend, cond, interest, pctx, batch, calling, wanted, turn, at>>
  BY DEF CurlDone, GoesOn, pollvars
<1>2. CurlTypes'
  <2>1. msgs' \in Seq(Ctxs) /\ phase' \in [Ctxs -> {"idle", "running", "done", "told", "freed"}]
    BY <1>1 DEF CurlInv, CurlTypes
  <2> QED
    BY <1>1, <2>1 DEF CurlInv, CurlTypes
<1>3. \A d \in Ctxs : phase'[d] = IF d = c THEN "done" ELSE phase[d]
  BY <1>1 DEF CurlInv, CurlTypes
<1>4. CurlWatched'
  BY <1>1, <1>3 DEF CurlInv, CurlWatched
<1>5. (\A i \in DOMAIN batch : batch[i].ctx # c) \/ c \in elsewhere'
  <2>1. CASE calling = c
    BY <2>1, NullAssumption DEF CurlInv, CurlBatched
  <2>2. CASE calling = NULL
    BY <1>1, <2>2 DEF CurlInv, CurlBatched
  <2>3. CASE calling \notin {c, NULL}
    BY <1>1, <2>3
  <2> QED
    BY <2>1, <2>2, <2>3
<1>6. CurlBatched'
  <2>1. elsewhere \subseteq elsewhere'
    BY <1>1
  <2> QED
    BY <1>1, <1>3, <1>5, <2>1, CurlHeld DEF CurlInv, CurlBatched
<1>7. CurlReports'
  <2>1. msgs \in Seq(Ctxs) /\ \A i \in DOMAIN msgs : msgs[i] \in Ctxs /\ msgs[i] # c
    BY <1>1, CurlHeld DEF CurlInv, CurlTypes, CurlReports
  <2>2. /\ DOMAIN msgs = 1 .. Len(msgs) /\ DOMAIN msgs' = 1 .. Len(msgs) + 1 /\ Len(msgs) \in Nat
        /\ \A i \in 1 .. Len(msgs) : msgs'[i] = msgs[i]
        /\ msgs'[Len(msgs) + 1] = c
    BY <1>1, <2>1
  <2>3. \A i \in DOMAIN msgs' : i \in DOMAIN msgs \/ i = Len(msgs) + 1
    BY <2>2
  <2> QED
    BY <1>3, <2>1, <2>2, <2>3 DEF CurlInv, CurlReports
<1> QED
  BY <1>2, <1>4, <1>6, <1>7 DEF CurlInv

LEMMA MessageKeeps ==
  ASSUME CurlInv, NextMessage
  PROVE  CurlInv'
<1> DEFINE c == Head(msgs)
<1>1. /\ at = "info" /\ msgs # << >> /\ msgs' = Tail(msgs)
      /\ phase' = [phase EXCEPT ![c] = "told"] /\ at' = "callback"
      /\ UNCHANGED <<backend, cond, interest, pctx, batch, calling, wanted, elsewhere, turn>>
  BY DEF NextMessage, pollvars
<1>2. /\ msgs \in Seq(Ctxs) /\ msgs' \in Seq(Ctxs) /\ c = msgs[1] /\ c \in Ctxs /\ 1 \in DOMAIN msgs
      /\ \A i \in DOMAIN msgs' : i + 1 \in DOMAIN msgs /\ msgs'[i] = msgs[i + 1] /\ i + 1 # 1 /\ i \in Int
  BY <1>1 DEF CurlInv, CurlTypes
<1>3. phase[c] = "done"
  BY <1>2 DEF CurlInv, CurlReports
<1> HIDE DEF c
<1>4. \A d \in Ctxs : phase'[d] = IF d = c THEN "told" ELSE phase[d]
  BY <1>1 DEF CurlInv, CurlTypes
<1>5. CurlTypes'
  BY <1>1, <1>2 DEF CurlInv, CurlTypes
<1>6. CurlWatched'
  BY <1>1, <1>3, <1>4 DEF CurlInv, CurlWatched
<1>7. CurlBatched'
  BY <1>1, <1>3, <1>4, CurlHeld DEF CurlInv, CurlBatched
<1>8. CurlReports'
  <2>1. \A i \in DOMAIN msgs' : msgs'[i] \in Ctxs /\ msgs'[i] # c /\ phase[msgs'[i]] = "done"
    BY <1>2, CurlHeld DEF CurlInv, CurlReports
  <2>2. \A i, j \in DOMAIN msgs' : msgs'[i] = msgs'[j] => i + 1 = j + 1
    BY <1>2 DEF CurlInv, CurlReports
  <2> QED
    BY <1>2, <1>4, <2>1, <2>2 DEF CurlReports
<1> QED
  BY <1>5, <1>6, <1>7, <1>8 DEF CurlInv

LEMMA FreeKeeps ==
  ASSUME CurlInv, FreeCtx
  PROVE  CurlInv'
<1>1. /\ at = "callback" /\ phase' = [c \in Ctxs |-> IF phase[c] = "told" THEN "freed" ELSE phase[c]]
      /\ \/ at' = "info" /\ UNCHANGED calling
         \/ at' = "loop" /\ calling' = NULL
      /\ UNCHANGED <<backend, cond, interest, pctx, batch, wanted, msgs, elsewhere, turn>>
  BY DEF FreeCtx
<1>2. \A d \in Ctxs : phase[d] # "told" => phase'[d] = phase[d]
  BY <1>1
<1>3. CurlTypes'
  BY <1>1 DEF CurlInv, CurlTypes
<1>4. CurlWatched' /\ CurlReports'
  BY <1>1, <1>2, CurlHeld DEF CurlInv, CurlWatched, CurlReports
<1>5. CurlBatched'
  BY <1>1, <1>2, CurlHeld DEF CurlInv, CurlBatched
<1> QED
  BY <1>3, <1>4, <1>5 DEF CurlInv

LEMMA CurlNextKeeps ==
  ASSUME CurlInv, [CurlNext]_curlvars
  PROVE  CurlInv'
<1>1. CASE \E c \in Ctxs : curl_async_perform(c)
  BY <1>1, PerformKeeps
<1>2. CASE Program
  BY <1>2, PerformKeeps, TurnKeeps, CurlWaitKeeps, ResultKeeps, MessageKeeps, FreeKeeps, FirstAssumption DEF Program
<1>3. CASE \E c \in Ctxs : \E evs \in SUBSET Conditions[FdOf[c]] : CurlSocket(c, evs)
  BY <1>3, SocketKeeps
<1>4. CASE CurlReturns \/ \E ask \in BOOLEAN : CurlTimer(ask)
  BY <1>4, TurnKeeps
<1>5. CASE \E c \in Ctxs : CurlDone(c)
  BY <1>5, DoneKeeps
<1>6. CASE \E f \in Fds : ConditionChanges(f) /\ UNCHANGED <<curl, timer_started_, timer, turn, at>>
  <2>1. UNCHANGED <<backend, interest, pctx, batch, calling, phase, wanted, msgs, elsewhere, turn, at>>
        /\ cond' \in [Fds -> SUBSET AnyCondition]
    BY <1>6, CondTyped DEF curl, CurlInv, CurlTypes
  <2>2. CurlTypes' /\ CurlWatched'
    BY <2>1 DEF CurlInv, CurlTypes, CurlWatched
  <2>3. CurlBatched' /\ CurlReports'
    BY <2>1 DEF CurlInv, CurlBatched, CurlReports
  <2> QED
    BY <2>2, <2>3 DEF CurlInv
<1>7. CASE UNCHANGED curlvars
  <2>1. UNCHANGED <<backend, cond, interest, pctx, batch, calling, phase, wanted, msgs, elsewhere, turn, at>>
    BY <1>7 DEF curlvars, pollvars
  <2>2. CurlTypes' /\ CurlWatched'
    BY <2>1 DEF CurlInv, CurlTypes, CurlWatched
  <2>3. CurlBatched' /\ CurlReports'
    BY <2>1 DEF CurlInv, CurlBatched, CurlReports
  <2> QED
    BY <2>2, <2>3 DEF CurlInv
<1> QED
  BY <1>1, <1>2, <1>3, <1>4, <1>5, <1>6, <1>7 DEF CurlNext

(* The looper watches what libcurl has asked for, and an event to come is  *)
(* of a transfer whose curl_ctx is not freed yet (curlasync.c:68) or that  *)
(* libcurl was done with, in these events, in a call for the socket of     *)
(* another.  This is so on epoll, for any number of transfers, connections *)
(* and events in a batch and whatever libcurl goes on with in a call.      *)
THEOREM SocketsAreWatched ==
  ASSUME CurlOnEpoll
  PROVE  CurlSpec => []WatchedAsAsked
<1>1. CurlInit => CurlInv
  BY CurlInvInit
<1>2. CurlInv /\ [CurlNext]_curlvars => CurlInv'
  BY CurlNextKeeps
<1>3. ASSUME CurlInv
      PROVE  WatchedAsAsked
  <2>1. ASSUME NEW c \in Ctxs
        PROVE  { e.events : e \in { e \in interest[FdOf[c]] : e.ctx = c } } = {wanted[c]} \ {{}}
    <3> DEFINE x == [ctx |-> c, events |-> wanted[c], once |-> FALSE]
    <3>1. CASE wanted[c] # {}
      <4>1. interest[FdOf[c]] = {x} /\ x.ctx = c /\ x.events = wanted[c]
        BY <1>3, <3>1 DEF CurlInv, CurlWatched
      <4> HIDE DEF x
      <4>2. { e \in interest[FdOf[c]] : e.ctx = c } = {x}
        BY <4>1
      <4>3. { e.events : e \in {x} } = {wanted[c]}
        BY <4>1
      <4> QED
        BY <3>1, <4>2, <4>3
    <3>2. CASE wanted[c] = {}
      <4>1. { e \in interest[FdOf[c]] : e.ctx = c } = {}
        BY <1>3, <3>2, FdOfAssumption DEF CurlInv, CurlWatched
      <4> QED
        BY <3>2, <4>1
    <3> QED
      BY <3>1, <3>2
  <2>2. \A i \in DOMAIN batch : Alive(batch[i].ctx) \/ batch[i].ctx \in elsewhere
    BY <1>3 DEF CurlInv, CurlBatched, Alive
  <2> QED
    BY <2>1, <2>2 DEF WatchedAsAsked
<1> QED
  BY <1>1, <1>2, <1>3, PTL DEF CurlSpec

(* timer_ is on the queue once when libcurl waits for a timeout and not at *)
(* all otherwise (curlasync.c:23-40, 95-113), whatever it asks for inside  *)
(* of its own callbacks.                                                   *)
THEOREM TimerIsSetOnce == CurlSpec => []TimerAsAsked
<1> DEFINE I == asks \in BOOLEAN /\ TimerAsAsked
<1>1. CurlInit => I
  BY DEF CurlInit, TimerAsAsked
<1>2. ASSUME I, [CurlNext]_curlvars
      PROVE  I'
  <2>1. CASE \E ask \in BOOLEAN : start_timeout(ask)
    <3>1. PICK ask \in BOOLEAN : start_timeout(ask)
      BY <2>1
    <3> DEFINE kept == IF timer_started_ THEN 0 ELSE timer
               set == IF ask THEN 1 ELSE 0
    <3>2. asks' = ask /\ timer_started_' = ask /\ timer' = kept + set
      BY <3>1 DEF start_timeout
    <3>3. kept = 0 /\ set \in Int
      BY <1>2 DEF TimerAsAsked
    <3> HIDE DEF kept, set
    <3>4. timer' = set
      BY <3>2, <3>3
    <3> QED
      BY <3>1, <3>2, <3>4, Zenon DEF TimerAsAsked, set
  <2>2. CASE on_timeout
    <3>1. timer > 0 /\ timer' = timer - 1 /\ timer_started_' = FALSE /\ asks' = FALSE
      BY <2>2 DEF on_timeout, StartedAfter
    <3>2. timer = 1
      BY <1>2, <3>1 DEF TimerAsAsked
    <3>3. timer' = 0
      BY <3>1, <3>2
    <3> QED
      BY <3>1, <3>3 DEF TimerAsAsked
  <2>3. CASE UNCHANGED <<asks, timer_started_, timer>>
    BY <1>2, <2>3 DEF TimerAsAsked
  <2>4. (\E ask \in BOOLEAN : start_timeout(ask)) \/ on_timeout \/ UNCHANGED <<asks, timer_started_, timer>>
    <3>1. CASE \E c \in Ctxs : curl_async_perform(c)
      BY <3>1 DEF curl_async_perform
    <3>2. CASE Program
      BY <3>1, <3>2, FirstAssumption
         DEF Program, MainLoop, TimersDone, CurlWait, on_poll_result, EventsDone, NextMessage, FreeCtx, NoMessage,
             curl, timers
    <3>3. CASE CurlNext /\ ~Program /\ ~\E c \in Ctxs : curl_async_perform(c)
      BY <3>3 DEF CurlNext, CurlSocket, CurlTimer, CurlDone, CurlReturns, curl, timers
    <3>4. CASE UNCHANGED curlvars
      BY <3>4 DEF curlvars, timers
    <3> QED
      BY <1>2, <3>1, <3>2, <3>3, <3>4
  <2> QED
    BY <2>1, <2>2, <2>3, <2>4
<1>3. I => TimerAsAsked
  OBVIOUS
<1> HIDE DEF I
<1> QED
  BY <1>1, <1>2, <1>3, PTL DEF CurlSpec

-----------------------------------------------------------------------------
(* The io calls, on epoll and on kqueue, for clients that wait for a call  *)
(* on a descriptor before they start the next one.                         *)
Future == [io : Ctxs \cup {NULL}, buflen : 0 .. MaxLen, ready : 0 .. 1,
           error : {"ok", "again", "fail"}, length : 0 .. MaxLen]

AnyHandler == (UNION { Ops[c] : c \in Ctxs }) \cup {NULL}
PollCtx == [once : BOOLEAN, cb : AnyHandler, udata : Futures \cup {NULL},
            events : SUBSET {"in", "out", "error"}]

IoTypes == TypeOK /\ pctx \in [Ctxs -> PollCtx]

Pending == { f \in Futures : client[f] = "pending" }

(* What may hold a pending call by the poll_ctx of its io_ctx: an entry, a *)
(* result in the batch, or the handler that runs.                          *)
Entered(c) == \E e \in interest[FdOf[c]] : e.ctx = c
Waiting(c) == \E i \in DOMAIN batch : batch[i].ctx = c
Running(c) == calling = c /\ ~inuser

(* A pending call has the poll_ctx of its io_ctx to itself, and its        *)
(* descriptor.                                                             *)
Owned ==
  /\ \A f \in Pending : /\ fut[f].io \in Ctxs /\ fut[f].ready = 0
                        /\ pctx[fut[f].io].udata = f
                        /\ pctx[fut[f].io].cb \in Ops[fut[f].io] /\ pctx[fut[f].io].once
  /\ \A f, g \in Pending : FdOf[fut[f].io] = FdOf[fut[g].io] => f = g

(* It is held, and by nothing else when its handler runs; with a result in *)
(* the batch kqueue has dropped the entry, and on epoll the looper is      *)
(* still to do so.                                                         *)
HeldSomewhere == \A f \in Pending :
  LET c == fut[f].io
  IN  /\ Entered(c) \/ Waiting(c) \/ Running(c)
      /\ Running(c) => ~Entered(c) /\ ~Waiting(c)
      /\ backend = "kqueue" /\ Waiting(c) => ~Entered(c)

(* What may hold a call does hold one.                                     *)
HoldsPending ==
  /\ \A fd \in Fds : \A e \in interest[fd] :
        /\ e.once = (backend = "kqueue") /\ FdOf[e.ctx] = fd
        /\ \E f \in Pending : fut[f].io = e.ctx
  /\ \A fd \in Fds : \A d, e \in interest[fd] : d = e
  /\ \A i \in DOMAIN batch : \E f \in Pending : fut[f].io = batch[i].ctx
  /\ \A i, j \in DOMAIN batch : batch[i].ctx = batch[j].ctx => i = j
  /\ calling # NULL /\ ~inuser => \E f \in Pending : fut[f].io = calling

IoInv == IoTypes /\ Owned /\ HeldSomewhere /\ HoldsPending

LEMMA IoTyped ==
  ASSUME IoTypes
  PROVE  /\ backend \in {"epoll", "kqueue"} /\ backend \in Backends
         /\ cond \in [Fds -> SUBSET AnyCondition]
         /\ interest \in [Fds -> SUBSET Entries]
         /\ pctx \in [Ctxs -> PollCtx]
         /\ batch \in Seq(Report) /\ Len(batch) <= MaxEvents
         /\ calling \in Ctxs \cup {NULL}
         /\ \A c \in Ctxs : pctx[c].cb \in Ops[c] \cup {NULL} /\ pctx[c].udata \in Futures \cup {NULL}
         /\ fut \in [Futures -> Future]
         /\ client \in [Futures -> {"free", "pending", "done", "failed"}]
         /\ inuser \in BOOLEAN /\ (inuser => calling # NULL)
BY BackendsAssumption DEF IoTypes, TypeOK, PollTypeOK, AnyCondition, Report, Future

LEMMA IoTypesFrom ==
  ASSUME (/\ backend \in Backends
          /\ cond \in [Fds -> SUBSET AnyCondition]
          /\ interest \in [Fds -> SUBSET Entries]
          /\ pctx \in [Ctxs -> PollCtx]
          /\ batch \in Seq(Report) /\ Len(batch) <= MaxEvents
          /\ calling \in Ctxs \cup {NULL}
          /\ \A c \in Ctxs : pctx[c].cb \in Ops[c] \cup {NULL} /\ pctx[c].udata \in Futures \cup {NULL}
          /\ fut \in [Futures -> Future]
          /\ client \in [Futures -> {"free", "pending", "done", "failed"}]
          /\ inuser \in BOOLEAN /\ (inuser => calling # NULL))'
  PROVE  IoTypes'
BY DEF IoTypes, TypeOK, PollTypeOK, AnyCondition, Report, Future

LEMMA IoInvInit ==
  ASSUME Init
  PROVE  IoInv
<1> USE DEF Init, PollInit
<1>1. 0 \in 0 .. MaxLen
  BY LengthsAssumption
<1>2. Pending = {}
  BY DEF Pending
<1>3. PollTypeOK
  BY CondAtFirst, MaxEventsAssumption DEF PollTypeOK, AnyCondition
<1>4. TypeOK
  <2>1. [io |-> NULL, buflen |-> 0, ready |-> 0, error |-> "ok", length |-> 0] \in Future
    BY <1>1 DEF Future
  <2>2. fut \in [Futures -> Future]
    BY <2>1
  <2>3. \A c \in Ctxs : pctx[c].cb = NULL /\ pctx[c].udata = NULL
    OBVIOUS
  <2> QED
    BY <1>3, <2>2, <2>3 DEF TypeOK, Future
<1>5. pctx \in [Ctxs -> PollCtx]
  <2>1. [once |-> FALSE, cb |-> NULL, udata |-> NULL, events |-> {}] \in PollCtx
    <3>1. NULL \in AnyHandler
      BY DEF AnyHandler
    <3> QED
      BY <3>1 DEF PollCtx
  <2> QED
    BY <2>1
<1>6. Owned /\ HeldSomewhere /\ HoldsPending
  BY <1>2 DEF Owned, HeldSomewhere, HoldsPending
<1> QED
  BY <1>4, <1>5, <1>6 DEF IoInv, IoTypes

(* The results of a batch and the entries are of contexts; who shares a    *)
(* descriptor with a pending call is that call.                            *)
LEMMA IoHeld ==
  ASSUME IoInv
  PROVE  /\ \A i \in DOMAIN batch : batch[i].ctx \in Ctxs
         /\ \A fd \in Fds : \A e \in interest[fd] : e.ctx \in Ctxs
         /\ \A f \in Pending : FdOf[fut[f].io] \in Fds /\ fut[f].io \in Ctxs /\ f \in Futures
         /\ \A f, g \in Pending : fut[f].io = fut[g].io => f = g
         /\ OneEntry
<1>1. \A i \in DOMAIN batch : batch[i].ctx \in Ctxs
  <2>1. \A i \in DOMAIN batch : batch[i] \in Report
    BY IoTyped DEF IoInv
  <2> QED
    BY <2>1 DEF Report
<1>2. ASSUME NEW fd \in Fds, NEW e \in interest[fd]
      PROVE  e.ctx \in Ctxs
  <2>1. e \in Entries
    BY IoTyped DEF IoInv
  <2> QED
    BY <2>1 DEF Entries
<1>3. \A f \in Pending : FdOf[fut[f].io] \in Fds /\ fut[f].io \in Ctxs /\ f \in Futures
  BY FdOfAssumption DEF IoInv, Owned, Pending
<1>4. \A f, g \in Pending : fut[f].io = fut[g].io => f = g
  BY DEF IoInv, Owned
<1>5. OneEntry
  BY <1>2 DEF OneEntry, IoInv, HoldsPending
<1> QED
  BY <1>1, <1>2, <1>3, <1>4, <1>5

(* Steps that leave the pending calls and what holds them alone.           *)
LEMMA NothingHeld ==
  ASSUME Owned /\ HeldSomewhere /\ HoldsPending,
         Pending' = Pending, \A f \in Pending : fut'[f] = fut[f],
         UNCHANGED <<backend, interest, pctx, batch, calling, inuser>>
  PROVE  Owned' /\ HeldSomewhere' /\ HoldsPending'
<1>1. Owned'
  BY DEF Owned
<1>2. HeldSomewhere'
  BY DEF HeldSomewhere, Entered, Waiting, Running
<1>3. HoldsPending'
  BY DEF HoldsPending
<1> QED
  BY <1>1, <1>2, <1>3

(* A call that is done or refused at once.                                 *)
Answered(f) ==
  /\ \E r \in Future : fut' = [fut EXCEPT ![f] = r]
  /\ \E d \in {"done", "failed"} : client' = [client EXCEPT ![f] = d]
  /\ UNCHANGED <<interest, pctx>>

LEMMA AnsweredKeeps ==
  ASSUME IoInv, NEW f \in Futures, client[f] # "pending", Answered(f),
         cond' \in [Fds -> SUBSET AnyCondition], UNCHANGED <<backend, batch, calling, inuser>>
  PROVE  IoInv'
<1>1. /\ fut' \in [Futures -> Future] /\ client' \in [Futures -> {"free", "pending", "done", "failed"}]
      /\ \A g \in Futures : g # f => fut'[g] = fut[g] /\ client'[g] = client[g]
      /\ client'[f] # "pending"
      /\ UNCHANGED <<interest, pctx>>
  BY IoTyped DEF Answered, IoInv
<1>2. IoTypes'
  BY <1>1, IoTyped, IoTypesFrom DEF IoInv
<1>3. Pending' = Pending /\ \A g \in Pending : fut'[g] = fut[g]
  BY <1>1 DEF Pending
<1> QED
  BY <1>1, <1>2, <1>3, NothingHeld DEF IoInv

(* The registration of a descriptor that has no entry, on either kernel.   *)
RegisterOnce(c, e, op, f) == poll_register(c, TRUE, {e}, op, f)

LEMMA RegisteredAlone ==
  ASSUME IoTypes, NEW c \in Ctxs, NEW e \in {"in", "out"}, NEW op \in Ops[c], NEW f \in Futures,
         interest[FdOf[c]] = {}, RegisterOnce(c, e, op, f)
  PROVE  /\ \A fd \in Fds : interest'[fd] =
               IF fd = FdOf[c] THEN {[ctx |-> c, events |-> {e}, once |-> backend = "kqueue"]} ELSE interest[fd]
         /\ \A d \in Ctxs : pctx'[d] =
               IF d = c THEN [once |-> TRUE, cb |-> op, udata |-> f, events |-> {}] ELSE pctx[d]
         /\ interest' \in [Fds -> SUBSET Entries] /\ pctx' \in [Ctxs -> PollCtx]
         /\ \A d \in Ctxs : pctx'[d].cb \in Ops[d] \cup {NULL} /\ pctx'[d].udata \in Futures \cup {NULL}
<1> DEFINE x == [ctx |-> c, events |-> {e}, once |-> backend = "kqueue"]
           p == [once |-> TRUE, cb |-> op, udata |-> f, events |-> {}]
<1>1. FdOf[c] \in Fds
  BY FdOfAssumption
<1>2. interest' = [interest EXCEPT ![FdOf[c]] = {x}]
  <2>1. CASE backend = "epoll"
    BY <2>1 DEF RegisterOnce, poll_register, EpollEntry
  <2>2. CASE backend = "kqueue"
    BY <2>2 DEF RegisterOnce, poll_register, KqueueEntries, KqueueFilter
  <2> QED
    BY <2>1, <2>2, IoTyped
<1>3. pctx' = [pctx EXCEPT ![c] = p]
  BY DEF RegisterOnce, poll_register
<1>4. x \in Entries /\ p \in PollCtx /\ p.cb = op /\ p.udata = f
  <2>1. op \in AnyHandler
    BY DEF AnyHandler
  <2> QED
    BY <2>1 DEF Entries, PollCtx
<1> HIDE DEF x, p
<1>5. /\ interest' \in [Fds -> SUBSET Entries] /\ pctx' \in [Ctxs -> PollCtx]
      /\ \A fd \in Fds : interest'[fd] = IF fd = FdOf[c] THEN {x} ELSE interest[fd]
      /\ \A d \in Ctxs : pctx'[d] = IF d = c THEN p ELSE pctx[d]
  BY <1>1, <1>2, <1>3, <1>4, IoTyped
<1>6. \A d \in Ctxs : pctx'[d].cb \in Ops[d] \cup {NULL} /\ pctx'[d].udata \in Futures \cup {NULL}
  BY <1>4, <1>5, IoTyped
<1> QED
  BY <1>5, <1>6 DEF x, p

(* A call that would block.                                                *)
Delayed(f, c) ==
  /\ \E r \in Future : r.io = c /\ r.ready = 0 /\ fut' = [fut EXCEPT ![f] = r]
  /\ client' = [client EXCEPT ![f] = "pending"]
  /\ \E e \in {"in", "out"}, op \in Ops[c] : RegisterOnce(c, e, op, f)

LEMMA DelayedKeeps ==
  ASSUME IoInv, NEW f \in Futures, NEW c \in Ctxs, client[f] # "pending", Delayed(f, c), Idle \/ inuser,
         \A g \in Futures : client[g] = "pending" => FdOf[fut[g].io] # FdOf[c],
         cond' \in [Fds -> SUBSET AnyCondition], UNCHANGED <<backend, batch, calling, inuser>>
  PROVE  IoInv'
<1>1. FdOf[c] \in Fds /\ \A g \in Pending : FdOf[fut[g].io] # FdOf[c] /\ fut[g].io # c /\ g # f
  BY FdOfAssumption DEF Pending
<1>2. interest[FdOf[c]] = {} /\ ~Waiting(c) /\ ~Running(c)
  <2>1. interest[FdOf[c]] = {}
    BY <1>1 DEF IoInv, HoldsPending
  <2>2. ~Waiting(c)
    BY <1>1 DEF IoInv, HoldsPending, Waiting
  <2>3. ~Running(c)
    BY NullAssumption DEF Idle, Running
  <2> QED
    BY <2>1, <2>2, <2>3
<1>3. /\ fut' \in [Futures -> Future] /\ client' \in [Futures -> {"free", "pending", "done", "failed"}]
      /\ \A g \in Futures : g # f => fut'[g] = fut[g] /\ client'[g] = client[g]
      /\ client'[f] = "pending" /\ fut'[f].io = c /\ fut'[f].ready = 0
  BY IoTyped DEF Delayed, IoInv
<1>4. PICK e \in {"in", "out"}, op \in Ops[c] : RegisterOnce(c, e, op, f)
  BY DEF Delayed
<1> DEFINE x == [ctx |-> c, events |-> {e}, once |-> backend = "kqueue"]
           p == [once |-> TRUE, cb |-> op, udata |-> f, events |-> {}]
<1>t. IoTypes
  BY DEF IoInv
<1>5. /\ \A fd \in Fds : interest'[fd] = IF fd = FdOf[c] THEN {x} ELSE interest[fd]
      /\ \A d \in Ctxs : pctx'[d] = IF d = c THEN p ELSE pctx[d]
      /\ interest' \in [Fds -> SUBSET Entries] /\ pctx' \in [Ctxs -> PollCtx]
      /\ \A d \in Ctxs : pctx'[d].cb \in Ops[d] \cup {NULL} /\ pctx'[d].udata \in Futures \cup {NULL}
  BY <1>t, <1>2, <1>4, RegisteredAlone
<1>6. x.ctx = c /\ x.once = (backend = "kqueue") /\ p.once /\ p.cb = op /\ p.udata = f
  OBVIOUS
<1> HIDE DEF x, p
<1>7. IoTypes'
  BY <1>3, <1>5, IoTyped, IoTypesFrom DEF IoInv
<1>8. /\ Pending' = Pending \cup {f}
      /\ \A g \in Pending : fut'[g] = fut[g] /\ fut[g].io \in Ctxs /\ FdOf[fut[g].io] \in Fds
  BY <1>1, <1>3, IoHeld DEF Pending
<1>9. \A g \in Pending : pctx'[fut[g].io] = pctx[fut[g].io] /\ interest'[FdOf[fut[g].io]] = interest[FdOf[fut[g].io]]
  BY <1>1, <1>5, <1>8
<1>10. Owned'
  <2>1. \A g \in Pending' : /\ fut'[g].io \in Ctxs /\ fut'[g].ready = 0
                            /\ pctx'[fut'[g].io].udata = g
                            /\ pctx'[fut'[g].io].cb \in Ops[fut'[g].io] /\ pctx'[fut'[g].io].once
    BY <1>3, <1>5, <1>6, <1>8, <1>9 DEF IoInv, Owned
  <2>2. \A g, h \in Pending' : FdOf[fut'[g].io] = FdOf[fut'[h].io] => g = h
    BY <1>1, <1>3, <1>8 DEF IoInv, Owned
  <2> QED
    BY <2>1, <2>2 DEF Owned
<1>11. HeldSomewhere'
  <2>1. Entered(c)' /\ ~Waiting(c)' /\ ~Running(c)'
    BY <1>1, <1>2, <1>5, <1>6 DEF Entered, Waiting, Running
  <2>2. ASSUME NEW g \in Pending
        PROVE  /\ Entered(fut[g].io)' <=> Entered(fut[g].io)
               /\ Waiting(fut[g].io)' <=> Waiting(fut[g].io)
               /\ Running(fut[g].io)' <=> Running(fut[g].io)
    BY <1>8, <1>9 DEF Entered, Waiting, Running
  <2> QED
    BY <1>3, <1>8, <2>1, <2>2 DEF IoInv, HeldSomewhere
<1>12. HoldsPending'
  <2>1. ASSUME NEW fd \in Fds, NEW d \in interest'[fd]
        PROVE  /\ d.once = (backend' = "kqueue") /\ FdOf[d.ctx] = fd
               /\ \E g \in Pending' : fut'[g].io = d.ctx
    <3>1. CASE fd = FdOf[c]
      BY <1>3, <1>5, <1>6, <1>8, <2>1, <3>1
    <3>2. CASE fd # FdOf[c]
      <4>1. d \in interest[fd]
        BY <1>5, <2>1, <3>2
      <4> QED
        BY <1>8, <4>1 DEF IoInv, HoldsPending
    <3> QED
      BY <3>1, <3>2
  <2>2. \A fd \in Fds : \A d, y \in interest'[fd] : d = y
    BY <1>5 DEF IoInv, HoldsPending
  <2>3. \A i \in DOMAIN batch' : \E g \in Pending' : fut'[g].io = batch'[i].ctx
    BY <1>8 DEF IoInv, HoldsPending
  <2>4. ~(calling' # NULL /\ ~inuser')
    BY DEF Idle
  <2> QED
    BY <2>1, <2>2, <2>3, <2>4 DEF IoInv, HoldsPending
<1> QED
  BY <1>7, <1>10, <1>11, <1>12 DEF IoInv

(* A handler that ends its call, and the client's callback in it.          *)
Finished(f) ==
  /\ \E r \in Future : r.ready = 1 /\ fut' = [fut EXCEPT ![f] = r]
  /\ client' = [client EXCEPT ![f] = "done"]
  /\ inuser' = TRUE
  /\ UNCHANGED <<interest, pctx, calling>>

LEMMA FinishedKeeps ==
  ASSUME IoInv, NEW f \in Pending, Running(fut[f].io), Finished(f),
         cond' \in [Fds -> SUBSET AnyCondition], UNCHANGED <<backend, batch>>
  PROVE  IoInv'
<1> DEFINE c == fut[f].io
<1>1. f \in Futures /\ c \in Ctxs /\ calling = c /\ ~Entered(c) /\ ~Waiting(c) /\ c # NULL
  BY IoHeld, NullAssumption DEF IoInv, HeldSomewhere, Running
<1>2. /\ fut' \in [Futures -> Future] /\ client' \in [Futures -> {"free", "pending", "done", "failed"}]
      /\ \A g \in Futures : g # f => fut'[g] = fut[g] /\ client'[g] = client[g]
      /\ client'[f] = "done"
  BY <1>1, IoTyped DEF Finished, IoInv
<1>3. inuser' = TRUE /\ UNCHANGED <<interest, pctx, calling>>
  BY DEF Finished
<1>4. IoTypes'
  BY <1>1, <1>2, <1>3, IoTyped, IoTypesFrom DEF IoInv
<1>5. Pending' = Pending \ {f} /\ \A g \in Pending' : fut'[g] = fut[g] /\ fut[g].io # c
  BY <1>2, IoHeld DEF Pending
<1>6. Owned'
  BY <1>3, <1>5 DEF IoInv, Owned
<1>7. HeldSomewhere'
  <2>1. \A g \in Pending' : ~Running(fut[g].io) /\ ~Running(fut[g].io)'
    BY <1>1, <1>3, <1>5 DEF Running
  <2> QED
    BY <1>3, <1>5, <2>1 DEF IoInv, HeldSomewhere, Entered, Waiting
<1>8. HoldsPending'
  <2>1. \A fd \in Fds : \A e \in interest[fd] : e.ctx # c
    BY <1>1 DEF Entered, IoInv, HoldsPending
  <2>2. \A i \in DOMAIN batch : batch[i].ctx # c
    BY <1>1 DEF Waiting
  <2>3. ASSUME NEW fd \in Fds, NEW e \in interest[fd]
        PROVE  /\ e.once = (backend = "kqueue") /\ FdOf[e.ctx] = fd
               /\ \E g \in Pending' : fut'[g].io = e.ctx
    <3>1. PICK g \in Pending : fut[g].io = e.ctx
      BY DEF IoInv, HoldsPending
    <3>2. g # f
      BY <2>1, <3>1
    <3> QED
      BY <1>5, <3>1, <3>2 DEF IoInv, HoldsPending
  <2>4. ASSUME NEW i \in DOMAIN batch
        PROVE  \E g \in Pending' : fut'[g].io = batch[i].ctx
    <3>1. PICK g \in Pending : fut[g].io = batch[i].ctx
      BY DEF IoInv, HoldsPending
    <3>2. g # f
      BY <2>2, <3>1
    <3> QED
      BY <1>5, <3>1, <3>2
  <2> QED
    BY <1>3, <2>3, <2>4 DEF IoInv, HoldsPending
<1> QED
  BY <1>4, <1>6, <1>7, <1>8 DEF IoInv

(* A handler that waits again.                                             *)
Retried(f) ==
  /\ RegisterOnce(fut[f].io, "out", pctx[calling].cb, f)
  /\ calling' = NULL
  /\ UNCHANGED <<fut, client, inuser>>

LEMMA RetriedKeeps ==
  ASSUME IoInv, NEW f \in Pending, NEW c \in Ctxs, fut[f].io = c, Running(c), Retried(f),
         cond' \in [Fds -> SUBSET AnyCondition], UNCHANGED <<backend, batch>>
  PROVE  IoInv'
<1>c. f \in Futures /\ calling = c /\ pctx[c].cb \in Ops[c]
  BY IoHeld, NullAssumption DEF IoInv, Running, Owned
<1>o. PICK e \in {"in", "out"}, op \in Ops[c] : e = "out" /\ op = pctx[c].cb
  BY <1>c
<1> DEFINE x == [ctx |-> c, events |-> {e}, once |-> backend = "kqueue"]
           p == [once |-> TRUE, cb |-> op, udata |-> f, events |-> {}]
<1>1. /\ f \in Futures /\ c \in Ctxs /\ FdOf[c] \in Fds /\ calling = c /\ c # NULL
      /\ ~Entered(c) /\ ~Waiting(c) /\ ~inuser
      /\ IoTypes
  BY IoHeld, NullAssumption DEF IoInv, HeldSomewhere, Running, Owned
<1>2. interest[FdOf[c]] = {}
  <2>1. \A g \in Pending : FdOf[fut[g].io] = FdOf[c] => fut[g].io = c
    BY DEF IoInv, Owned
  <2> QED
    BY <1>1, <2>1 DEF IoInv, HoldsPending, Entered
<1>3. calling' = NULL /\ UNCHANGED <<fut, client, inuser>> /\ RegisterOnce(c, e, op, f)
  BY <1>1, <1>o DEF Retried
<1>4. /\ \A fd \in Fds : interest'[fd] = IF fd = FdOf[c] THEN {x} ELSE interest[fd]
      /\ \A d \in Ctxs : pctx'[d] = IF d = c THEN p ELSE pctx[d]
      /\ interest' \in [Fds -> SUBSET Entries] /\ pctx' \in [Ctxs -> PollCtx]
      /\ \A d \in Ctxs : pctx'[d].cb \in Ops[d] \cup {NULL} /\ pctx'[d].udata \in Futures \cup {NULL}
  BY <1>1, <1>2, <1>3, RegisteredAlone
<1>5. x.ctx = c /\ x.once = (backend = "kqueue") /\ p.once /\ p.cb = op /\ p.udata = f
  OBVIOUS
<1> HIDE DEF x, p
<1>6. IoTypes'
  BY <1>1, <1>3, <1>4, IoTyped, IoTypesFrom
<1>7. /\ Pending' = Pending
      /\ \A g \in Pending : fut'[g] = fut[g] /\ fut[g].io \in Ctxs /\ FdOf[fut[g].io] \in Fds
      /\ \A g \in Pending : g # f => fut[g].io # c /\ FdOf[fut[g].io] # FdOf[c]
  BY <1>3, IoHeld DEF Pending, IoInv, Owned
<1>8. \A g \in Pending : g # f =>
        pctx'[fut[g].io] = pctx[fut[g].io] /\ interest'[FdOf[fut[g].io]] = interest[FdOf[fut[g].io]]
  BY <1>1, <1>4, <1>7
<1>9. Owned'
  <2>1. fut'[f].io = c /\ fut'[f].ready = 0
    BY <1>7 DEF IoInv, Owned
  <2>2. \A g \in Pending : /\ fut'[g].io \in Ctxs /\ fut'[g].ready = 0
                           /\ pctx'[fut'[g].io].udata = g
                           /\ pctx'[fut'[g].io].cb \in Ops[fut'[g].io] /\ pctx'[fut'[g].io].once
    BY <1>1, <1>4, <1>5, <1>7, <1>8, <2>1 DEF IoInv, Owned
  <2> QED
    BY <1>7, <2>2 DEF IoInv, Owned
<1>10. HeldSomewhere'
  <2>1. Entered(c)' /\ ~Waiting(c)' /\ ~Running(c)'
    BY <1>1, <1>3, <1>4, <1>5 DEF Entered, Waiting, Running
  <2>2. ASSUME NEW g \in Pending, g # f
        PROVE  /\ Entered(fut[g].io)' <=> Entered(fut[g].io)
               /\ Waiting(fut[g].io)' <=> Waiting(fut[g].io)
               /\ ~Running(fut[g].io) /\ ~Running(fut[g].io)'
    <3>1. fut'[g] = fut[g] /\ fut[g].io \in Ctxs /\ fut[g].io # c
          /\ interest'[FdOf[fut[g].io]] = interest[FdOf[fut[g].io]]
      BY <1>7, <1>8, <2>2
    <3> QED
      BY <1>1, <1>3, <3>1, NullAssumption DEF Entered, Waiting, Running
  <2>3. fut'[f].io = c
    BY <1>7
  <2> QED
    BY <1>7, <2>1, <2>2, <2>3 DEF IoInv, HeldSomewhere
<1>11. HoldsPending'
  <2>1. ASSUME NEW fd \in Fds, NEW d \in interest'[fd]
        PROVE  /\ d.once = (backend' = "kqueue") /\ FdOf[d.ctx] = fd
               /\ \E g \in Pending' : fut'[g].io = d.ctx
    <3>1. CASE fd = FdOf[c]
      BY <1>4, <1>5, <1>7, <2>1, <3>1
    <3>2. CASE fd # FdOf[c]
      <4>1. d \in interest[fd]
        BY <1>4, <2>1, <3>2
      <4> QED
        BY <1>7, <4>1 DEF IoInv, HoldsPending
    <3> QED
      BY <3>1, <3>2
  <2>2. \A fd \in Fds : \A d, y \in interest'[fd] : d = y
    BY <1>4 DEF IoInv, HoldsPending
  <2>3. \A i \in DOMAIN batch' : \E g \in Pending' : fut'[g].io = batch'[i].ctx
    BY <1>7 DEF IoInv, HoldsPending
  <2> QED
    BY <1>3, <2>1, <2>2, <2>3 DEF IoInv, HoldsPending
<1> QED
  BY <1>6, <1>9, <1>10, <1>11 DEF IoInv

LEMMA IoWaitKeeps ==
  ASSUME IoInv, Wait
  PROVE  IoInv'
<1>1. poll_looper_wait_events /\ UNCHANGED <<fut, client, inuser>>
  BY DEF Wait, ioonly
<1>2. /\ Idle /\ UNCHANGED <<backend, cond, pctx, calling>>
      /\ batch' \in Seq(Report) /\ Len(batch') <= MaxEvents
      /\ \A i \in DOMAIN batch' : \E e \in interest[FdOf[batch'[i].ctx]] : e.ctx = batch'[i].ctx
      /\ \A i, j \in DOMAIN batch' : FdOf[batch'[i].ctx] = FdOf[batch'[j].ctx] => i = j
      /\ interest' \in [Fds -> SUBSET Entries]
      /\ \A f \in Fds : interest'[f] =
            { e \in interest[f] : ~(e.once /\ \E i \in DOMAIN batch' : FdOf[batch'[i].ctx] = f) }
  BY <1>1, IoTyped, IoHeld, WaitReports DEF IoInv
<1>3. IoTypes'
  BY <1>1, <1>2, IoTyped, IoTypesFrom DEF IoInv
<1>4. /\ Pending' = Pending /\ UNCHANGED fut
      /\ \A f \in Pending : fut[f].io \in Ctxs /\ FdOf[fut[f].io] \in Fds
  BY <1>1, IoHeld DEF Pending
<1>5. Owned'
  BY <1>2, <1>4 DEF IoInv, Owned
<1>6. ASSUME NEW i \in DOMAIN batch'
      PROVE  /\ batch'[i].ctx \in Ctxs /\ FdOf[batch'[i].ctx] \in Fds
             /\ \E e \in interest[FdOf[batch'[i].ctx]] : e.ctx = batch'[i].ctx
             /\ \E f \in Pending : fut[f].io = batch'[i].ctx
  <2>1. batch'[i] \in Report
    BY <1>2
  <2>2. batch'[i].ctx \in Ctxs /\ FdOf[batch'[i].ctx] \in Fds
    BY <2>1, FdOfAssumption DEF Report
  <2>3. PICK e \in interest[FdOf[batch'[i].ctx]] : e.ctx = batch'[i].ctx
    BY <1>2
  <2>4. \E f \in Pending : fut[f].io = batch'[i].ctx
    BY <2>2, <2>3 DEF IoInv, HoldsPending
  <2> QED
    BY <2>2, <2>3, <2>4
<1>7. ASSUME NEW f \in Pending, NEW c \in Ctxs, c = fut[f].io
      PROVE  /\ Entered(c)' \/ Waiting(c)'
             /\ backend = "kqueue" /\ Waiting(c)' => ~Entered(c)'
             /\ ~Running(c)'
  <2> DEFINE P == \E i \in DOMAIN batch' : FdOf[batch'[i].ctx] = FdOf[c]
  <2>1. c \in Ctxs /\ FdOf[c] \in Fds
    BY <1>4, <1>7
  <2>2. ~Running(c) /\ ~Running(c)' /\ ~Waiting(c)
    BY <1>1, <1>2, <2>1, NullAssumption DEF Idle, Running, Waiting
  <2>3. PICK e \in interest[FdOf[c]] : e.ctx = c
    BY <1>7, <2>2 DEF IoInv, HeldSomewhere, Entered
  <2>4. interest[FdOf[c]] = {e} /\ e.once = (backend = "kqueue")
    BY <2>1, <2>3 DEF IoInv, HoldsPending
  <2>5. interest'[FdOf[c]] = { d \in interest[FdOf[c]] : ~(d.once /\ P) }
    BY <1>2, <2>1
  <2>6. P => Waiting(c)'
    <3>1. SUFFICES ASSUME NEW i \in DOMAIN batch', FdOf[batch'[i].ctx] = FdOf[c]
                   PROVE  batch'[i].ctx = c
      BY DEF Waiting
    <3>2. PICK d \in interest[FdOf[batch'[i].ctx]] : d.ctx = batch'[i].ctx
      BY <1>6
    <3> QED
      BY <2>3, <2>4, <3>1, <3>2
  <2>7. Waiting(c)' => P
    BY DEF Waiting
  <2> HIDE DEF P
  <2>8. ~P => Entered(c)'
    <3>1. ~P => e \in interest'[FdOf[c]]
      BY <2>3, <2>5
    <3> QED
      BY <2>3, <3>1 DEF Entered
  <2>9. P /\ backend = "kqueue" => ~Entered(c)'
    <3>1. P /\ backend = "kqueue" => interest'[FdOf[c]] = {}
      BY <2>4, <2>5
    <3> QED
      BY <3>1 DEF Entered
  <2> QED
    BY <2>2, <2>6, <2>7, <2>8, <2>9
<1>8. HeldSomewhere'
  BY <1>2, <1>4, <1>7 DEF HeldSomewhere
<1>9. HoldsPending'
  <2>1. \A fd \in Fds : interest'[fd] \subseteq interest[fd]
    BY <1>2
  <2>2. \A i, j \in DOMAIN batch' : batch'[i].ctx = batch'[j].ctx => i = j
    BY <1>2
  <2>3. calling' = NULL
    BY <1>2 DEF Idle
  <2> QED
    BY <1>1, <1>2, <1>4, <1>6, <2>1, <2>2, <2>3 DEF IoInv, HoldsPending
<1> QED
  BY <1>3, <1>5, <1>8, <1>9 DEF IoInv

LEMMA IoServeKeeps ==
  ASSUME IoInv, Serve
  PROVE  IoInv'
<1>1. ProcessEvent /\ UNCHANGED <<fut, client, inuser>>
  BY DEF Serve, ioonly
<1>c. PICK c \in Ctxs : c = Head(batch).ctx
  BY <1>1, IoTyped, EventTaken DEF IoInv
<1>2. /\ 1 \in DOMAIN batch /\ Head(batch) = batch[1] /\ batch[1].ctx = c
      /\ Head(batch).events \in SUBSET AnyCondition
      /\ calling = NULL /\ UNCHANGED <<backend, cond>>
      /\ batch' \in Seq(Report) /\ Len(batch') <= Len(batch)
      /\ \A i \in DOMAIN batch' : i + 1 \in DOMAIN batch /\ batch'[i] = batch[i + 1] /\ i + 1 # 1
      /\ \A i, j \in DOMAIN batch' : i + 1 = j + 1 => i = j
      /\ \A i \in DOMAIN batch : i # 1 => \E j \in DOMAIN batch' : batch'[j] = batch[i]
  BY <1>1, <1>c, IoTyped, EventTaken DEF IoInv
<1>3. PICK f \in Pending : fut[f].io = c
  BY <1>2 DEF IoInv, HoldsPending
<1>4. /\ pctx[c].cb \in Ops[c] /\ pctx[c].cb # NULL /\ pctx[c].once /\ ~inuser /\ FdOf[c] \in Fds
      /\ c # NULL
  BY <1>2, <1>3, HandlersAssumption, IoTyped, FdOfAssumption, NullAssumption DEF IoInv, Owned
<1>5. /\ pctx' = [pctx EXCEPT ![c].events = PollEvents(Head(batch).events)]
      /\ interest' = IF backend = "epoll" THEN [interest EXCEPT ![FdOf[c]] = {}] ELSE interest
      /\ calling' = c
  BY <1>1, <1>c, <1>4 DEF ProcessEvent, AfterOnce, EpollAfterOnce, EpollDelete
<1>6. PollEvents(Head(batch).events) \in SUBSET {"in", "out", "error"}
  BY DEF PollEvents, EpollEvents, KqueueEvents
<1>7. /\ pctx' \in [Ctxs -> PollCtx]
      /\ \A d \in Ctxs : pctx'[d].cb = pctx[d].cb /\ pctx'[d].udata = pctx[d].udata /\ pctx'[d].once = pctx[d].once
  <2> DEFINE r == [pctx[c] EXCEPT !.events = PollEvents(Head(batch).events)]
  <2>1. pctx \in [Ctxs -> PollCtx] /\ pctx[c] \in PollCtx
    BY <1>2, IoTyped DEF IoInv
  <2>2. r \in PollCtx /\ r.cb = pctx[c].cb /\ r.udata = pctx[c].udata /\ r.once = pctx[c].once
    BY <1>6, <2>1 DEF PollCtx
  <2>3. pctx' = [pctx EXCEPT ![c] = r]
    BY <1>5
  <2> HIDE DEF r
  <2> QED
    BY <1>2, <2>1, <2>2, <2>3
<1>8. /\ interest' \in [Fds -> SUBSET Entries]
      /\ \A fd \in Fds : fd # FdOf[c] => interest'[fd] = interest[fd]
      /\ \A fd \in Fds : interest'[fd] \subseteq interest[fd]
      /\ backend = "epoll" => interest'[FdOf[c]] = {}
  BY <1>4, <1>5, IoTyped DEF IoInv
<1>9. IoTypes'
  <2>1. Len(batch') <= MaxEvents
    BY <1>2, IoTyped, MaxEventsAssumption DEF IoInv
  <2>2. \A d \in Ctxs : pctx'[d].cb \in Ops[d] \cup {NULL} /\ pctx'[d].udata \in Futures \cup {NULL}
    BY <1>7, IoTyped DEF IoInv
  <2> QED
    BY <1>1, <1>2, <1>4, <1>5, <1>7, <1>8, <2>1, <2>2, IoTyped, IoTypesFrom DEF IoInv
<1>10. /\ Pending' = Pending /\ UNCHANGED fut
       /\ \A g \in Pending : fut[g].io \in Ctxs /\ FdOf[fut[g].io] \in Fds
       /\ \A g \in Pending : g # f => fut[g].io # c /\ FdOf[fut[g].io] # FdOf[c]
  BY <1>1, <1>3, IoHeld DEF Pending, IoInv, Owned
<1>11. Owned'
  BY <1>7, <1>10 DEF IoInv, Owned
<1>12. Running(c)' /\ ~Entered(c)' /\ ~Waiting(c)'
  <2>1. Running(c)'
    BY <1>1, <1>4, <1>5 DEF Running
  <2>2. Waiting(c)
    BY <1>2 DEF Waiting
  <2>3. ~Entered(c)'
    <3>1. CASE backend = "epoll"
      BY <1>8, <3>1 DEF Entered
    <3>2. CASE backend = "kqueue"
      <4>1. ~Entered(c)
        BY <1>3, <2>2, <3>2 DEF IoInv, HeldSomewhere
      <4> QED
        BY <1>4, <1>8, <4>1 DEF Entered
    <3> QED
      BY <3>1, <3>2, IoTyped DEF IoInv
  <2>4. ASSUME NEW i \in DOMAIN batch'
        PROVE  batch'[i].ctx # c
    <3>1. i + 1 \in DOMAIN batch /\ batch'[i] = batch[i + 1] /\ i + 1 # 1 /\ 1 \in DOMAIN batch /\ batch[1].ctx = c
      BY <1>2
    <3> QED
      BY <3>1 DEF IoInv, HoldsPending
  <2> QED
    BY <2>1, <2>3, <2>4 DEF Waiting
<1>13. ASSUME NEW g \in Pending, g # f, NEW d \in Ctxs, d = fut[g].io
       PROVE  /\ Entered(d)' <=> Entered(d)
              /\ Waiting(d)' <=> Waiting(d)
              /\ ~Running(d) /\ ~Running(d)'
  <2>1. d \in Ctxs /\ FdOf[d] \in Fds /\ d # c /\ interest'[FdOf[d]] = interest[FdOf[d]] /\ fut'[g] = fut[g]
    BY <1>8, <1>10, <1>13
  <2>2. Entered(d)' <=> Entered(d)
    BY <2>1 DEF Entered
  <2>3. ~Running(d) /\ ~Running(d)'
    BY <1>2, <1>5, <2>1, NullAssumption DEF Running
  <2>4. Waiting(d)' => Waiting(d)
    BY <1>2 DEF Waiting
  <2>5. Waiting(d) => Waiting(d)'
    <3>1. SUFFICES ASSUME NEW i \in DOMAIN batch, batch[i].ctx = d
                   PROVE  \E j \in DOMAIN batch' : batch'[j].ctx = d
      BY DEF Waiting
    <3>2. i # 1
      BY <1>2, <2>1, <3>1
    <3> QED
      BY <1>2, <3>1, <3>2
  <2> QED
    BY <2>2, <2>3, <2>4, <2>5
<1>14. HeldSomewhere'
  BY <1>2, <1>3, <1>10, <1>12, <1>13 DEF IoInv, HeldSomewhere
<1>15. HoldsPending'
  <2>1. \A i \in DOMAIN batch' : \E g \in Pending' : fut'[g].io = batch'[i].ctx
    BY <1>2, <1>10 DEF IoInv, HoldsPending
  <2>2. ASSUME NEW i \in DOMAIN batch', NEW j \in DOMAIN batch', batch'[i].ctx = batch'[j].ctx
        PROVE  i = j
    <3>1. i + 1 \in DOMAIN batch /\ j + 1 \in DOMAIN batch /\ batch[i + 1].ctx = batch[j + 1].ctx
      BY <1>2, <2>2
    <3>2. i + 1 = j + 1
      BY <3>1 DEF IoInv, HoldsPending
    <3> QED
      BY <1>2, <3>2
  <2>3. \E g \in Pending' : fut'[g].io = calling'
    BY <1>3, <1>5, <1>10
  <2> QED
    BY <1>2, <1>8, <1>10, <2>1, <2>2, <2>3 DEF IoInv, HoldsPending
<1> QED
  BY <1>9, <1>11, <1>14, <1>15 DEF IoInv

-----------------------------------------------------------------------------
(* What the calls and the handlers do is one of these.                     *)
LEMMA ConditionsKept ==
  ASSUME IoTypes, NEW c \in Ctxs, NEW e, NEW r, NEW n, Consumes(c, e, r, n)
  PROVE  cond' \in [Fds -> SUBSET AnyCondition]
<1>1. FdOf[c] \in Fds
  BY FdOfAssumption
<1>2. CASE UNCHANGED cond
  BY <1>2, IoTyped
<1>3. CASE cond' = [cond EXCEPT ![FdOf[c]] = @ \ {e}]
  BY <1>1, <1>3, IoTyped
<1> QED
  BY <1>2, <1>3 DEF Consumes

LEMMA Amounts ==
  ASSUME NEW c \in Ctxs, NEW n \in 0 .. MaxLen
  PROVE  /\ \A r \in Incoming(c, n) : r \in 0 .. MaxLen \/ r = Again \/ r = Failed
         /\ \A r \in Whole(c, n) : r = n \/ r = Again \/ r = Failed
         /\ \A r \in Outgoing(c, n) : r \in 0 .. n \/ r = Again \/ r = Failed
<1>1. MaxLen \in Nat /\ n \in Nat /\ n <= MaxLen
  BY LengthsAssumption
<1>2. \A r \in Incoming(c, n) : r \in 0 .. MaxLen \/ r = Again \/ r = Failed
  BY <1>1 DEF Incoming
<1>3. \A r \in Whole(c, n) : r = n \/ r = Again \/ r = Failed
  BY DEF Whole
<1>4. \A r \in Outgoing(c, n) : r \in 1 .. n \/ r \in Whole(c, n)
  <2> HIDE DEF Whole
  <2> QED
    BY DEF Outgoing
<1> QED
  BY <1>1, <1>2, <1>3, <1>4

LEMMA OkAnswers ==
  ASSUME IoTypes, NEW f \in Futures, NEW len \in 0 .. MaxLen, return_ok(f, len)
  PROVE  Answered(f)
<1> DEFINE r == [fut[f] EXCEPT !.length = len, !.ready = 1, !.error = "ok"]
<1>1. fut[f] \in Future /\ fut \in [Futures -> Future]
  BY IoTyped
<1>2. r \in Future
  <2> DEFINE a == [fut[f] EXCEPT !.length = len]
             b == [a EXCEPT !.ready = 1]
  <2>1. a \in Future
    BY <1>1 DEF Future
  <2> HIDE DEF a
  <2>2. b \in Future
    BY <2>1 DEF Future
  <2> HIDE DEF b
  <2>3. [b EXCEPT !.error = "ok"] \in Future
    BY <2>2 DEF Future
  <2> QED
    BY <2>3 DEF a, b
<1>3. fut' = [fut EXCEPT ![f] = r]
  BY <1>1 DEF return_ok
<1> QED
  BY <1>2, <1>3 DEF return_ok, Answered, Unregistered

LEMMA ErrorAnswers ==
  ASSUME IoTypes, NEW f \in Futures, NEW n, return_error(f, n)
  PROVE  Answered(f)
<1> DEFINE r == [fut[f] EXCEPT !.ready = 1, !.error = Code(n)]
<1>1. fut[f] \in Future /\ fut \in [Futures -> Future]
  BY IoTyped
<1>2. r \in Future
  <2> DEFINE a == [fut[f] EXCEPT !.ready = 1]
             code == Code(n)
  <2>1. a \in Future
    BY <1>1 DEF Future
  <2>2. code \in {"ok", "again", "fail"}
    BY DEF Code
  <2> HIDE DEF a, code
  <2>3. [a EXCEPT !.error = code] \in Future
    BY <2>1, <2>2 DEF Future
  <2> QED
    BY <2>3 DEF a, code
<1>3. fut' = [fut EXCEPT ![f] = r]
  BY <1>1 DEF return_error
<1> QED
  BY <1>2, <1>3 DEF return_error, Answered, Unregistered

LEMMA ReturnAnswers ==
  ASSUME IoTypes, NEW f \in Futures, ReturnOnly(f)
  PROVE  Answered(f)
<1>1. fut[f] \in Future /\ fut \in [Futures -> Future]
  BY IoTyped
<1>2. fut' = [fut EXCEPT ![f] = fut[f]]
  BY <1>1 DEF ReturnOnly
<1> QED
  BY <1>1, <1>2 DEF ReturnOnly, Answered, Unregistered

LEMMA PendsDelays ==
  ASSUME IoTypes, NEW f \in Futures, NEW c \in Ctxs, NEW e \in {"in", "out"}, NEW op \in Ops[c],
         NEW len \in 0 .. MaxLen, NEW rest \in 0 .. MaxLen, Pends(f, c, e, op, len, rest)
  PROVE  Delayed(f, c)
<1> DEFINE r == [fut[f] EXCEPT !.io = c, !.length = len, !.buflen = rest, !.ready = 0]
<1>1. fut[f] \in Future /\ fut \in [Futures -> Future]
  BY IoTyped
<1>2. r \in Future /\ r.io = c /\ r.ready = 0
  <2> DEFINE a == [fut[f] EXCEPT !.io = c]
             b == [a EXCEPT !.length = len]
             d == [b EXCEPT !.buflen = rest]
  <2>1. a \in Future /\ a.io = c
    BY <1>1 DEF Future
  <2> HIDE DEF a
  <2>2. b \in Future /\ b.io = c
    BY <2>1 DEF Future
  <2> HIDE DEF b
  <2>3. d \in Future /\ d.io = c
    BY <2>2 DEF Future
  <2> HIDE DEF d
  <2>4. [d EXCEPT !.ready = 0] \in Future /\ [d EXCEPT !.ready = 0].io = c /\ [d EXCEPT !.ready = 0].ready = 0
    BY <2>3 DEF Future
  <2> QED
    BY <2>4 DEF a, b, d
<1>3. fut' = [fut EXCEPT ![f] = r]
  BY <1>1 DEF Pends
<1>4. RegisterOnce(c, e, op, f)
  BY DEF Pends, RegisterOnce, Once
<1> QED
  BY <1>2, <1>3, <1>4 DEF Pends, Delayed

(* A call of a client that waits for the others on the descriptor.         *)
LEMMA CallKeeps ==
  ASSUME IoInv, OneAtATime, NEW f \in Futures, NEW c \in Ctxs, NEW op, NEW n, Call(op, f, c, n),
         cond' \in [Fds -> SUBSET AnyCondition], Answered(f) \/ Delayed(f, c)
  PROVE  IoInv'
<1>1. /\ Idle \/ inuser
      /\ client[f] # "pending"
      /\ \A g \in Futures : client[g] = "pending" => FdOf[fut[g].io] # FdOf[c]
      /\ UNCHANGED <<backend, batch, calling, inuser>>
  BY DEF Call
<1> QED
  BY <1>1, AnsweredKeeps, DelayedKeeps

LEMMA StreamInKeeps ==
  ASSUME IoInv, OneAtATime, NEW f \in Futures, NEW c \in Ctxs, NEW op, NEW n \in 0 .. MaxLen,
         StreamIn(op, f, c, n)
  PROVE  IoInv'
<1>t. IoTypes /\ op \in Ops[c] /\ Call(op, f, c, n) /\ fut[f].length \in 0 .. MaxLen
  BY IoTyped DEF IoInv, StreamIn, Call, Future
<1>1. PICK r \in Incoming(c, n) :
        /\ Consumes(c, "in", r, n)
        /\ CASE r >= 0 -> return_ok(f, r)
             [] r = Again -> Pends(f, c, "in", op, fut[f].length, n)
             [] r = Failed -> return_error(f, r)
  BY DEF StreamIn
<1>2. cond' \in [Fds -> SUBSET AnyCondition]
  BY <1>t, <1>1, ConditionsKept
<1>3. CASE r \in 0 .. MaxLen
  <2>a. r >= 0 /\ r # Again /\ r # Failed
    BY <1>3, LengthsAssumption DEF Again, Failed
  <2>1. return_ok(f, r)
    BY <1>1, <2>a
  <2> QED
    BY <1>t, <1>2, <1>3, <2>1, OkAnswers, CallKeeps
<1>4. CASE r = Again
  <2>1. Pends(f, c, "in", op, fut[f].length, n)
    BY <1>1, <1>4 DEF Again, Failed
  <2> QED
    BY <1>t, <1>2, <2>1, PendsDelays, CallKeeps
<1>5. CASE r = Failed
  <2>1. return_error(f, r)
    BY <1>1, <1>5 DEF Again, Failed
  <2> QED
    BY <1>t, <1>2, <2>1, ErrorAnswers, CallKeeps
<1> QED
  BY <1>3, <1>4, <1>5, Amounts

LEMMA StreamOutKeeps ==
  ASSUME IoInv, OneAtATime, NEW f \in Futures, NEW c \in Ctxs, NEW op, NEW n \in 1 .. MaxLen,
         StreamOut(op, f, c, n)
  PROVE  IoInv'
<1>t. IoTypes /\ op \in Ops[c] /\ Call(op, f, c, n) /\ n \in 0 .. MaxLen /\ n \in Nat /\ MaxLen \in Nat
  BY LengthsAssumption DEF IoInv, StreamOut, Call
<1>1. PICK r \in Outgoing(c, n) :
        /\ Consumes(c, "out", r, n)
        /\ CASE r = n -> return_ok(f, n)
             [] r >= 0 /\ r < n -> Pends(f, c, "out", op, n, n - r)
             [] r < 0 -> return_error(f, r)
  BY DEF StreamOut
<1>2. cond' \in [Fds -> SUBSET AnyCondition]
  BY <1>t, <1>1, ConditionsKept
<1>3. CASE r = n
  <2>a. ~(r >= 0 /\ r < n) /\ ~(r < 0)
    BY <1>t, <1>3
  <2>1. return_ok(f, n)
    BY <1>1, <1>3, <2>a
  <2> QED
    BY <1>t, <1>2, <2>1, OkAnswers, CallKeeps
<1>4. CASE r \in 0 .. n /\ r # n
  <2>a. r >= 0 /\ r < n /\ ~(r < 0) /\ n - r \in 0 .. MaxLen
    BY <1>t, <1>4
  <2>1. Pends(f, c, "out", op, n, n - r)
    BY <1>1, <1>4, <2>a
  <2> QED
    BY <1>t, <1>2, <2>a, <2>1, PendsDelays, CallKeeps
<1>5. CASE r = Again \/ r = Failed
  <2>a. r < 0 /\ r # n /\ ~(r >= 0 /\ r < n)
    BY <1>t, <1>5 DEF Again, Failed
  <2>1. return_error(f, r)
    BY <1>1, <2>a
  <2> QED
    BY <1>t, <1>2, <2>1, ErrorAnswers, CallKeeps
<1> QED
  BY <1>t, <1>3, <1>4, <1>5, Amounts

LEMMA SendtoKeeps ==
  ASSUME IoInv, OneAtATime, NEW f \in Futures, NEW c \in Ctxs, NEW n \in 0 .. MaxLen,
         io_async_sendto(f, c, n)
  PROVE  IoInv'
<1>t. IoTypes /\ "sendto" \in Ops[c] /\ Call("sendto", f, c, n) /\ fut[f].length \in 0 .. MaxLen
  BY IoTyped DEF IoInv, io_async_sendto, Call, Future
<1>1. PICK r \in Whole(c, n) :
        /\ Consumes(c, "out", r, n)
        /\ CASE r >= 0 -> return_ok(f, r)
             [] r = Again -> Pends(f, c, "out", "sendto", fut[f].length, n)
             [] r = Failed -> ReturnOnly(f)
  BY DEF io_async_sendto
<1>2. cond' \in [Fds -> SUBSET AnyCondition]
  BY <1>t, <1>1, ConditionsKept
<1>3. CASE r = n
  <2>a. r >= 0 /\ r # Again /\ r # Failed
    BY <1>3, LengthsAssumption DEF Again, Failed
  <2>1. return_ok(f, r)
    BY <1>1, <2>a
  <2> QED
    BY <1>t, <1>2, <1>3, <2>1, OkAnswers, CallKeeps
<1>4. CASE r = Again
  <2>1. Pends(f, c, "out", "sendto", fut[f].length, n)
    BY <1>1, <1>4 DEF Again, Failed
  <2> QED
    BY <1>t, <1>2, <2>1, PendsDelays, CallKeeps
<1>5. CASE r = Failed
  <2>1. ReturnOnly(f)
    BY <1>1, <1>5 DEF Again, Failed
  <2> QED
    BY <1>t, <1>2, <2>1, ReturnAnswers, CallKeeps
<1> QED
  BY <1>3, <1>4, <1>5, Amounts

LEMMA ConnectKeeps ==
  ASSUME IoInv, OneAtATime, NEW f \in Futures, NEW c \in Ctxs, io_async_connect(f, c)
  PROVE  IoInv'
<1>t. /\ IoTypes /\ "connect" \in Ops[c] /\ Call("connect", f, c, 0)
      /\ fut[f].length \in 0 .. MaxLen /\ fut[f].buflen \in 0 .. MaxLen
      /\ cond' \in [Fds -> SUBSET AnyCondition]
  BY IoTyped DEF IoInv, io_async_connect, Call, Future
<1>1. CASE return_ok(f, fut[f].length)
  BY <1>t, <1>1, OkAnswers, CallKeeps
<1>2. CASE return_error(f, Failed)
  BY <1>t, <1>2, ErrorAnswers, CallKeeps
<1>3. CASE Pends(f, c, "out", "connect", fut[f].length, fut[f].buflen)
  BY <1>t, <1>3, PendsDelays, CallKeeps
<1> QED
  BY <1>1, <1>2, <1>3 DEF io_async_connect

LEMMA AcceptKeeps ==
  ASSUME IoInv, OneAtATime, NEW f \in Futures, NEW c \in Ctxs, io_async_accept(f, c)
  PROVE  IoInv'
<1>t. /\ IoTypes /\ "accept" \in Ops[c] /\ Call("accept", f, c, 0) /\ 0 \in 0 .. MaxLen
      /\ fut[f].length \in 0 .. MaxLen /\ fut[f].buflen \in 0 .. MaxLen
  BY IoTyped, LengthsAssumption DEF IoInv, io_async_accept, Call, Future
<1>1. PICK r \in Incoming(c, 0) :
        /\ Consumes(c, "in", r, 0)
        /\ CASE r >= 0 -> return_ok(f, fut[f].length)
             [] r = Again -> Pends(f, c, "in", "accept", fut[f].length, fut[f].buflen)
             [] r = Failed -> return_error(f, r)
  BY DEF io_async_accept
<1>2. cond' \in [Fds -> SUBSET AnyCondition]
  BY <1>t, <1>1, ConditionsKept
<1>3. CASE r \in 0 .. MaxLen
  <2>a. r >= 0 /\ r # Again /\ r # Failed
    BY <1>3, LengthsAssumption DEF Again, Failed
  <2>1. return_ok(f, fut[f].length)
    BY <1>1, <2>a
  <2> QED
    BY <1>t, <1>2, <2>1, OkAnswers, CallKeeps
<1>4. CASE r = Again
  <2>1. Pends(f, c, "in", "accept", fut[f].length, fut[f].buflen)
    BY <1>1, <1>4 DEF Again, Failed
  <2> QED
    BY <1>t, <1>2, <2>1, PendsDelays, CallKeeps
<1>5. CASE r = Failed
  <2>1. return_error(f, r)
    BY <1>1, <1>5 DEF Again, Failed
  <2> QED
    BY <1>t, <1>2, <2>1, ErrorAnswers, CallKeeps
<1> QED
  BY <1>t, <1>3, <1>4, <1>5, Amounts

LEMMA FileCallKeeps ==
  ASSUME IoInv, OneAtATime, NEW f \in Futures, NEW c \in Ctxs, NEW op, NEW n,
         NEW L \in SUBSET (0 .. MaxLen), FileCall(op, f, c, n, L)
  PROVE  IoInv'
<1>t. IoTypes /\ Call(op, f, c, n) /\ cond' \in [Fds -> SUBSET AnyCondition]
  BY IoTyped DEF IoInv, FileCall
<1>1. CASE \E r \in L : return_ok(f, r)
  BY <1>t, <1>1, OkAnswers, CallKeeps
<1>2. CASE return_error(f, Failed)
  BY <1>t, <1>2, ErrorAnswers, CallKeeps
<1> QED
  BY <1>1, <1>2 DEF FileCall

(* The future that a handler is given is that of a pending call.           *)
LEMMA HandlerServes ==
  ASSUME IoInv, NEW f \in Futures, NEW op, Handler(op, f)
  PROVE  /\ f \in Pending /\ client[f] = "pending" /\ calling = fut[f].io /\ fut[f].io \in Ctxs
         /\ Running(fut[f].io) /\ pctx[calling].cb = op /\ f = pctx[calling].udata
         /\ fut[f].buflen \in 0 .. MaxLen /\ fut[f].length \in 0 .. MaxLen
         /\ UNCHANGED <<backend, batch>>
<1>1. /\ calling # NULL /\ ~inuser /\ pctx[calling].cb = op /\ f = pctx[calling].udata
      /\ UNCHANGED <<backend, batch>>
  BY DEF Handler
<1>2. PICK g \in Pending : fut[g].io = calling
  BY <1>1 DEF IoInv, HoldsPending
<1>3. g = f
  BY <1>1, <1>2 DEF IoInv, Owned
<1>4. fut[f] \in Future
  BY IoTyped DEF IoInv
<1>5. fut[f].buflen \in 0 .. MaxLen /\ fut[f].length \in 0 .. MaxLen
  BY <1>4 DEF Future
<1> QED
  BY <1>1, <1>2, <1>3, <1>5, IoHeld DEF Running, Pending

LEMMA CompletesFinishes ==
  ASSUME IoTypes, NEW f \in Futures, NEW error \in {"ok", "again", "fail"}, NEW len \in 0 .. MaxLen,
         Completes(f, error, len)
  PROVE  Finished(f)
<1> DEFINE r == [fut[f] EXCEPT !.error = error, !.length = len, !.ready = 1]
<1>1. fut[f] \in Future /\ fut \in [Futures -> Future]
  BY IoTyped
<1>2. r \in Future /\ r.ready = 1
  <2> DEFINE a == [fut[f] EXCEPT !.error = error]
             b == [a EXCEPT !.length = len]
  <2>1. a \in Future
    BY <1>1 DEF Future
  <2> HIDE DEF a
  <2>2. b \in Future
    BY <2>1 DEF Future
  <2> HIDE DEF b
  <2>3. [b EXCEPT !.ready = 1] \in Future /\ [b EXCEPT !.ready = 1].ready = 1
    BY <2>2 DEF Future
  <2> QED
    BY <2>3 DEF a, b
<1>3. fut' = [fut EXCEPT ![f] = r]
  BY <1>1 DEF Completes
<1> QED
  BY <1>2, <1>3 DEF Completes, Finished

(* What the handlers do to their future: finish it, or register again.     *)
Handled(f) ==
  /\ f \in Pending /\ calling = fut[f].io /\ Running(fut[f].io) /\ f = pctx[calling].udata
  /\ cond' \in [Fds -> SUBSET AnyCondition]
  /\ UNCHANGED <<backend, batch>>
  /\ Finished(f) \/ Retried(f)

LEMMA InHandled ==
  ASSUME IoInv, NEW f \in Futures, NEW op, io_handle_in(op, f)
  PROVE  Handled(f)
<1>1. Handler(op, f)
  BY DEF io_handle_in
<1>2. PICK r \in Incoming(fut[f].io, fut[f].buflen) :
        /\ Consumes(fut[f].io, "in", r, 0)
        /\ Completes(f, Code(r), ReadLength(op, f, r))
  BY DEF io_handle_in
<1>3. Code(r) \in {"ok", "again", "fail"}
  BY DEF Code
<1>4. ReadLength(op, f, r) \in 0 .. MaxLen
  BY <1>1, <1>2, HandlerServes, Amounts, LengthsAssumption DEF ReadLength, Again, Failed
<1>5. Finished(f)
  BY <1>2, <1>3, <1>4, CompletesFinishes DEF IoInv
<1>6. cond' \in [Fds -> SUBSET AnyCondition]
  BY <1>1, <1>2, HandlerServes, ConditionsKept DEF IoInv
<1> QED
  BY <1>1, <1>5, <1>6, HandlerServes DEF Handled

LEMMA OutHandled ==
  ASSUME IoInv, NEW f \in Futures, NEW op, io_handle_out(op, f)
  PROVE  Handled(f)
<1>1. Handler(op, f)
  BY DEF io_handle_out
<1>2. PICK r \in Outgoing(fut[f].io, fut[f].buflen) :
        /\ Consumes(fut[f].io, "out", r, fut[f].buflen)
        /\ IF r = fut[f].buflen \/ r < 0
             THEN Completes(f, Code(r), fut[f].length)
             ELSE /\ poll_register(fut[f].io, Once, {"out"}, op, f)
                  /\ calling' = NULL
                  /\ UNCHANGED <<fut, client, inuser>>
  BY DEF io_handle_out
<1>3. Code(r) \in {"ok", "again", "fail"}
  BY DEF Code
<1>4. ASSUME r = fut[f].buflen \/ r < 0
      PROVE  Finished(f)
  <2>1. Completes(f, Code(r), fut[f].length)
    BY <1>2, <1>4
  <2> QED
    BY <1>1, <1>3, <2>1, CompletesFinishes, HandlerServes DEF IoInv
<1>5. ASSUME ~(r = fut[f].buflen \/ r < 0)
      PROVE  Retried(f)
  <2>1. /\ poll_register(fut[f].io, Once, {"out"}, op, f)
        /\ calling' = NULL /\ UNCHANGED <<fut, client, inuser>>
    BY <1>2, <1>5
  <2>2. op = pctx[calling].cb
    BY <1>1, HandlerServes
  <2> QED
    BY <2>1, <2>2 DEF Retried, RegisterOnce, Once
<1>6. cond' \in [Fds -> SUBSET AnyCondition]
  BY <1>1, <1>2, HandlerServes, ConditionsKept DEF IoInv
<1>7. Finished(f) \/ Retried(f)
  BY <1>4, <1>5
<1> QED
  BY <1>1, <1>6, <1>7, HandlerServes DEF Handled

LEMMA SendtoHandled ==
  ASSUME IoInv, NEW f \in Futures, io_handle_sendto(f)
  PROVE  Handled(f)
<1>1. Handler("sendto", f)
  BY DEF io_handle_sendto
<1>2. PICK r \in Whole(fut[f].io, fut[f].buflen) :
        /\ Consumes(fut[f].io, "out", r, fut[f].buflen)
        /\ Completes(f, Code(r), IF r >= 0 THEN r ELSE fut[f].length)
  BY DEF io_handle_sendto
<1> DEFINE len == IF r >= 0 THEN r ELSE fut[f].length
<1>3. Code(r) \in {"ok", "again", "fail"}
  BY DEF Code
<1>4. len \in 0 .. MaxLen
  BY <1>1, <1>2, HandlerServes, Amounts, LengthsAssumption DEF Again, Failed
<1>5. Completes(f, Code(r), len)
  BY <1>2
<1> HIDE DEF len
<1>6. Finished(f)
  BY <1>3, <1>4, <1>5, CompletesFinishes DEF IoInv
<1>7. cond' \in [Fds -> SUBSET AnyCondition]
  BY <1>1, <1>2, HandlerServes, ConditionsKept DEF IoInv
<1> QED
  BY <1>1, <1>6, <1>7, HandlerServes DEF Handled

LEMMA ConnectHandled ==
  ASSUME IoInv, NEW f \in Futures, io_handle_connect(f)
  PROVE  Handled(f)
<1> DEFINE error == IF "error" \in pctx[fut[f].io].events THEN "fail" ELSE "ok"
<1>1. Handler("connect", f) /\ Completes(f, error, fut[f].length) /\ UNCHANGED cond
  BY DEF io_handle_connect
<1>2. error \in {"ok", "again", "fail"}
  OBVIOUS
<1> HIDE DEF error
<1>3. Finished(f)
  BY <1>1, <1>2, HandlerServes, CompletesFinishes DEF IoInv
<1>4. cond' \in [Fds -> SUBSET AnyCondition]
  BY <1>1, IoTyped DEF IoInv
<1> QED
  BY <1>1, <1>3, <1>4, HandlerServes DEF Handled

LEMMA AcceptHandled ==
  ASSUME IoInv, NEW f \in Futures, io_handle_accept(f)
  PROVE  Handled(f)
<1>1. Handler("accept", f)
  BY DEF io_handle_accept
<1>2. PICK r \in Incoming(fut[f].io, 0) :
        /\ Consumes(fut[f].io, "in", r, 0)
        /\ Completes(f, Code(r), fut[f].length)
  BY DEF io_handle_accept
<1>3. Code(r) \in {"ok", "again", "fail"}
  BY DEF Code
<1>4. Finished(f)
  BY <1>1, <1>2, <1>3, HandlerServes, CompletesFinishes DEF IoInv
<1>5. cond' \in [Fds -> SUBSET AnyCondition]
  BY <1>1, <1>2, HandlerServes, ConditionsKept DEF IoInv
<1> QED
  BY <1>1, <1>4, <1>5, HandlerServes DEF Handled

LEMMA AllHandled ==
  ASSUME IoInv, Handles
  PROVE  \E f \in Futures : Handled(f)
<1>1. PICK f \in Futures : \/ io_handle_read(f)
                           \/ io_handle_write(f)
                           \/ io_handle_connect(f)
                           \/ io_handle_accept(f)
                           \/ io_handle_recv(f)
                           \/ io_handle_send(f)
                           \/ io_handle_recvfrom(f)
                           \/ io_handle_sendto(f)
  BY DEF Handles
<1>2. CASE io_handle_read(f) \/ io_handle_recv(f) \/ io_handle_recvfrom(f)
  BY <1>2, InHandled DEF io_handle_read, io_handle_recv, io_handle_recvfrom
<1>3. CASE io_handle_write(f) \/ io_handle_send(f)
  BY <1>3, OutHandled DEF io_handle_write, io_handle_send
<1>4. CASE io_handle_connect(f) \/ io_handle_accept(f) \/ io_handle_sendto(f)
  BY <1>4, ConnectHandled, AcceptHandled, SendtoHandled
<1> QED
  BY <1>1, <1>2, <1>3, <1>4

LEMMA HandledKeeps ==
  ASSUME IoInv, NEW f \in Futures, Handled(f)
  PROVE  IoInv'
<1>1. f \in Pending /\ Running(fut[f].io) /\ fut[f].io \in Ctxs
  BY IoHeld DEF Handled
<1>2. CASE Finished(f)
  BY <1>1, <1>2, FinishedKeeps DEF Handled
<1>3. CASE Retried(f)
  BY <1>1, <1>3, RetriedKeeps DEF Handled
<1> QED
  BY <1>2, <1>3 DEF Handled

LEMMA StartsKeep ==
  ASSUME IoInv, OneAtATime, Starts
  PROVE  IoInv'
<1>1. SUFFICES ASSUME NEW f \in Futures, NEW c \in Uses[f],
                      \/ \E n \in InLengths : \/ io_async_read(f, c, n)
                                              \/ io_async_recv(f, c, n)
                                              \/ io_async_recvfrom(f, c, n)
                                              \/ io_async_read_file(f, c, n)
                      \/ \E n \in OutLengths : \/ io_async_write(f, c, n)
                                               \/ io_async_send(f, c, n)
                                               \/ io_async_sendto(f, c, n)
                                               \/ io_async_write_file(f, c, n)
                      \/ io_async_connect(f, c)
                      \/ io_async_accept(f, c)
               PROVE  IoInv'
  BY DEF Starts
<1>2. c \in Ctxs
  BY UsesAssumption
<1>3. \A n \in InLengths \cup OutLengths : n \in 1 .. MaxLen /\ n \in 0 .. MaxLen
                                            /\ 0 .. n \subseteq 0 .. MaxLen /\ {n} \subseteq 0 .. MaxLen
  BY LengthsAssumption
<1>4. ASSUME NEW n \in InLengths, io_async_read(f, c, n) \/ io_async_recv(f, c, n) \/ io_async_recvfrom(f, c, n)
      PROVE  IoInv'
  BY <1>2, <1>3, <1>4, StreamInKeeps DEF io_async_read, io_async_recv, io_async_recvfrom
<1>5. ASSUME NEW n \in OutLengths, io_async_write(f, c, n) \/ io_async_send(f, c, n)
      PROVE  IoInv'
  BY <1>2, <1>3, <1>5, StreamOutKeeps DEF io_async_write, io_async_send
<1>6. ASSUME NEW n \in OutLengths, io_async_sendto(f, c, n)
      PROVE  IoInv'
  BY <1>2, <1>3, <1>6, SendtoKeeps
<1>7. ASSUME NEW n \in InLengths, io_async_read_file(f, c, n)
      PROVE  IoInv'
  BY <1>2, <1>3, <1>7, FileCallKeeps DEF io_async_read_file
<1>8. ASSUME NEW n \in OutLengths, io_async_write_file(f, c, n)
      PROVE  IoInv'
  BY <1>2, <1>3, <1>8, FileCallKeeps DEF io_async_write_file
<1> QED
  BY <1>1, <1>2, <1>4, <1>5, <1>6, <1>7, <1>8, ConnectKeeps, AcceptKeeps

(* Whatever the call, it is made outside of the loop or in a callback of a *)
(* client, which goes on.                                                  *)
LEMMA StartsOutside ==
  ASSUME Starts
  PROVE  (Idle \/ inuser) /\ inuser' = inuser
<1>1. SUFFICES ASSUME NEW f \in Futures, NEW c \in Uses[f],
                      \/ \E n \in InLengths : \/ io_async_read(f, c, n)
                                              \/ io_async_recv(f, c, n)
                                              \/ io_async_recvfrom(f, c, n)
                                              \/ io_async_read_file(f, c, n)
                      \/ \E n \in OutLengths : \/ io_async_write(f, c, n)
                                               \/ io_async_send(f, c, n)
                                               \/ io_async_sendto(f, c, n)
                                               \/ io_async_write_file(f, c, n)
                      \/ io_async_connect(f, c)
                      \/ io_async_accept(f, c)
               PROVE  (Idle \/ inuser) /\ inuser' = inuser
  BY DEF Starts
<1>2. \A op, n : Call(op, f, c, n) => (Idle \/ inuser) /\ inuser' = inuser
  BY DEF Call
<1>3. \A op, n, L : StreamIn(op, f, c, n) \/ StreamOut(op, f, c, n) \/ FileCall(op, f, c, n, L) => Call(op, f, c, n)
  BY DEF StreamIn, StreamOut, FileCall
<1>4. \A n : io_async_sendto(f, c, n) => Call("sendto", f, c, n)
  BY DEF io_async_sendto
<1>5. CASE io_async_connect(f, c) \/ io_async_accept(f, c)
  BY <1>2, <1>5 DEF io_async_connect, io_async_accept
<1>6. CASE \E n \in InLengths : \/ io_async_read(f, c, n)
                                \/ io_async_recv(f, c, n)
                                \/ io_async_recvfrom(f, c, n)
                                \/ io_async_read_file(f, c, n)
  BY <1>2, <1>3, <1>6 DEF io_async_read, io_async_recv, io_async_recvfrom, io_async_read_file
<1>7. CASE \E n \in OutLengths : \/ io_async_write(f, c, n)
                                 \/ io_async_send(f, c, n)
                                 \/ io_async_sendto(f, c, n)
                                 \/ io_async_write_file(f, c, n)
  BY <1>2, <1>3, <1>4, <1>7 DEF io_async_write, io_async_send, io_async_write_file
<1> QED
  BY <1>1, <1>5, <1>6, <1>7

(* The client's callback is over; the network; nothing.                    *)
LEMMA ReturnKeeps ==
  ASSUME IoInv, ClientReturns
  PROVE  IoInv'
<1>1. /\ inuser /\ inuser' = FALSE /\ calling # NULL /\ calling' = NULL
      /\ UNCHANGED <<backend, cond, interest, pctx, batch, fut, client>>
  BY DEF ClientReturns, CallbackReturns
<1>2. IoTypes'
  BY <1>1, IoTyped, IoTypesFrom DEF IoInv
<1>3. Pending' = Pending
  BY <1>1 DEF Pending
<1>4. \A f \in Pending : fut[f].io # NULL
  BY IoHeld, NullAssumption
<1>5. Owned'
  BY <1>1, <1>3 DEF IoInv, Owned
<1>6. HeldSomewhere'
  BY <1>1, <1>3, <1>4 DEF IoInv, HeldSomewhere, Entered, Waiting, Running
<1>7. HoldsPending'
  BY <1>1, <1>3 DEF IoInv, HoldsPending
<1> QED
  BY <1>2, <1>5, <1>6, <1>7 DEF IoInv

LEMMA NetworkKeeps ==
  ASSUME IoInv, cond' \in [Fds -> SUBSET AnyCondition],
         UNCHANGED <<backend, interest, pctx, batch, calling, fut, client, inuser>>
  PROVE  IoInv'
<1>1. IoTypes'
  BY IoTyped, IoTypesFrom DEF IoInv
<1>2. Pending' = Pending /\ \A f \in Pending : fut'[f] = fut[f]
  BY DEF Pending
<1> QED
  BY <1>1, <1>2, NothingHeld DEF IoInv

LEMMA IoNextKeeps ==
  ASSUME IoInv, OneAtATime, [Next]_vars
  PROVE  IoInv'
<1>1. CASE Starts
  BY <1>1, StartsKeep
<1>2. CASE Wait
  BY <1>2, IoWaitKeeps
<1>3. CASE Serve
  BY <1>3, IoServeKeeps
<1>4. CASE Handles
  BY <1>4, AllHandled, HandledKeeps
<1>5. CASE ClientReturns
  BY <1>5, ReturnKeeps
<1>6. ASSUME NEW fd \in Fds, NEW e \in Conditions[fd], Arises(fd, e)
      PROVE  IoInv'
  <2>1. cond' = [cond EXCEPT ![fd] = @ \cup {e}] /\ e \in AnyCondition
    BY <1>6, ConditionsAssumption DEF Arises, AnyCondition
  <2>2. cond' \in [Fds -> SUBSET AnyCondition]
    BY <2>1, IoTyped DEF IoInv
  <2> QED
    BY <1>6, <2>2, NetworkKeeps DEF Arises, ioonly
<1>7. CASE UNCHANGED vars
  BY <1>7, IoTyped, NetworkKeeps DEF vars, IoInv
<1> QED
  BY <1>1, <1>2, <1>3, <1>4, <1>5, <1>6, <1>7 DEF Next

(* The structures keep their shape; in particular the callback of a        *)
(* poll_ctx is the handler of a call that its io_ctx has.                  *)
THEOREM IoTypeCorrect ==
  ASSUME OneAtATime
  PROVE  Spec => []TypeOK
<1>1. Init => IoInv
  BY IoInvInit
<1>2. IoInv /\ [Next]_vars => IoInv'
  BY IoNextKeeps
<1>3. IoInv => TypeOK
  BY DEF IoInv, IoTypes
<1> QED
  BY <1>1, <1>2, <1>3, PTL DEF Spec

(* ioasync_pollasync.c, on epoll and on kqueue: each call that did not     *)
(* complete at once is held by the looper in one place, an entry, a result *)
(* in the batch or its handler that runs, and nothing else is held: no     *)
(* call is lost, none is called back twice.                                *)
THEOREM PendingCallsAreHeld ==
  ASSUME OneAtATime
  PROVE  Spec => []PendingIsHeld
<1>1. Init => IoInv
  BY IoInvInit
<1>2. IoInv /\ [Next]_vars => IoInv'
  BY IoNextKeeps
<1>3. IoInv => PendingIsHeld
  <2> SUFFICES ASSUME IoInv, NEW f \in Futures
               PROVE  IF client[f] = "pending"
                        THEN /\ fut[f].ready = 0
                             /\ Holds(f).entry \/ Holds(f).event \/ Holds(f).call
                             /\ Holds(f).call => ~Holds(f).entry /\ ~Holds(f).event
                        ELSE ~Holds(f).entry /\ ~Holds(f).event /\ ~Holds(f).call
    BY DEF PendingIsHeld
  <2> DEFINE c == fut[f].io
             mine == c # NULL /\ pctx[c].udata = f
  <2>1. /\ Holds(f).entry = (mine /\ Entered(c)) /\ Holds(f).event = (mine /\ Waiting(c))
        /\ Holds(f).call = (mine /\ Running(c))
    BY DEF Holds, Entered, Waiting, Running
  <2>2. CASE client[f] = "pending"
    <3>1. f \in Pending /\ c # NULL /\ mine /\ fut[f].ready = 0
      BY <2>2, IoHeld, NullAssumption DEF Pending, IoInv, Owned
    <3> QED
      BY <2>1, <2>2, <3>1 DEF IoInv, HeldSomewhere
  <2>3. CASE client[f] # "pending"
    <3>1. ASSUME NEW g \in Pending, fut[g].io = c, mine
          PROVE  FALSE
      <4>1. pctx[c].udata = g
        BY <3>1 DEF IoInv, Owned
      <4> QED
        BY <2>3, <3>1, <4>1 DEF Pending
    <3>2. ASSUME mine, Entered(c)
          PROVE  FALSE
      <4>1. c \in Ctxs /\ FdOf[c] \in Fds
        <5>1. fut[f] \in Future
          BY IoTyped DEF IoInv
        <5> QED
          BY <3>2, <5>1, FdOfAssumption DEF Future
      <4> QED
        BY <3>1, <3>2, <4>1 DEF IoInv, HoldsPending, Entered
    <3>3. ASSUME mine, Waiting(c)
          PROVE  FALSE
      BY <3>1, <3>3 DEF IoInv, HoldsPending, Waiting
    <3>4. ASSUME mine, Running(c)
          PROVE  FALSE
      BY <3>1, <3>4 DEF IoInv, HoldsPending, Running
    <3> QED
      BY <2>1, <2>3, <3>2, <3>3, <3>4
  <2> QED
    BY <2>2, <2>3
<1> QED
  BY <1>1, <1>2, <1>3, PTL DEF Spec

(* ioasync.h:144 and 150: whoever is called back had a call pending, and   *)
(* finds the result of this call; a result is left alone from then on      *)
(* until the client makes its next call.                                   *)
THEOREM CalledBackOnce ==
  ASSUME OneAtATime
  PROVE  Spec => CalledOncePending
<1>1. Init => IoInv
  BY IoInvInit
<1>2. IoInv /\ [Next]_vars => IoInv'
  BY IoNextKeeps
<1> DEFINE A == \A f \in Futures :
       /\ inuser' /\ ~inuser /\ f = pctx[calling].udata =>
            client[f] = "pending" /\ client'[f] = "done" /\ fut'[f].ready = 1
       /\ calling # NULL /\ ~inuser /\ client[f] # "pending" => fut'[f] = fut[f]
<1>3. IoInv /\ [Next]_vars => [A]_vars
  <2> SUFFICES ASSUME IoInv, Next
               PROVE  A
    OBVIOUS
  <2>1. CASE Starts
    <3>1. (Idle \/ inuser) /\ inuser' = inuser
      BY <2>1, StartsOutside
    <3> QED
      BY <3>1 DEF Idle
  <2>2. CASE Wait \/ Serve
    BY <2>2 DEF Wait, Serve, ioonly
  <2>3. CASE Handles
    <3>1. PICK f \in Futures : Handled(f)
      BY <2>3, AllHandled
    <3>2. client[f] = "pending" /\ f = pctx[calling].udata /\ fut \in [Futures -> Future]
          /\ client \in [Futures -> {"free", "pending", "done", "failed"}]
      BY <3>1, IoTyped DEF Handled, Pending, IoInv
    <3>3. CASE Finished(f)
      BY <3>2, <3>3 DEF Finished
    <3>4. CASE Retried(f)
      BY <3>4 DEF Retried
    <3> QED
      BY <3>1, <3>3, <3>4 DEF Handled
  <2>4. CASE ClientReturns
    BY <2>4 DEF ClientReturns
  <2>5. CASE \E fd \in Fds : \E e \in Conditions[fd] : Arises(fd, e)
    BY <2>5 DEF Arises, ioonly
  <2> QED
    BY <2>1, <2>2, <2>3, <2>4, <2>5 DEF Next
<1>4. IoInv /\ [Next]_vars => [\A f \in Futures :
       /\ inuser' /\ ~inuser /\ f = pctx[calling].udata =>
            client[f] = "pending" /\ client'[f] = "done" /\ fut'[f].ready = 1
       /\ calling # NULL /\ ~inuser /\ client[f] # "pending" => fut'[f] = fut[f]]_vars
  BY <1>3
<1> QED
  BY <1>1, <1>2, <1>4, PTL DEF Spec, CalledOncePending
=============================================================================
