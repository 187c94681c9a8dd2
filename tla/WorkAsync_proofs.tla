-------------------------- MODULE WorkAsync_proofs --------------------------
(***************************************************************************)
(* Proofs about WorkAsync: any number of coroutines and works, with each   *)
(* main runner, where stores are seen in their order.                      *)
(***************************************************************************)
EXTENDS WorkAsync, SequenceTheorems, TLAPS

InMain(c) == InCoroutine(Main) /\ who = c

(* A work whose thread goes on in, or on behalf of, a coroutine that is    *)
(* its own run function: the coroutine is nowhere else.                    *)
Turn(w) ==
  LET c == w[1]
  IN  /\ w[2] = round[c] /\ ~InMain(c)
      /\ at[w] \in {"run", "work"} => status[c] = "yield" /\ ready[c] = 0
      /\ at[w] = "ready" => status[c] = "wait"
      /\ at[w] = "post" => status[c] = "wait" /\ ready[c] = 1
      /\ at[w] = "check" => val[c] = round[c]
      /\ at[w] = "check" /\ w \notin calling => ready[c] = 0
      /\ at[w] = "start" => round[c] < Rounds
      /\ at[w] \in {"start", "done"} => w \in calling
      /\ w \in calling => ready[c] = 1

Worker(w) ==
  LET c == w[1]
  IN  /\ at[w] # "none" => w[2] <= round[c]
      /\ at[w] \in {"run", "ready"} => w[2] = round[c] /\ ready[c] = 0
      /\ at[w] = "ready" => val[c] = round[c]
      /\ w \in calling => c \in OnWorker /\ runner = "none" /\ at[w] \notin {"none", "run", "ready", "post"}
      /\ c \notin OnWorker => ~InCoroutine(w)
      /\ c \in OnWorker /\ at[w] \notin {"none", "gone"} => Turn(w)

OnMain(c) ==
  /\ MayRun(c)
  /\ at[Main] # "work"
  /\ at[Main] = "start" => round[c] < Rounds /\ (round[c] = 0 \/ ready[c] = 1)
  /\ at[Main] = "check" /\ c \in OnWorker => ready[c] = 1
  /\ at[Main] = "done" => ready[c] = 1

Local(c) ==
  /\ \A w \in Works : w[1] = c => Worker(w)
  /\ ready[c] = 1 => val[c] = round[c] /\ round[c] > 0
  /\ InMain(c) => OnMain(c)
  /\ c \notin OnWorker => /\ status[c] # "yield"
                          /\ round[c] > 0 /\ ~InMain(c) => status[c] \in {"wait", "left"}
                          /\ runner = "none" => round[c] = 0

(* An item of the queues: its coroutine waits for it and is nowhere else,  *)
(* or it is one that the main thread runs alone.                           *)
Sound(w) ==
  LET c == w[1]
  IN  /\ w[2] <= round[c]
      /\ runner # "none"
      /\ c \in OnWorker => /\ w[2] = round[c] /\ at[w] = "gone"
                           /\ ~InMain(c) /\ status[c] = "wait" /\ ready[c] = 1

Once(q) == \A i, j \in DOMAIN q : q[i][1] \in OnWorker /\ q[i][1] = q[j][1] => i = j
Apart(q, p) == \A i \in DOMAIN q, j \in DOMAIN p : q[i][1] \in OnWorker => q[i][1] # p[j][1]

Items ==
  /\ \A i \in DOMAIN pipe : Sound(pipe[i])
  /\ \A i \in DOMAIN taken : Sound(taken[i])
  /\ Once(pipe) /\ Once(taken) /\ Apart(pipe, taken)

Inv == TypeOK /\ (\A c \in Clients : Local(c)) /\ Items /\ ResultIsThere

-----------------------------------------------------------------------------
LEMMA WorkFacts ==
  ASSUME NEW w \in Works
  PROVE  /\ w[1] \in Clients /\ w[2] \in 1 .. Rounds /\ w = <<w[1], w[2]>>
         /\ w # Main /\ w \in Threads /\ CoroutineOf(w) = w[1]
BY MainAssumption DEF Works, Threads, CoroutineOf

LEMMA SameWork ==
  ASSUME NEW v \in Works, NEW w \in Works, v[1] = w[1], v[2] = w[2]
  PROVE  v = w
BY WorkFacts

(* A step elsewhere leaves a coroutine and its works alone.                *)
LEMMA Frame ==
  ASSUME NEW c \in Clients, Local(c), runner' = runner,
         status'[c] = status[c], ready'[c] = ready[c], val'[c] = val[c], round'[c] = round[c],
         \A w \in Works : w[1] = c => at'[w] = at[w] /\ (w \in calling' <=> w \in calling),
         InMain(c)' <=> InMain(c), InMain(c) => at'[Main] = at[Main]
  PROVE  Local(c)'
<1>1. ASSUME NEW w \in Works, w[1] = c
      PROVE  Worker(w)'
  BY <1>1 DEF Local, Worker, Turn, InCoroutine
<1>2. InMain(c)' => OnMain(c)'
  BY DEF Local, OnMain, MayRun
<1> QED
  BY <1>1, <1>2 DEF Local

LEMMA InvOneThread ==
  ASSUME Inv
  PROVE  OneThread
<1>1. SUFFICES ASSUME NEW s \in Threads, NEW t \in Threads, InCoroutine(s), InCoroutine(t),
                      CoroutineOf(s) = CoroutineOf(t)
               PROVE  s = t
  BY DEF OneThread
<1>2. ASSUME NEW w \in Works, InCoroutine(w)
      PROVE  w[2] = round[w[1]] /\ ~InMain(w[1])
  BY <1>2, WorkFacts DEF Inv, Local, Worker, Turn, InCoroutine
<1>3. CASE s \in Works /\ t \in Works
  BY <1>1, <1>2, <1>3, SameWork, WorkFacts
<1>4. CASE s = Main /\ t \in Works
  BY <1>1, <1>2, <1>4, WorkFacts DEF InMain, CoroutineOf
<1>5. CASE s \in Works /\ t = Main
  BY <1>1, <1>2, <1>5, WorkFacts DEF InMain, CoroutineOf
<1> QED
  BY <1>1, <1>3, <1>4, <1>5 DEF Threads

LEMMA InvInit ==
  ASSUME Init
  PROVE  Inv
<1>1. TypeOK
  BY RoundsAssumption, PipeAssumption DEF Init, TypeOK, Threads
<1>2. ASSUME NEW w \in Works
      PROVE  Worker(w)
  BY <1>2, WorkFacts DEF Init, Worker, InCoroutine
<1>3. ASSUME NEW c \in Clients
      PROVE  Local(c)
  BY <1>2, <1>3 DEF Init, Local, InMain, InCoroutine, Threads
<1>4. Items
  BY DEF Init, Items, Once, Apart
<1>5. ResultIsThere
  BY DEF Init, ResultIsThere
<1> QED
  BY <1>1, <1>3, <1>4, <1>5 DEF Inv

-----------------------------------------------------------------------------
(* A step that concerns one coroutine, which some thread is at.            *)
Only(c) ==
  /\ runner' = runner
  /\ \A d \in Clients \ {c} : /\ status'[d] = status[d] /\ ready'[d] = ready[d]
                              /\ val'[d] = val[d] /\ round'[d] = round[d]
                              /\ InMain(d)' <=> InMain(d)
                              /\ InMain(d) => at'[Main] = at[Main]
  /\ \A w \in Works : w[1] # c => at'[w] = at[w] /\ (w \in calling' <=> w \in calling)

Busy(c) == InMain(c) \/ \E w \in Works : w[1] = c /\ at[w] \notin {"none", "gone"}

LEMMA OnlyLocal ==
  ASSUME Inv, NEW c \in Clients, Only(c), Local(c)'
  PROVE  \A d \in Clients : Local(d)'
<1>1. ASSUME NEW d \in Clients, d # c
      PROVE  Local(d)'
  <2>1. Local(d)
    BY DEF Inv
  <2> HIDE DEF Local
  <2> QED
    BY <1>1, <2>1, Frame DEF Only
<1> QED
  BY <1>1

LEMMA NotAnItem ==
  ASSUME Inv, NEW c \in OnWorker, Busy(c), NEW w \in Works, Sound(w)
  PROVE  w[1] # c
<1>1. SUFFICES ASSUME w[1] = c
               PROVE  FALSE
  OBVIOUS
<1>2. w[2] = round[c] /\ at[w] = "gone" /\ ~InMain(c)
  BY <1>1 DEF Sound
<1>3. PICK v \in Works : v[1] = c /\ at[v] \notin {"none", "gone"}
  BY <1>2 DEF Busy
<1>4. v[2] = round[c]
  BY <1>3, WorkFacts DEF Inv, Local, Worker, Turn
<1> QED
  BY <1>1, <1>2, <1>3, <1>4, SameWork

LEMMA QueueFacts ==
  ASSUME TypeOK
  PROVE  /\ Len(pipe) \in Nat /\ DOMAIN pipe = 1 .. Len(pipe) /\ \A i \in DOMAIN pipe : pipe[i] \in Works
         /\ Len(taken) \in Nat /\ DOMAIN taken = 1 .. Len(taken) /\ \A i \in DOMAIN taken : taken[i] \in Works
<1>1. pipe \in Seq(Works) /\ taken \in Seq(Works)
  BY DEF TypeOK
<1> QED
  BY <1>1

(* What an item says stays true of it when others move.                    *)
LEMMA SoundStays ==
  ASSUME Inv, NEW c \in Clients, Only(c), c \in OnWorker => Busy(c), round'[c] \in Nat, round'[c] >= round[c],
         NEW w \in Works, Sound(w)
  PROVE  Sound(w)'
<1>1. CASE w[1] # c
  BY <1>1, WorkFacts DEF Only, Sound
<1>2. CASE w[1] = c
  <2>1. c \notin OnWorker
    BY <1>2, NotAnItem
  <2>2. round[c] \in Nat /\ round'[c] >= round[c] /\ w[2] \in Nat /\ w[2] <= round[c]
    BY <1>2, WorkFacts, RoundsAssumption DEF Inv, TypeOK, Sound
  <2>3. w[2] <= round'[c]
    BY <2>2
  <2> QED
    BY <1>2, <2>1, <2>2, <2>3 DEF Only, Sound
<1> QED
  BY <1>1, <1>2

LEMMA OnlyItems ==
  ASSUME Inv, NEW c \in Clients, Only(c), c \in OnWorker => Busy(c), round'[c] \in Nat, round'[c] >= round[c],
         UNCHANGED <<pipe, taken>>
  PROVE  Items'
<1>1. \A i \in DOMAIN pipe : Sound(pipe[i])'
  BY SoundStays, QueueFacts DEF Inv, Items
<1>2. \A i \in DOMAIN taken : Sound(taken[i])'
  BY SoundStays, QueueFacts DEF Inv, Items
<1> QED
  BY <1>1, <1>2 DEF Inv, Items, Once, Apart

(* Where a thread stands that is in a coroutine.                           *)
LEMMA Here ==
  ASSUME Inv, NEW t \in Threads, NEW c \in Clients, InCoroutine(t), CoroutineOf(t) = c
  PROVE  /\ Busy(c)
         /\ \/ t = Main /\ who = c /\ InMain(c) /\ OnMain(c)
            \/ /\ t \in Works /\ t # Main /\ t[1] = c /\ c \in OnWorker /\ Worker(t) /\ Turn(t)
               /\ t[2] = round[c] /\ ~InMain(c)
<1>1. CASE t = Main
  <2>1. who = c
    BY <1>1 DEF CoroutineOf
  <2> QED
    BY <1>1, <2>1 DEF InMain, Inv, Local, Busy
<1>2. CASE t \in Works
  <2>1. t[1] = c /\ t # Main
    BY <1>2, WorkFacts
  <2>2. Worker(t)
    BY <1>2, <2>1 DEF Inv, Local
  <2> QED
    BY <1>2, <2>1, <2>2 DEF Worker, Turn, InCoroutine, Busy
<1> QED
  BY <1>1, <1>2 DEF Threads

-----------------------------------------------------------------------------
LEMMA RunKeeps ==
  ASSUME Inv, NEW t \in Threads, NEW c \in Clients, work_async_run(t, c)
  PROVE  Inv'
<1> DEFINE n == <<c, round[c] + 1>>
<1>1. InCoroutine(t) /\ CoroutineOf(t) = c /\ at[t] = "start"
  BY DEF work_async_run, InCoroutine
<1>2. round[c] \in Nat /\ round[c] < Rounds /\ (round[c] = 0 \/ ready[c] = 1)
      /\ (t = Main \/ (t \in Works /\ t[1] = c /\ c \in OnWorker /\ t \in calling /\ t[2] = round[c]))
  BY <1>1, Here, RoundsAssumption DEF OnMain, Turn, Inv, TypeOK
<1>3. n \in Works /\ n[1] = c /\ n[2] = round[c] + 1 /\ n \in Threads /\ n # Main
  BY <1>2, RoundsAssumption, WorkFacts DEF Works
<1>4. at[n] = "none" /\ n # t
  <2>1. Worker(n)
    BY <1>3 DEF Inv, Local
  <2>2. at[n] = "none"
    BY <1>2, <1>3, <2>1 DEF Worker
  <2> QED
    BY <1>1, <2>2
<1>5. /\ round' = [round EXCEPT ![c] = round[c] + 1]
      /\ ready' = [ready EXCEPT ![c] = 0]
      /\ at' = [at EXCEPT ![n] = "run", ![t] = IF c \in OnWorker THEN Back(t) ELSE "check"]
      /\ status' = IF c \in OnWorker THEN [status EXCEPT ![c] = "yield"] ELSE status
      /\ UNCHANGED <<val, result, who, pipe, taken, heard, calling, runner>>
  BY DEF work_async_run, ReadyAtStart, queues
<1>6. Back(t) = IF t = Main THEN "loop" ELSE "gone"
  BY <1>2 DEF Back
<1> HIDE DEF n
<1>7. /\ at'[n] = "run" /\ at'[t] = IF c \in OnWorker THEN Back(t) ELSE "check"
      /\ \A u \in Threads : u # n /\ u # t => at'[u] = at[u]
      /\ round'[c] = round[c] + 1 /\ ready'[c] = 0 /\ val'[c] = val[c]
      /\ \A d \in Clients : d # c => round'[d] = round[d] /\ ready'[d] = ready[d] /\ status'[d] = status[d]
      /\ status'[c] = IF c \in OnWorker THEN "yield" ELSE status[c]
  BY <1>3, <1>4, <1>5 DEF Inv, TypeOK
<1>8. TypeOK'
  <2>1. at' \in [Threads -> {"loop", "none", "run", "ready", "post", "gone", "start", "work", "check", "done"}]
    BY <1>5, <1>6 DEF Inv, TypeOK
  <2>2. round' \in [Clients -> 0 .. Rounds] /\ ready' \in [Clients -> 0 .. 1]
        /\ status' \in [Clients -> {"enter", "yield", "wait", "left"}]
    BY <1>2, <1>5, RoundsAssumption DEF Inv, TypeOK
  <2> QED
    BY <1>5, <2>1, <2>2 DEF Inv, TypeOK
<1>9. Only(c)
  <2>1. ASSUME NEW w \in Works, w[1] # c
        PROVE  at'[w] = at[w] /\ (w \in calling' <=> w \in calling)
    BY <1>2, <1>3, <1>5, <1>7, <2>1, WorkFacts
  <2>2. ASSUME NEW d \in Clients, d # c
        PROVE  (InMain(d)' <=> InMain(d)) /\ (InMain(d) => at'[Main] = at[Main])
    <3>1. t = Main => who = c
      BY <1>1 DEF CoroutineOf
    <3>2. t # Main => at'[Main] = at[Main]
      BY <1>3, <1>7 DEF Threads
    <3> QED
      BY <1>5, <2>2, <3>1, <3>2 DEF InMain, InCoroutine
  <2> QED
    BY <1>5, <1>7, <2>1, <2>2 DEF Only
<1>10. InMain(c)' <=> (t = Main /\ c \notin OnWorker)
  <2>1. CASE t = Main
    BY <1>1, <1>3, <1>5, <1>6, <1>7, <2>1 DEF InMain, InCoroutine, CoroutineOf
  <2>2. CASE t # Main
    BY <1>1, <1>2, <1>3, <1>5, <1>7, <2>2, Here DEF InMain, InCoroutine, Threads
  <2> QED
    BY <2>1, <2>2
<1>11. ASSUME NEW w \in Works, w[1] = c
       PROVE  Worker(w)'
  <2>1. Worker(w) /\ w \in Threads /\ w # Main
    BY <1>11, WorkFacts DEF Inv, Local
  <2>2. CASE w = n
    BY <1>2, <1>3, <1>4, <1>5, <1>7, <1>10, <2>1, <2>2 DEF Worker, Turn, InCoroutine
  <2>3. CASE w = t
    BY <1>2, <1>4, <1>5, <1>6, <1>7, <2>1, <2>3 DEF Worker, Turn, InCoroutine
  <2>4. CASE w # n /\ w # t
    <3>1. at'[w] = at[w] /\ at[w] \notin {"run", "ready"} /\ w[2] \in 1 .. Rounds
      BY <1>2, <1>7, <1>11, <2>1, <2>4, WorkFacts DEF Worker
    <3>2. c \in OnWorker => at[w] \in {"none", "gone"}
      <4>1. SUFFICES ASSUME c \in OnWorker, at[w] \notin {"none", "gone"}
                     PROVE  FALSE
        OBVIOUS
      <4>2. w[2] = round[c] /\ ~InMain(c)
        BY <1>11, <2>1, <4>1 DEF Worker, Turn
      <4>3. t \in Works /\ t[1] = c /\ t[2] = round[c]
        BY <1>1, <1>2, <4>2, Here DEF InMain, CoroutineOf
      <4> QED
        BY <1>11, <2>4, <4>2, <4>3, SameWork
    <3>3. w[2] <= round[c] => w[2] <= round[c] + 1
      BY <1>2, <3>1
    <3> QED
      BY <1>5, <1>7, <1>11, <2>1, <3>1, <3>2, <3>3 DEF Worker, InCoroutine
  <2> QED
    BY <2>2, <2>3, <2>4
<1>12. Local(c)'
  <2>1. InMain(c)' => OnMain(c)'
    BY <1>1, <1>2, <1>4, <1>5, <1>7, <1>10, Here DEF OnMain, MayRun
  <2>2. c \notin OnWorker => t = Main /\ InMain(c)' /\ InMain(c)
    BY <1>1, <1>2, <1>10, Here
  <2>3. c \notin OnWorker => status'[c] # "yield" /\ runner # "none"
    BY <1>7, <2>2 DEF Inv, Local, OnMain, MayRun
  <2> QED
    BY <1>5, <1>7, <1>11, <2>1, <2>2, <2>3 DEF Local
<1>13. Items'
  BY <1>1, <1>2, <1>5, <1>7, <1>9, OnlyItems, Here
<1>14. ResultIsThere'
  <2>1. SUFFICES ASSUME NEW s \in Threads, at'[s] = "done"
                 PROVE  result'[CoroutineOf(s)'] = round'[CoroutineOf(s)']
    BY DEF ResultIsThere
  <2>2. s # n /\ s # t /\ at[s] = "done" /\ CoroutineOf(s)' = CoroutineOf(s)
    BY <1>5, <1>6, <1>7, <2>1 DEF CoroutineOf
  <2>3. CoroutineOf(s) # c
    BY <1>1, <2>2, InvOneThread DEF OneThread, InCoroutine
  <2>4. CoroutineOf(s) \in Clients
    BY WorkFacts DEF CoroutineOf, Threads, Inv, TypeOK
  <2> QED
    BY <1>5, <1>7, <2>2, <2>3, <2>4 DEF Inv, ResultIsThere
<1> QED
  BY <1>8, <1>9, <1>12, <1>13, <1>14, OnlyLocal DEF Inv

-----------------------------------------------------------------------------
(* The other works of a coroutine that runs itself have not begun, or have *)
(* ended.                                                                  *)
LEMMA Alone ==
  ASSUME Inv, NEW c \in OnWorker, NEW t \in Threads,
         \/ t = Main /\ InMain(c)
         \/ t \in Works /\ t[1] = c /\ at[t] \notin {"none", "gone"},
         NEW w \in Works, w[1] = c, w # t
  PROVE  at[w] \in {"none", "gone"}
<1>1. SUFFICES ASSUME at[w] \notin {"none", "gone"}
               PROVE  FALSE
  OBVIOUS
<1>2. w[2] = round[c] /\ ~InMain(c)
  BY <1>1, WorkFacts DEF Inv, Local, Worker, Turn
<1>3. t \in Works /\ t[1] = c /\ t[2] = round[c]
  BY <1>2, WorkFacts DEF Inv, Local, Worker, Turn
<1> QED
  BY <1>2, <1>3, SameWork

(* One thread moves, and what else changes is its coroutine's.             *)
LEMMA Moves ==
  ASSUME Inv, NEW t \in Threads, NEW c \in Clients, CoroutineOf(t) = c,
         NEW x, x \in {"loop", "none", "run", "ready", "post", "gone", "start", "work", "check", "done"},
         at' = [at EXCEPT ![t] = x], UNCHANGED <<who, runner, round>>,
         calling' = calling \/ (t \in Works /\ calling' = calling \cup {t}),
         status' = status \/ \E v \in {"enter", "yield", "wait", "left"} : status' = [status EXCEPT ![c] = v],
         ready' = ready \/ ready' = [ready EXCEPT ![c] = 1],
         val' = val \/ val' = [val EXCEPT ![c] = round[c]]
  PROVE  /\ Only(c)
         /\ at'[t] = x /\ \A u \in Threads : u # t => at'[u] = at[u]
         /\ at' \in [Threads -> {"loop", "none", "run", "ready", "post", "gone",
                                 "start", "work", "check", "done"}]
         /\ status' \in [Clients -> {"enter", "yield", "wait", "left"}]
         /\ ready' \in [Clients -> 0 .. 1] /\ val' \in [Clients -> 0 .. Rounds]
         /\ round'[c] \in Nat /\ round'[c] >= round[c]
<1>1. at'[t] = x /\ \A u \in Threads : u # t => at'[u] = at[u]
  BY DEF Inv, TypeOK
<1>2. at' \in [Threads -> {"loop", "none", "run", "ready", "post", "gone", "start", "work", "check", "done"}]
  BY DEF Inv, TypeOK
<1>3. status' \in [Clients -> {"enter", "yield", "wait", "left"}]
      /\ \A d \in Clients : d # c => status'[d] = status[d]
  BY DEF Inv, TypeOK
<1>4. ready' \in [Clients -> 0 .. 1] /\ \A d \in Clients : d # c => ready'[d] = ready[d]
  <2>1. ready \in [Clients -> 0 .. 1]
    BY DEF Inv, TypeOK
  <2>2. CASE ready' = ready
    BY <2>1, <2>2
  <2>3. CASE ready' = [ready EXCEPT ![c] = 1]
    BY <2>1, <2>3
  <2> QED
    BY <2>2, <2>3
<1>5. val' \in [Clients -> 0 .. Rounds] /\ \A d \in Clients : d # c => val'[d] = val[d]
  BY RoundsAssumption DEF Inv, TypeOK
<1>6. round'[c] \in Nat /\ round'[c] >= round[c]
  BY RoundsAssumption DEF Inv, TypeOK
<1>7. Only(c)
  <2>1. ASSUME NEW w \in Works, w[1] # c
        PROVE  at'[w] = at[w] /\ (w \in calling' <=> w \in calling)
    BY <1>1, <2>1, WorkFacts
  <2>2. ASSUME NEW d \in Clients, d # c
        PROVE  (InMain(d)' <=> InMain(d)) /\ (InMain(d) => at'[Main] = at[Main])
    <3>1. t = Main => who = c
      BY DEF CoroutineOf
    <3>2. t # Main => at'[Main] = at[Main]
      BY <1>1 DEF Threads
    <3> QED
      BY <2>2, <3>1, <3>2 DEF InMain, InCoroutine
  <2> QED
    BY <1>3, <1>4, <1>5, <2>1, <2>2 DEF Only
<1> QED
  BY <1>1, <1>2, <1>3, <1>4, <1>5, <1>6, <1>7

(* A step that lets no thread arrive behind a wait.                        *)
LEMMA ResultStays ==
  ASSUME Inv, UNCHANGED <<who, round, result>>,
         \A s \in Threads : at'[s] = "done" => at[s] = "done"
  PROVE  ResultIsThere'
BY DEF Inv, ResultIsThere, CoroutineOf

LEMMA WorkKeeps ==
  ASSUME Inv, NEW t \in Threads, NEW c \in Clients, WorkInCoroutine(t, c)
  PROVE  Inv'
<1>1. InCoroutine(t) /\ CoroutineOf(t) = c /\ at[t] = "work"
  BY DEF WorkInCoroutine, InCoroutine
<1>2. t \in Works /\ t # Main /\ t[1] = c /\ c \in OnWorker /\ Worker(t) /\ Turn(t) /\ ~InMain(c) /\ Busy(c)
  BY <1>1, Here DEF OnMain
<1>3. /\ val' = [val EXCEPT ![c] = round[c]]
      /\ at' = [at EXCEPT ![t] = "check"]
      /\ UNCHANGED <<status, ready, round, result, who, pipe, taken, heard, calling, runner>>
  BY DEF WorkInCoroutine, queues
<1>4. /\ Only(c)
      /\ at'[t] = "check" /\ \A u \in Threads : u # t => at'[u] = at[u]
      /\ at' \in [Threads -> {"loop", "none", "run", "ready", "post", "gone", "start", "work", "check", "done"}]
      /\ val' \in [Clients -> 0 .. Rounds]
      /\ round'[c] \in Nat /\ round'[c] >= round[c]
  BY <1>1, <1>3, Moves
<1>5. val'[c] = round[c]
  BY <1>3 DEF Inv, TypeOK
<1>6. TypeOK'
  BY <1>3, <1>4 DEF Inv, TypeOK
<1>7. InMain(c)' <=> InMain(c)
  BY <1>2, <1>3, <1>4 DEF InMain, InCoroutine, Threads
<1>8. ASSUME NEW w \in Works, w[1] = c
      PROVE  Worker(w)'
  <2>1. CASE w = t
    BY <1>1, <1>2, <1>3, <1>4, <1>5, <1>7, <2>1 DEF Worker, Turn, InCoroutine
  <2>2. CASE w # t
    <3>1. at'[w] = at[w] /\ at[w] \in {"none", "gone"} /\ Worker(w)
      BY <1>1, <1>2, <1>4, <1>8, <2>2, Alone, WorkFacts DEF Inv, Local
    <3> QED
      BY <1>3, <1>8, <3>1 DEF Worker, InCoroutine
  <2> QED
    BY <2>1, <2>2
<1>9. Local(c)'
  BY <1>1, <1>2, <1>3, <1>5, <1>7, <1>8 DEF Inv, Local, Turn
<1>10. Items'
  BY <1>2, <1>3, <1>4, OnlyItems
<1>11. ResultIsThere'
  BY <1>3, <1>4, ResultStays
<1> QED
  BY <1>4, <1>6, <1>9, <1>10, <1>11, OnlyLocal DEF Inv

LEMMA YieldsKeeps ==
  ASSUME Inv, NEW t \in Threads, NEW c \in Clients, WaitYields(t, c)
  PROVE  Inv'
<1>1. InCoroutine(t) /\ CoroutineOf(t) = c /\ at[t] = "check"
  BY DEF WaitYields, InCoroutine
<1>2. /\ Busy(c)
      /\ \/ t = Main /\ who = c /\ InMain(c) /\ OnMain(c)
         \/ t \in Works /\ t # Main /\ t[1] = c /\ c \in OnWorker /\ Worker(t) /\ Turn(t) /\ ~InMain(c)
  BY <1>1, Here
<1>3. t # Main => ready[c] = 0 /\ t \notin calling
  BY <1>1, <1>2 DEF WaitYields, Racing, Turn, Inv, TypeOK
<1>4. Back(t) = IF t = Main THEN "loop" ELSE "ready"
  BY <1>3 DEF Back, Following
<1>5. /\ status' = [status EXCEPT ![c] = "wait"]
      /\ at' = [at EXCEPT ![t] = Back(t)]
      /\ UNCHANGED <<ready, val, round, result, who, pipe, taken, heard, calling, runner>>
  BY DEF WaitYields, queues
<1>6. /\ Only(c)
      /\ at'[t] = Back(t) /\ \A u \in Threads : u # t => at'[u] = at[u]
      /\ at' \in [Threads -> {"loop", "none", "run", "ready", "post", "gone", "start", "work", "check", "done"}]
      /\ status' \in [Clients -> {"enter", "yield", "wait", "left"}]
      /\ round'[c] \in Nat /\ round'[c] >= round[c]
  BY <1>1, <1>4, <1>5, Moves
<1>7. status'[c] = "wait"
  BY <1>5 DEF Inv, TypeOK
<1>8. TypeOK'
  BY <1>5, <1>6 DEF Inv, TypeOK
<1>9. ~InMain(c)'
  BY <1>2, <1>4, <1>5, <1>6 DEF InMain, InCoroutine, Threads
<1>10. ASSUME NEW w \in Works, w[1] = c
       PROVE  Worker(w)'
  <2>1. CASE w = t
    BY <1>1, <1>2, <1>3, <1>4, <1>5, <1>6, <1>7, <1>9, <2>1, WorkFacts DEF Worker, Turn, InCoroutine
  <2>2. CASE w # t
    <3>1. at'[w] = at[w] /\ Worker(w) /\ (c \in OnWorker => at[w] \in {"none", "gone"})
      BY <1>1, <1>2, <1>6, <1>10, <2>2, Alone, WorkFacts DEF Inv, Local
    <3> QED
      BY <1>5, <1>10, <3>1 DEF Worker, InCoroutine
  <2> QED
    BY <2>1, <2>2
<1>11. Local(c)'
  BY <1>5, <1>7, <1>9, <1>10 DEF Inv, Local
<1>12. Items'
  BY <1>2, <1>5, <1>6, OnlyItems
<1>13. ResultIsThere'
  BY <1>4, <1>5, <1>6, ResultStays
<1> QED
  BY <1>6, <1>8, <1>11, <1>12, <1>13, OnlyLocal DEF Inv

LEMMA PassesKeeps ==
  ASSUME Inv, StoresInOrder, NEW t \in Threads, NEW c \in Clients, WaitPasses(t, c)
  PROVE  Inv'
<1>1. InCoroutine(t) /\ CoroutineOf(t) = c /\ at[t] = "check" /\ ready[c] = 1 /\ val[c] = round[c]
  BY DEF WaitPasses, InCoroutine, Inv, Local
<1>2. /\ Busy(c)
      /\ \/ t = Main /\ who = c /\ InMain(c) /\ OnMain(c)
         \/ t \in Works /\ t # Main /\ t[1] = c /\ c \in OnWorker /\ Worker(t) /\ Turn(t) /\ ~InMain(c)
  BY <1>1, Here
<1>3. t # Main => t \in calling
  BY <1>1, <1>2 DEF Turn
<1>4. /\ result' = [result EXCEPT ![c] = round[c]]
      /\ at' = [at EXCEPT ![t] = "done"]
      /\ UNCHANGED <<status, ready, val, round, who, pipe, taken, heard, calling, runner>>
  BY <1>1 DEF WaitPasses, queues
<1>5. /\ Only(c)
      /\ at'[t] = "done" /\ \A u \in Threads : u # t => at'[u] = at[u]
      /\ at' \in [Threads -> {"loop", "none", "run", "ready", "post", "gone", "start", "work", "check", "done"}]
      /\ round'[c] \in Nat /\ round'[c] >= round[c]
  BY <1>1, <1>4, Moves
<1>6. result' \in [Clients -> 0 .. Rounds] /\ result'[c] = round[c]
      /\ \A d \in Clients : d # c => result'[d] = result[d]
  BY <1>4 DEF Inv, TypeOK
<1>7. TypeOK'
  BY <1>4, <1>5, <1>6 DEF Inv, TypeOK
<1>8. InMain(c)' <=> InMain(c)
  BY <1>1, <1>2, <1>4, <1>5 DEF InMain, InCoroutine, Threads
<1>9. ASSUME NEW w \in Works, w[1] = c
      PROVE  Worker(w)'
  <2>1. CASE w = t
    <3>1. t # Main /\ t \in calling
      BY <1>3, <2>1, WorkFacts
    <3> QED
      BY <1>1, <1>2, <1>4, <1>5, <1>8, <1>9, <2>1, <3>1 DEF Worker, Turn, InCoroutine
  <2>2. CASE w # t
    <3>1. at'[w] = at[w] /\ Worker(w) /\ (c \in OnWorker => at[w] \in {"none", "gone"})
      BY <1>1, <1>2, <1>5, <1>9, <2>2, Alone, WorkFacts DEF Inv, Local
    <3> QED
      BY <1>4, <1>9, <3>1 DEF Worker, InCoroutine
  <2> QED
    BY <2>1, <2>2
<1>10. Local(c)'
  <2>1. InMain(c)' => OnMain(c)'
    BY <1>1, <1>2, <1>4, <1>5, <1>8 DEF OnMain, MayRun
  <2> QED
    BY <1>4, <1>8, <1>9, <2>1 DEF Inv, Local
<1>11. Items'
  BY <1>2, <1>4, <1>5, OnlyItems
<1>12. ResultIsThere'
  <2>1. SUFFICES ASSUME NEW s \in Threads, at'[s] = "done"
                 PROVE  result'[CoroutineOf(s)'] = round'[CoroutineOf(s)']
    BY DEF ResultIsThere
  <2>2. CoroutineOf(s)' = CoroutineOf(s) /\ CoroutineOf(s) \in Clients
    BY <1>4, WorkFacts DEF CoroutineOf, Threads, Inv, TypeOK
  <2>3. CASE CoroutineOf(s) = c
    BY <1>4, <1>6, <2>2, <2>3
  <2>4. CASE CoroutineOf(s) # c
    BY <1>1, <1>4, <1>5, <1>6, <2>1, <2>2, <2>4 DEF Inv, ResultIsThere
  <2> QED
    BY <2>3, <2>4
<1> QED
  BY <1>5, <1>7, <1>10, <1>11, <1>12, OnlyLocal DEF Inv

LEMMA GoOnKeeps ==
  ASSUME Inv, NEW t \in Threads, NEW c \in Clients, GoOn(t, c)
  PROVE  Inv'
<1>1. InCoroutine(t) /\ CoroutineOf(t) = c /\ at[t] = "done"
  BY DEF GoOn, InCoroutine
<1>2. /\ Busy(c)
      /\ \/ t = Main /\ who = c /\ InMain(c) /\ OnMain(c)
         \/ t \in Works /\ t # Main /\ t[1] = c /\ c \in OnWorker /\ Worker(t) /\ Turn(t) /\ ~InMain(c)
  BY <1>1, Here
<1>3. ready[c] = 1 /\ (t # Main => t \in calling)
  BY <1>1, <1>2 DEF Turn, OnMain
<1>4. Back(t) = IF t = Main THEN "loop" ELSE "gone"
  BY <1>3 DEF Back
<1> DEFINE x == IF round[c] < Rounds THEN "start" ELSE Back(t)
<1>5. /\ at' = [at EXCEPT ![t] = x]
      /\ status' = IF round[c] < Rounds THEN status ELSE [status EXCEPT ![c] = "left"]
      /\ UNCHANGED <<ready, val, round, result, who, pipe, taken, heard, calling, runner>>
  BY RoundsAssumption DEF GoOn, queues, Inv, TypeOK
<1>6. x \in {"start", "loop", "gone"} /\ (x = "start" => round[c] < Rounds)
  BY <1>4
<1> HIDE DEF x
<1>7. /\ Only(c)
      /\ at'[t] = x /\ \A u \in Threads : u # t => at'[u] = at[u]
      /\ at' \in [Threads -> {"loop", "none", "run", "ready", "post", "gone", "start", "work", "check", "done"}]
      /\ status' \in [Clients -> {"enter", "yield", "wait", "left"}]
      /\ round'[c] \in Nat /\ round'[c] >= round[c]
  BY <1>1, <1>5, <1>6, Moves
<1>8. TypeOK'
  BY <1>5, <1>7 DEF Inv, TypeOK
<1>9. InMain(c)' <=> (t = Main /\ x = "start")
  BY <1>1, <1>2, <1>5, <1>6, <1>7 DEF InMain, InCoroutine, Threads
<1>10. ASSUME NEW w \in Works, w[1] = c
       PROVE  Worker(w)'
  <2>1. CASE w = t
    <3>1. t # Main /\ t \in calling /\ x \in {"start", "gone"}
      BY <1>3, <1>4, <2>1, WorkFacts DEF x
    <3> QED
      BY <1>1, <1>2, <1>5, <1>6, <1>7, <1>9, <1>10, <2>1, <3>1 DEF Worker, Turn, InCoroutine
  <2>2. CASE w # t
    <3>1. at'[w] = at[w] /\ Worker(w) /\ (c \in OnWorker => at[w] \in {"none", "gone"})
      BY <1>1, <1>2, <1>7, <1>10, <2>2, Alone, WorkFacts DEF Inv, Local
    <3> QED
      BY <1>5, <1>10, <3>1 DEF Worker, InCoroutine
  <2> QED
    BY <2>1, <2>2
<1>11. Local(c)'
  <2>1. InMain(c)' => OnMain(c)'
    BY <1>2, <1>3, <1>5, <1>6, <1>7, <1>9 DEF OnMain, MayRun
  <2>2. c \notin OnWorker => /\ status'[c] # "yield"
                             /\ ~InMain(c)' => status'[c] = "left"
                             /\ runner = "none" => round[c] = 0
    <3>1. SUFFICES ASSUME c \notin OnWorker
                   PROVE  /\ status'[c] # "yield"
                          /\ ~InMain(c)' => status'[c] = "left"
                          /\ runner = "none" => round[c] = 0
      OBVIOUS
    <3>2. t = Main /\ (x = "start" <=> round[c] < Rounds)
      BY <1>2, <1>4, <3>1 DEF x
    <3> QED
      BY <1>5, <1>9, <3>1, <3>2 DEF Inv, Local, TypeOK
  <2> QED
    BY <1>5, <1>10, <2>1, <2>2 DEF Inv, Local
<1>12. Items'
  BY <1>2, <1>5, <1>7, OnlyItems
<1>13. ResultIsThere'
  BY <1>5, <1>6, <1>7, ResultStays
<1> QED
  BY <1>7, <1>8, <1>11, <1>12, <1>13, OnlyLocal DEF Inv

LEMMA CoroutineKeeps ==
  ASSUME Inv, StoresInOrder, NEW t \in Threads, NEW c \in Clients, CoroutineStep(t, c)
  PROVE  Inv'
BY RunKeeps, WorkKeeps, YieldsKeeps, PassesKeeps, GoOnKeeps DEF CoroutineStep

-----------------------------------------------------------------------------
LEMMA RunFunctionKeeps ==
  ASSUME Inv, NEW w \in Works, RunFunction(w)
  PROVE  Inv'
<1> DEFINE c == w[1]
<1>1. c \in Clients /\ w \in Threads /\ w # Main /\ CoroutineOf(w) = c
  BY WorkFacts
<1>2. /\ at[w] = "run" /\ w[2] = round[c] /\ ready[c] = 0 /\ w \notin calling
      /\ c \in OnWorker => Turn(w) /\ status[c] = "yield" /\ ~InMain(c)
      /\ Busy(c)
  <2>1. at[w] = "run" /\ Worker(w)
    BY <1>1 DEF RunFunction, Inv, Local
  <2> QED
    BY <1>1, <2>1 DEF Worker, Turn, Busy
<1> DEFINE x == IF c \in OnWorker THEN "work" ELSE "ready"
<1>3. /\ at' = [at EXCEPT ![w] = x]
      /\ val' = IF c \in OnWorker THEN val ELSE [val EXCEPT ![c] = round[c]]
      /\ UNCHANGED <<status, ready, round, result, who, pipe, taken, heard, calling, runner>>
  BY <1>1, <1>2 DEF RunFunction, Entry, Back, Following, queues
<1>4. x \in {"work", "ready"} /\ (x = "ready" <=> c \notin OnWorker)
  OBVIOUS
<1> HIDE DEF x, c
<1>5. /\ Only(c)
      /\ at'[w] = x /\ \A u \in Threads : u # w => at'[u] = at[u]
      /\ at' \in [Threads -> {"loop", "none", "run", "ready", "post", "gone", "start", "work", "check", "done"}]
      /\ val' \in [Clients -> 0 .. Rounds]
      /\ round'[c] \in Nat /\ round'[c] >= round[c]
  BY <1>1, <1>3, <1>4, Moves
<1>6. c \notin OnWorker => val'[c] = round[c]
  BY <1>1, <1>3 DEF Inv, TypeOK
<1>7. TypeOK'
  BY <1>3, <1>5 DEF Inv, TypeOK
<1>8. at'[Main] = at[Main] /\ (InMain(c)' <=> InMain(c))
  BY <1>1, <1>3, <1>5 DEF InMain, InCoroutine, Threads
<1>9. ASSUME NEW v \in Works, v[1] = c
      PROVE  Worker(v)'
  <2>1. CASE v = w
    BY <1>1, <1>2, <1>3, <1>4, <1>5, <1>6, <1>8, <1>9, <2>1 DEF Worker, Turn, InCoroutine
  <2>2. CASE v # w
    <3>1. at'[v] = at[v] /\ Worker(v) /\ v \in Threads
      BY <1>5, <1>9, <2>2, WorkFacts DEF Inv, Local
    <3>2. c \in OnWorker => at[v] \in {"none", "gone"}
      BY <1>1, <1>2, <1>9, <2>2, Alone DEF c
    <3>3. at[v] \notin {"run", "ready"}
      BY <1>2, <1>9, <2>2, <3>1, SameWork DEF Worker, c
    <3> QED
      BY <1>3, <1>9, <3>1, <3>2, <3>3 DEF Worker, InCoroutine
  <2> QED
    BY <2>1, <2>2
<1>10. Local(c)'
  <2>1. InMain(c)' => OnMain(c)'
    BY <1>1, <1>3, <1>8 DEF OnMain, MayRun, Inv, Local
  <2> QED
    BY <1>1, <1>2, <1>3, <1>8, <1>9, <2>1 DEF Inv, Local
<1>11. Items'
  BY <1>1, <1>2, <1>3, <1>5, OnlyItems
<1>12. ResultIsThere'
  BY <1>3, <1>4, <1>5, ResultStays
<1> QED
  BY <1>1, <1>5, <1>7, <1>10, <1>11, <1>12, OnlyLocal DEF Inv

LEMMA SetReadyKeeps ==
  ASSUME Inv, NEW w \in Works, SetReady(w)
  PROVE  Inv'
<1> DEFINE c == w[1]
<1>1. c \in Clients /\ w \in Threads /\ w # Main /\ CoroutineOf(w) = c /\ w[2] \in 1 .. Rounds
  BY WorkFacts
<1>2. /\ at[w] = "ready" /\ w[2] = round[c] /\ val[c] = round[c] /\ w \notin calling
      /\ c \in OnWorker => Turn(w) /\ status[c] = "wait" /\ ~InMain(c)
      /\ Busy(c)
  <2>1. at[w] = "ready" /\ Worker(w)
    BY <1>1 DEF SetReady, Inv, Local
  <2> QED
    BY <1>1, <2>1 DEF Worker, Turn, Busy
<1>3. /\ at' = [at EXCEPT ![w] = "post"]
      /\ ready' = [ready EXCEPT ![c] = 1]
      /\ UNCHANGED <<status, val, round, result, who, pipe, taken, heard, calling, runner>>
  BY DEF SetReady, Following, queues
<1> HIDE DEF c
<1>4. /\ Only(c)
      /\ at'[w] = "post" /\ \A u \in Threads : u # w => at'[u] = at[u]
      /\ at' \in [Threads -> {"loop", "none", "run", "ready", "post", "gone", "start", "work", "check", "done"}]
      /\ ready' \in [Clients -> 0 .. 1]
      /\ round'[c] \in Nat /\ round'[c] >= round[c]
  BY <1>1, <1>3, Moves
<1>5. ready'[c] = 1 /\ round[c] > 0
  BY <1>1, <1>2, <1>3 DEF Inv, TypeOK
<1>6. TypeOK'
  BY <1>3, <1>4 DEF Inv, TypeOK
<1>7. at'[Main] = at[Main] /\ (InMain(c)' <=> InMain(c))
  BY <1>1, <1>3, <1>4 DEF InMain, InCoroutine, Threads
<1>8. ASSUME NEW v \in Works, v[1] = c
      PROVE  Worker(v)'
  <2>1. CASE v = w
    BY <1>1, <1>2, <1>3, <1>4, <1>5, <1>7, <1>8, <2>1 DEF Worker, Turn, InCoroutine
  <2>2. CASE v # w
    <3>1. at'[v] = at[v] /\ Worker(v) /\ v \in Threads
      BY <1>4, <1>8, <2>2, WorkFacts DEF Inv, Local
    <3>2. c \in OnWorker => at[v] \in {"none", "gone"}
      BY <1>1, <1>2, <1>8, <2>2, Alone DEF c
    <3>3. at[v] \notin {"run", "ready"}
      BY <1>2, <1>8, <2>2, <3>1, SameWork DEF Worker, c
    <3> QED
      BY <1>3, <1>8, <3>1, <3>2, <3>3 DEF Worker, InCoroutine
  <2> QED
    BY <2>1, <2>2
<1>9. Local(c)'
  <2>1. InMain(c)' => OnMain(c)'
    BY <1>1, <1>3, <1>5, <1>7 DEF OnMain, MayRun, Inv, Local
  <2> QED
    BY <1>1, <1>2, <1>3, <1>5, <1>7, <1>8, <2>1 DEF Inv, Local
<1>10. Items'
  BY <1>1, <1>2, <1>3, <1>4, OnlyItems
<1>11. ResultIsThere'
  BY <1>3, <1>4, ResultStays
<1> QED
  BY <1>1, <1>4, <1>6, <1>9, <1>10, <1>11, OnlyLocal DEF Inv

LEMMA MainRunnerKeeps ==
  ASSUME Inv, NEW w \in Works, default_main_runner(w)
  PROVE  Inv'
<1> DEFINE c == w[1]
<1>1. c \in Clients /\ w \in Threads /\ w # Main /\ CoroutineOf(w) = c /\ w[2] \in 1 .. Rounds
  BY WorkFacts
<1>2. /\ at[w] = "post" /\ runner = "none" /\ c \in OnWorker /\ Turn(w) /\ Busy(c)
      /\ status[c] = "wait" /\ ready[c] = 1 /\ val[c] = round[c]
  <2>1. at[w] = "post" /\ Worker(w) /\ runner = "none"
    BY <1>1 DEF default_main_runner, Inv, Local
  <2>2. round[c] # 0
    BY <1>1, <2>1 DEF Worker
  <2> QED
    BY <1>1, <2>1, <2>2 DEF Worker, Turn, Busy, Inv, Local
<1>3. /\ at' = [at EXCEPT ![w] = "check"]
      /\ calling' = calling \cup {w}
      /\ UNCHANGED <<status, ready, val, round, result, who, pipe, taken, heard, runner>>
  BY <1>2 DEF default_main_runner, Entry, queues
<1> HIDE DEF c
<1>4. /\ Only(c)
      /\ at'[w] = "check" /\ \A u \in Threads : u # w => at'[u] = at[u]
      /\ at' \in [Threads -> {"loop", "none", "run", "ready", "post", "gone", "start", "work", "check", "done"}]
      /\ round'[c] \in Nat /\ round'[c] >= round[c]
  BY <1>1, <1>3, Moves
<1>5. TypeOK'
  BY <1>3, <1>4 DEF Inv, TypeOK
<1>6. at'[Main] = at[Main] /\ (InMain(c)' <=> InMain(c))
  BY <1>1, <1>3, <1>4 DEF InMain, InCoroutine, Threads
<1>7. ASSUME NEW v \in Works, v[1] = c
      PROVE  Worker(v)'
  <2>1. CASE v = w
    <3>1. c \in OnWorker /\ ready'[c] = 1 /\ val'[c] = round'[c] /\ w[2] = round'[c] /\ ~InMain(c)'
      BY <1>2, <1>3, <1>6 DEF Turn, c
    <3>2. at'[w] = "check" /\ w \in calling' /\ runner' = "none"
      BY <1>2, <1>3, <1>4
    <3> QED
      BY <1>1, <2>1, <3>1, <3>2 DEF Worker, Turn, c
  <2>2. CASE v # w
    <3>1. at'[v] = at[v] /\ Worker(v) /\ v \in Threads /\ (v \in calling' <=> v \in calling)
      BY <1>3, <1>4, <1>7, <2>2, WorkFacts DEF Inv, Local
    <3>2. at[v] \in {"none", "gone"}
      BY <1>1, <1>2, <1>7, <2>2, Alone DEF c
    <3> QED
      BY <1>3, <1>7, <3>1, <3>2 DEF Worker, InCoroutine
  <2> QED
    BY <2>1, <2>2
<1>8. Local(c)'
  <2>1. ~InMain(c)' /\ c \in OnWorker /\ round[c] > 0
    BY <1>1, <1>2, <1>6 DEF Turn, c, Inv, Local
  <2> QED
    BY <1>1, <1>2, <1>3, <1>7, <2>1 DEF Local
<1>9. Items'
  BY <1>1, <1>2, <1>3, <1>4, OnlyItems
<1>10. ResultIsThere'
  BY <1>3, <1>4, ResultStays
<1> QED
  BY <1>1, <1>4, <1>5, <1>8, <1>9, <1>10, OnlyLocal DEF Inv

-----------------------------------------------------------------------------
LEMMA PostKeeps ==
  ASSUME Inv, NEW w \in Works, at[w] = "post", runner # "none",
         runner = "pipe" => Len(pipe) < PipeSize,
         pipe' = Append(pipe, w), at' = [at EXCEPT ![w] = "gone"],
         UNCHANGED <<status, ready, val, round, result, who, taken, heard, calling, runner>>
  PROVE  Inv'
<1> DEFINE c == w[1]
<1>1. c \in Clients /\ w \in Threads /\ w # Main /\ CoroutineOf(w) = c
  BY WorkFacts
<1>2. /\ w \notin calling /\ w[2] <= round[c] /\ Busy(c)
      /\ c \in OnWorker => w[2] = round[c] /\ ~InMain(c) /\ status[c] = "wait" /\ ready[c] = 1
  <2>1. Worker(w)
    BY <1>1 DEF Inv, Local
  <2> QED
    BY <1>1, <2>1 DEF Worker, Turn, Busy
<1> HIDE DEF c
<1>3. /\ Only(c)
      /\ at'[w] = "gone" /\ \A u \in Threads : u # w => at'[u] = at[u]
      /\ at' \in [Threads -> {"loop", "none", "run", "ready", "post", "gone", "start", "work", "check", "done"}]
      /\ round'[c] \in Nat /\ round'[c] >= round[c]
  BY <1>1, Moves
<1>4. /\ pipe' \in Seq(Works) /\ Len(pipe') = Len(pipe) + 1
      /\ DOMAIN pipe' = 1 .. Len(pipe) + 1 /\ Len(pipe) \in Nat
      /\ \A i \in DOMAIN pipe : pipe[i] \in Works /\ pipe'[i] = pipe[i]
      /\ pipe'[Len(pipe) + 1] = w /\ DOMAIN pipe = 1 .. Len(pipe)
  <2>1. pipe \in Seq(Works)
    BY DEF Inv, TypeOK
  <2> QED
    BY <2>1
<1>5. TypeOK'
  BY <1>3, <1>4, PipeAssumption DEF Inv, TypeOK
<1>6. at'[Main] = at[Main] /\ (InMain(c)' <=> InMain(c))
  BY <1>1, <1>3 DEF InMain, InCoroutine, Threads
<1>7. ASSUME NEW v \in Works, v[1] = c
      PROVE  Worker(v)'
  <2>1. CASE v = w
    BY <1>2, <1>3, <1>7, <2>1 DEF Worker, InCoroutine
  <2>2. CASE v # w
    <3>1. at'[v] = at[v] /\ Worker(v)
      BY <1>3, <1>7, <2>2, WorkFacts DEF Inv, Local
    <3> QED
      BY <1>6, <1>7, <3>1 DEF Worker, Turn, InCoroutine
  <2> QED
    BY <2>1, <2>2
<1>8. Local(c)'
  <2>1. InMain(c)' => OnMain(c)'
    BY <1>1, <1>6 DEF OnMain, MayRun, Inv, Local
  <2> QED
    BY <1>1, <1>6, <1>7, <2>1 DEF Inv, Local
<1>9. Items'
  <2>1. Sound(w)'
    BY <1>2, <1>3, <1>6 DEF Sound, c
  <2>2. ASSUME NEW v \in Works, Sound(v)
        PROVE  Sound(v)' /\ (c \in OnWorker => v[1] # c)
    BY <1>1, <1>2, <1>3, <2>2, SoundStays, NotAnItem
  <2>3. \A i \in DOMAIN pipe : Sound(pipe[i])' /\ (c \in OnWorker => pipe[i][1] # c)
    BY <1>4, <2>2 DEF Inv, Items
  <2>4. \A i \in DOMAIN taken : Sound(taken[i])' /\ (c \in OnWorker => taken[i][1] # c)
    BY <2>2, QueueFacts DEF Inv, Items
  <2>5. \A i \in DOMAIN pipe' : i \in DOMAIN pipe \/ i = Len(pipe) + 1
    BY <1>4
  <2>6. ASSUME NEW i \in DOMAIN pipe'
        PROVE  Sound(pipe[i])'
    <3>1. CASE i \in DOMAIN pipe
      BY <2>3, <3>1
    <3>2. CASE i = Len(pipe) + 1
      BY <1>4, <2>1, <3>2 DEF Sound
    <3> QED
      BY <2>5, <3>1, <3>2
  <2>7. Once(pipe') /\ Apart(pipe', taken)
    <3>1. Once(pipe) /\ Apart(pipe, taken)
      BY DEF Inv, Items
    <3> QED
      BY <1>4, <2>3, <2>4, <2>5, <3>1 DEF Once, Apart, c
  <2>8. Once(taken)
    BY DEF Inv, Items
  <2> QED
    BY <2>4, <2>6, <2>7, <2>8 DEF Items, Once, Apart
<1>10. ResultIsThere'
  BY <1>3, ResultStays
<1> QED
  BY <1>1, <1>3, <1>5, <1>8, <1>9, <1>10, OnlyLocal DEF Inv

LEMMA WorkerKeeps ==
  ASSUME Inv, StoresInOrder, NEW w \in Works, WorkerStep(w)
  PROVE  Inv'
<1>1. CASE RunFunction(w)
  BY <1>1, RunFunctionKeeps
<1>2. CASE SetReady(w)
  BY <1>2, SetReadyKeeps
<1>3. CASE main_work_queue_post(w)
  BY <1>3, PostKeeps DEF main_work_queue_post, HasRoom, Following
<1>4. CASE main_work_queue_post_stream(w)
  BY <1>4, PostKeeps DEF main_work_queue_post_stream, Following
<1>5. CASE default_main_runner(w)
  BY <1>5, MainRunnerKeeps
<1>6. CASE CoroutineStep(w, w[1])
  BY <1>6, WorkFacts, CoroutineKeeps
<1> QED
  BY <1>1, <1>2, <1>3, <1>4, <1>5, <1>6 DEF WorkerStep

-----------------------------------------------------------------------------
(* The main thread enters a coroutine, or finds that it has left.          *)
LEMMA Enters ==
  ASSUME Inv, at[Main] = "loop", NEW c \in Clients, NEW x \in {"start", "check", "loop"},
         who' = c, at' = [at EXCEPT ![Main] = x],
         UNCHANGED <<status, ready, val, round, result, calling, runner>>,
         x = "start" => status[c] = "enter" /\ round[c] = 0 /\ MayRun(c),
         x = "check" => round[c] > 0 /\ runner # "none" /\ (c \in OnWorker => ready[c] = 1),
         c \in OnWorker => ~Busy(c)
  PROVE  /\ \A d \in Clients : Local(d)'
         /\ at' \in [Threads -> {"loop", "none", "run", "ready", "post", "gone", "start", "work", "check", "done"}]
         /\ ResultIsThere'
         /\ \A v \in Works : Sound(v) /\ (c \in OnWorker => v[1] # c) => Sound(v)'
<1>1. Main \in Threads /\ \A v \in Works : v # Main /\ v \in Threads
  BY WorkFacts DEF Threads
<1>2. /\ at' \in [Threads -> {"loop", "none", "run", "ready", "post", "gone", "start", "work", "check", "done"}]
      /\ at'[Main] = x /\ \A v \in Works : at'[v] = at[v]
  BY <1>1 DEF Inv, TypeOK
<1>3. \A d \in Clients : ~InMain(d) /\ (InMain(d)' => d = c /\ x # "loop")
  BY <1>2 DEF InMain, InCoroutine
<1>4. ASSUME NEW d \in Clients
      PROVE  Local(d)'
  <2>1. ASSUME NEW v \in Works, v[1] = d
        PROVE  Worker(v)'
    <3>1. Worker(v) /\ at'[v] = at[v]
      BY <1>2, <2>1 DEF Inv, Local
    <3>2. CASE d = c /\ c \in OnWorker
      <4>1. at[v] \in {"none", "gone"}
        BY <2>1, <3>2 DEF Busy
      <4> QED
        BY <3>1, <3>2, <4>1 DEF Worker, InCoroutine
    <3>3. CASE d # c
      <4>1. ~InMain(d)'
        BY <1>3, <3>3
      <4> QED
        BY <2>1, <3>1, <4>1 DEF Worker, Turn, InCoroutine
    <3>4. CASE d \notin OnWorker
      BY <2>1, <3>1, <3>4 DEF Worker, InCoroutine
    <3> QED
      BY <3>2, <3>3, <3>4
  <2>2. InMain(d)' => OnMain(d)'
    <3>1. SUFFICES ASSUME InMain(d)'
                   PROVE  OnMain(d)'
      OBVIOUS
    <3>2. d = c /\ x \in {"start", "check"}
      BY <1>3, <3>1
    <3> QED
      BY <1>2, <3>2, RoundsAssumption DEF OnMain, MayRun
  <2>3. d \notin OnWorker => /\ status'[d] # "yield"
                             /\ round'[d] > 0 /\ ~InMain(d)' => status'[d] \in {"wait", "left"}
                             /\ runner' = "none" => round'[d] = 0
    BY <1>3 DEF Inv, Local
  <2> QED
    BY <2>1, <2>2, <2>3 DEF Inv, Local
<1>5. ResultIsThere'
  <2>1. SUFFICES ASSUME NEW s \in Threads, at'[s] = "done"
                 PROVE  result'[CoroutineOf(s)'] = round'[CoroutineOf(s)']
    BY DEF ResultIsThere
  <2>2. s \in Works
    BY <1>2, <2>1 DEF Threads
  <2>3. CoroutineOf(s)' = s[1] /\ CoroutineOf(s) = s[1] /\ at[s] = "done"
    BY <1>1, <1>2, <2>1, <2>2 DEF CoroutineOf
  <2> QED
    BY <2>1, <2>3 DEF Inv, ResultIsThere
<1>6. ASSUME NEW v \in Works, Sound(v), c \in OnWorker => v[1] # c
      PROVE  Sound(v)'
  <2>1. v[1] \in OnWorker => ~InMain(v[1])'
    BY <1>3, <1>6, WorkFacts
  <2> QED
    BY <1>2, <1>6, <2>1 DEF Sound
<1> QED
  BY <1>2, <1>4, <1>5, <1>6

LEMMA FirstCallKeeps ==
  ASSUME Inv, NEW c \in Clients, FirstCall(c)
  PROVE  Inv'
<1>1. /\ at[Main] = "loop" /\ who' = c /\ at' = [at EXCEPT ![Main] = "start"]
      /\ status[c] = "enter" /\ round[c] = 0 /\ MayRun(c)
      /\ UNCHANGED <<status, ready, val, round, result, pipe, taken, heard, calling, runner>>
  BY DEF FirstCall, Entry, queues
<1>2. ASSUME NEW v \in Works, v[1] = c
      PROVE  /\ ~Sound(v)
             /\ c \in OnWorker => at[v] \in {"none", "gone"}
  <2>1. ~(v[2] <= round[c]) /\ v[2] # round[c]
    BY <1>1, WorkFacts
  <2> QED
    BY <1>2, <2>1 DEF Sound, Inv, Local, Worker, Turn
<1>3. c \in OnWorker => ~Busy(c)
  BY <1>1, <1>2 DEF Busy, InMain, InCoroutine
<1>4. /\ \A d \in Clients : Local(d)'
      /\ at' \in [Threads -> {"loop", "none", "run", "ready", "post", "gone", "start", "work", "check", "done"}]
      /\ ResultIsThere'
      /\ \A v \in Works : Sound(v) /\ (c \in OnWorker => v[1] # c) => Sound(v)'
  BY <1>1, <1>3, Enters
<1>5. TypeOK'
  BY <1>1, <1>4 DEF Inv, TypeOK
<1>6. Items'
  <2>1. \A v \in Works : Sound(v) => Sound(v)'
    BY <1>2, <1>4
  <2>2. (\A i \in DOMAIN pipe : Sound(pipe[i])') /\ (\A i \in DOMAIN taken : Sound(taken[i])')
    BY <1>1, <2>1, QueueFacts DEF Inv, Items
  <2> QED
    BY <1>1, <2>2 DEF Inv, Items, Once, Apart
<1> QED
  BY <1>4, <1>5, <1>6 DEF Inv

LEMMA Serves ==
  ASSUME Inv, at[Main] = "loop", NEW w \in Works, Sound(w), CallBack(w)
  PROVE  /\ \A d \in Clients : Local(d)'
         /\ at' \in [Threads -> {"loop", "none", "run", "ready", "post", "gone", "start", "work", "check", "done"}]
         /\ who' \in Clients
         /\ ResultIsThere'
         /\ \A v \in Works : Sound(v) /\ (w[1] \in OnWorker => v[1] # w[1]) => Sound(v)'
         /\ UNCHANGED <<status, ready, val, round, result, calling, runner>>
<1> DEFINE c == w[1]
<1>1. c \in Clients /\ w[2] \in 1 .. Rounds
  BY WorkFacts
<1>2. /\ runner # "none" /\ w[2] <= round[c] /\ round[c] > 0
      /\ c \in OnWorker => w[2] = round[c] /\ at[w] = "gone" /\ status[c] = "wait" /\ ready[c] = 1
  BY <1>1, RoundsAssumption DEF Sound, Inv, TypeOK
<1>3. status[c] \in {"wait", "left"} /\ ~InMain(c)
  BY <1>1, <1>2 DEF Inv, Local, InMain, InCoroutine
<1> DEFINE x == IF Entry(c) = "left" THEN "loop" ELSE Entry(c)
<1>4. x \in {"check", "loop"}
  BY <1>3 DEF Entry
<1>5. /\ who' = c /\ at' = [at EXCEPT ![Main] = x]
      /\ UNCHANGED <<status, ready, val, round, result, calling, runner>>
  BY DEF CallBack
<1>6. c \in OnWorker => ~Busy(c)
  <2>1. SUFFICES ASSUME c \in OnWorker, NEW v \in Works, v[1] = c, at[v] \notin {"none", "gone"}
                 PROVE  FALSE
    BY <1>3 DEF Busy
  <2>2. v[2] = round[c]
    BY <1>1, <2>1 DEF Inv, Local, Worker, Turn
  <2> QED
    BY <1>2, <2>1, <2>2, SameWork
<1> HIDE DEF x
<1>7. x \in {"start", "check", "loop"} /\ x # "start"
  BY <1>4
<1> QED
  BY <1>1, <1>2, <1>5, <1>6, <1>7, Enters

LEMMA TailFacts ==
  ASSUME NEW S, NEW q \in Seq(S), q # << >>
  PROVE  /\ Head(q) \in S /\ Head(q) = q[1] /\ 1 \in DOMAIN q
         /\ Tail(q) \in Seq(S) /\ Len(Tail(q)) = Len(q) - 1 /\ Len(q) \in Nat
         /\ \A i \in DOMAIN Tail(q) : i \in Nat /\ i + 1 \in DOMAIN q /\ i + 1 # 1 /\ Tail(q)[i] = q[i + 1]
OBVIOUS

LEMMA ReadableKeeps ==
  ASSUME Inv, on_work_queue_readable
  PROVE  Inv'
<1> DEFINE w == Head(pipe)
<1>1. /\ at[Main] = "loop" /\ pipe # << >> /\ CallBack(w)
      /\ pipe' = Tail(pipe) /\ heard' = heard \cup {w} /\ UNCHANGED taken
  BY DEF on_work_queue_readable
<1>2. /\ w \in Works /\ w = pipe[1] /\ 1 \in DOMAIN pipe
      /\ pipe' \in Seq(Works) /\ Len(pipe') = Len(pipe) - 1 /\ Len(pipe) \in Nat
      /\ \A i \in DOMAIN pipe' : i \in Nat /\ i + 1 \in DOMAIN pipe /\ i + 1 # 1 /\ pipe'[i] = pipe[i + 1]
  BY <1>1, TailFacts DEF Inv, TypeOK
<1> HIDE DEF w
<1>3. Sound(w)
  BY <1>2 DEF Inv, Items
<1>4. /\ \A d \in Clients : Local(d)'
      /\ at' \in [Threads -> {"loop", "none", "run", "ready", "post", "gone", "start", "work", "check", "done"}]
      /\ who' \in Clients
      /\ ResultIsThere'
      /\ \A v \in Works : Sound(v) /\ (w[1] \in OnWorker => v[1] # w[1]) => Sound(v)'
      /\ UNCHANGED <<status, ready, val, round, result, calling, runner>>
  BY <1>1, <1>2, <1>3, Serves
<1>5. TypeOK'
  BY <1>1, <1>2, <1>4, PipeAssumption DEF Inv, TypeOK
<1>6. ASSUME NEW i \in DOMAIN pipe'
      PROVE  pipe'[i] \in Works /\ Sound(pipe[i])'
  <2>1. pipe'[i] = pipe[i + 1] /\ i + 1 \in DOMAIN pipe /\ i + 1 # 1
    BY <1>2
  <2> DEFINE v == pipe[i + 1]
  <2>2. v \in Works /\ Sound(v) /\ (w[1] \in OnWorker => v[1] # w[1])
    BY <1>2, <2>1, QueueFacts DEF Inv, Items, Once
  <2>3. \A u \in Works : u = v => Sound(u)'
    BY <1>4, <2>2
  <2> QED
    BY <2>1, <2>2, <2>3 DEF Sound
<1>7. ASSUME NEW i \in DOMAIN taken
      PROVE  Sound(taken[i])'
  <2>1. taken[i] \in Works /\ Sound(taken[i]) /\ (w[1] \in OnWorker => taken[i][1] # w[1])
    BY <1>2, QueueFacts DEF Inv, Items, Apart
  <2>2. \A u \in Works : u = taken[i] => Sound(u)'
    BY <1>4, <2>1
  <2> QED
    BY <1>1, <2>1, <2>2 DEF Sound
<1>8. Once(pipe') /\ Apart(pipe', taken)
  <2>1. ASSUME NEW i \in DOMAIN pipe', NEW j \in DOMAIN pipe', pipe'[i][1] \in OnWorker, pipe'[i][1] = pipe'[j][1]
        PROVE  i = j
    <3>1. i + 1 = j + 1
      BY <1>2, <2>1 DEF Inv, Items, Once
    <3> QED
      BY <1>2, <2>1, <3>1
  <2>2. Apart(pipe', taken)
    BY <1>2 DEF Inv, Items, Apart
  <2> QED
    BY <2>1, <2>2 DEF Once
<1>9. Items'
  BY <1>1, <1>6, <1>7, <1>8 DEF Inv, Items, Once, Apart
<1> QED
  BY <1>4, <1>5, <1>9 DEF Inv

LEMMA CallTakenKeeps ==
  ASSUME Inv, CallTaken
  PROVE  Inv'
<1> DEFINE w == Head(taken)
<1>1. /\ at[Main] = "loop" /\ taken # << >> /\ CallBack(w)
      /\ taken' = Tail(taken) /\ UNCHANGED <<pipe, heard>>
  BY DEF CallTaken
<1>2. /\ w \in Works /\ w = taken[1] /\ 1 \in DOMAIN taken
      /\ taken' \in Seq(Works) /\ Len(taken') = Len(taken) - 1 /\ Len(taken) \in Nat
      /\ \A i \in DOMAIN taken' : i \in Nat /\ i + 1 \in DOMAIN taken /\ i + 1 # 1 /\ taken'[i] = taken[i + 1]
  BY <1>1, TailFacts DEF Inv, TypeOK
<1> HIDE DEF w
<1>3. Sound(w)
  BY <1>2 DEF Inv, Items
<1>4. /\ \A d \in Clients : Local(d)'
      /\ at' \in [Threads -> {"loop", "none", "run", "ready", "post", "gone", "start", "work", "check", "done"}]
      /\ who' \in Clients
      /\ ResultIsThere'
      /\ \A v \in Works : Sound(v) /\ (w[1] \in OnWorker => v[1] # w[1]) => Sound(v)'
      /\ UNCHANGED <<status, ready, val, round, result, calling, runner>>
  BY <1>1, <1>2, <1>3, Serves
<1>5. TypeOK'
  BY <1>1, <1>2, <1>4, PipeAssumption DEF Inv, TypeOK
<1>6. ASSUME NEW i \in DOMAIN taken'
      PROVE  Sound(taken[i])'
  <2>1. taken'[i] = taken[i + 1] /\ i + 1 \in DOMAIN taken /\ i + 1 # 1
    BY <1>2
  <2> DEFINE v == taken[i + 1]
  <2>2. v \in Works /\ Sound(v) /\ (w[1] \in OnWorker => v[1] # w[1])
    BY <1>2, <2>1, QueueFacts DEF Inv, Items, Once
  <2>3. \A u \in Works : u = v => Sound(u)'
    BY <1>4, <2>2
  <2> QED
    BY <2>1, <2>2, <2>3 DEF Sound
<1>7. ASSUME NEW i \in DOMAIN pipe
      PROVE  Sound(pipe[i])'
  <2>1. pipe[i] \in Works /\ Sound(pipe[i]) /\ (w[1] \in OnWorker => pipe[i][1] # w[1])
    BY <1>2, QueueFacts DEF Inv, Items, Apart
  <2>2. \A u \in Works : u = pipe[i] => Sound(u)'
    BY <1>4, <2>1
  <2> QED
    BY <1>1, <2>1, <2>2 DEF Sound
<1>8. Once(taken') /\ Apart(pipe, taken')
  <2>1. ASSUME NEW i \in DOMAIN taken', NEW j \in DOMAIN taken', taken'[i][1] \in OnWorker,
               taken'[i][1] = taken'[j][1]
        PROVE  i = j
    <3>1. i + 1 = j + 1
      BY <1>2, <2>1 DEF Inv, Items, Once
    <3> QED
      BY <1>2, <2>1, <3>1
  <2>2. Apart(pipe, taken')
    BY <1>2 DEF Inv, Items, Apart
  <2> QED
    BY <2>1, <2>2 DEF Once
<1>9. Items'
  BY <1>1, <1>6, <1>7, <1>8 DEF Inv, Items, Once, Apart
<1> QED
  BY <1>4, <1>5, <1>9 DEF Inv

LEMMA TakeItemsKeeps ==
  ASSUME Inv, TakeItems
  PROVE  Inv'
<1> DEFINE n == IF Len(pipe) < Batch THEN Len(pipe) ELSE Batch
<1>1. /\ pipe # << >>
      /\ taken' = SubSeq(pipe, 1, n)
      /\ pipe' = SubSeq(pipe, n + 1, Len(pipe))
      /\ heard' = heard \cup { pipe[i] : i \in 1 .. n }
      /\ UNCHANGED <<status, ready, val, round, result, at, who, calling, runner>>
      /\ runner = "stream"
  BY DEF TakeItems, RestAfterTake
<1>2. pipe \in Seq(Works) /\ Len(pipe) \in Nat /\ DOMAIN pipe = 1 .. Len(pipe)
  BY DEF Inv, TypeOK
<1>3. n \in 1 .. Len(pipe) /\ n <= Batch
  BY <1>1, <1>2, PipeAssumption
<1> HIDE DEF n
<1>4. /\ taken' \in Seq(Works) /\ Len(taken') = n /\ DOMAIN taken' = 1 .. n
      /\ \A i \in 1 .. n : taken'[i] = pipe[i] /\ i \in DOMAIN pipe
      /\ pipe' \in Seq(Works) /\ DOMAIN pipe' = 1 .. Len(pipe) - n
      /\ \A i \in 1 .. Len(pipe) - n : pipe'[i] = pipe[n + i] /\ n + i \in DOMAIN pipe
  BY <1>1, <1>2, <1>3
<1>5. TypeOK'
  BY <1>1, <1>2, <1>3, <1>4 DEF Inv, TypeOK
<1>6. \A d \in Clients : Local(d)'
  BY <1>1, Frame DEF Inv, InMain, InCoroutine
<1>7. (\A i \in DOMAIN pipe : Sound(pipe[i])) /\ Once(pipe)
  BY DEF Inv, Items
<1>8. ASSUME NEW i \in DOMAIN pipe, NEW u, u = pipe[i]
      PROVE  Sound(u)'
  <2>1. Sound(u)
    BY <1>7, <1>8
  <2> QED
    BY <1>1, <2>1 DEF Sound, InMain, InCoroutine
<1>9. (\A i \in DOMAIN taken' : Sound(taken[i])') /\ (\A i \in DOMAIN pipe' : Sound(pipe[i])')
  <2>1. ASSUME NEW i \in DOMAIN taken'
        PROVE  Sound(taken[i])'
    BY <1>4, <1>8 DEF Sound
  <2>2. ASSUME NEW i \in DOMAIN pipe'
        PROVE  Sound(pipe[i])'
    BY <1>4, <1>8 DEF Sound
  <2> QED
    BY <2>1, <2>2
<1>10. Once(taken') /\ Once(pipe') /\ Apart(pipe', taken')
  <2>1. Once(taken')
    BY <1>4, <1>7 DEF Once
  <2>2. ASSUME NEW i \in DOMAIN pipe', NEW j \in DOMAIN pipe', pipe'[i][1] \in OnWorker, pipe'[i][1] = pipe'[j][1]
        PROVE  i = j
    <3>1. n + i = n + j
      BY <1>4, <1>7, <2>2 DEF Once
    <3> QED
      BY <1>2, <1>3, <1>4, <2>2, <3>1
  <2>3. ASSUME NEW i \in DOMAIN pipe', NEW j \in DOMAIN taken', pipe'[i][1] \in OnWorker, pipe'[i][1] = taken'[j][1]
        PROVE  FALSE
    <3>1. n + i = j
      BY <1>4, <1>7, <2>3 DEF Once
    <3> QED
      BY <1>2, <1>3, <1>4, <2>3, <3>1
  <2> QED
    BY <2>1, <2>2, <2>3 DEF Once, Apart
<1>11. Items'
  BY <1>9, <1>10 DEF Items, Once, Apart
<1>12. ResultIsThere'
  BY <1>1, ResultStays
<1> QED
  BY <1>5, <1>6, <1>11, <1>12 DEF Inv

-----------------------------------------------------------------------------
LEMMA NextKeeps ==
  ASSUME Inv, StoresInOrder, [Next]_vars
  PROVE  Inv'
<1>1. CASE \E c \in Clients : FirstCall(c)
  BY <1>1, FirstCallKeeps
<1>2. CASE on_work_queue_readable
  BY <1>2, ReadableKeeps
<1>3. CASE TakeItems
  BY <1>3, TakeItemsKeeps
<1>4. CASE CallTaken
  BY <1>4, CallTakenKeeps
<1>5. CASE \E c \in Clients : CoroutineStep(Main, c)
  BY <1>5, CoroutineKeeps DEF Threads
<1>6. CASE \E w \in Works : WorkerStep(w)
  BY <1>6, WorkerKeeps
<1>7. CASE UNCHANGED vars
  <2>1. UNCHANGED <<runner, status, ready, val, round, result, at, who, pipe, taken, heard, calling>>
    BY <1>7 DEF vars, queues
  <2>2. TypeOK'
    BY <2>1 DEF Inv, TypeOK
  <2>3. \A c \in Clients : Local(c)'
    BY <2>1, Frame DEF Inv, InMain, InCoroutine
  <2>4. Items'
    BY <2>1 DEF Inv, Items, Sound, Once, Apart, InMain, InCoroutine
  <2>5. ResultIsThere'
    BY <2>1, ResultStays
  <2> QED
    BY <2>2, <2>3, <2>4, <2>5 DEF Inv
<1> QED
  BY <1>1, <1>2, <1>3, <1>4, <1>5, <1>6, <1>7 DEF Next, MainStep

(* The state of threads, coroutines and queues keeps its types.            *)
THEOREM WorkTypeCorrect ==
  ASSUME StoresInOrder
  PROVE  Spec => []TypeOK
<1>1. Init => Inv
  BY InvInit
<1>2. Inv /\ [Next]_vars => Inv'
  BY NextKeeps
<1>3. Inv => TypeOK
  BY DEF Inv
<1> QED
  BY <1>1, <1>2, <1>3, PTL DEF Spec

(* Behind its wait (future.h:88) a coroutine finds the result of the work  *)
(* it has started last, with each way back to the main thread, although    *)
(* the wait may pass before the callback and an item of an earlier work    *)
(* may come in a later one.                                                *)
THEOREM ResultsAreThere ==
  ASSUME StoresInOrder
  PROVE  Spec => []ResultIsThere
<1>1. Init => Inv
  BY InvInit
<1>2. Inv /\ [Next]_vars => Inv'
  BY NextKeeps
<1>3. Inv => ResultIsThere
  BY DEF Inv
<1> QED
  BY <1>1, <1>2, <1>3, PTL DEF Spec

(* No two threads are in one coroutine (workasync.c:26-34 and the line     *)
(* variable of future.h:59-91, which has no lock).                         *)
THEOREM CoroutinesAreAlone ==
  ASSUME StoresInOrder
  PROVE  Spec => []OneThread
<1>1. Init => Inv
  BY InvInit
<1>2. Inv /\ [Next]_vars => Inv'
  BY NextKeeps
<1>3. Inv => OneThread
  BY InvOneThread
<1> QED
  BY <1>1, <1>2, <1>3, PTL DEF Spec
=============================================================================
