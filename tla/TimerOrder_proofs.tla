-------------------------- MODULE TimerOrder_proofs --------------------------
(***************************************************************************)
(* What timer_node_add and timer_node_remove do to any list of timers.     *)
(***************************************************************************)
EXTENDS TimerOrder, SequenceTheorems, TLAPS

-----------------------------------------------------------------------------
(* Two operators of the sequence library, element by element. *)

(* InsertAt puts one element into a sequence and shifts those behind it,    *)
(* as linking a node into the list does (timerqueue.c:115-131).             *)
LEMMA InsertAtElements ==
  ASSUME NEW S, NEW q \in Seq(S), NEW e \in S, NEW i \in 1 .. Len(q) + 1
  PROVE  /\ InsertAt(q, i, e) \in Seq(S)
         /\ Len(InsertAt(q, i, e)) = Len(q) + 1
         /\ \A j \in 1 .. i - 1 : InsertAt(q, i, e)[j] = q[j]
         /\ InsertAt(q, i, e)[i] = e
         /\ \A j \in i + 1 .. Len(q) + 1 : InsertAt(q, i, e)[j] = q[j - 1]
<1> DEFINE a == SubSeq(q, 1, i - 1)
           b == SubSeq(q, i, Len(q))
           c == a \o <<e>>
<1>1. Len(q) \in Nat /\ i \in Nat /\ i >= 1 /\ i <= Len(q) + 1
  OBVIOUS
<1>2. a \in Seq(S) /\ Len(a) = i - 1 /\ \A j \in 1 .. i - 1 : a[j] = q[j]
  BY <1>1
<1>3. /\ b \in Seq(S) /\ Len(b) = Len(q) - i + 1
      /\ \A j \in 1 .. Len(q) - i + 1 : b[j] = q[i + j - 1]
  BY <1>1
<1>4. InsertAt(q, i, e) = c \o b
  BY DEF InsertAt
<1> HIDE DEF a, b
<1>5. /\ c \in Seq(S) /\ Len(c) = i /\ c[i] = e
      /\ \A j \in 1 .. i - 1 : c[j] = q[j]
  BY <1>1, <1>2
<1> HIDE DEF c
<1>6. c \o b \in Seq(S) /\ Len(c \o b) = Len(q) + 1
  BY <1>1, <1>3, <1>5
<1>7. ASSUME NEW j \in 1 .. i - 1 PROVE (c \o b)[j] = q[j]
  BY <1>1, <1>3, <1>5
<1>8. (c \o b)[i] = e
  BY <1>1, <1>3, <1>5
<1>9. ASSUME NEW j \in i + 1 .. Len(q) + 1 PROVE (c \o b)[j] = q[j - 1]
  <2>1. (c \o b)[j] = b[j - i]
    BY <1>1, <1>3, <1>5
  <2>2. j - i \in 1 .. Len(q) - i + 1 /\ i + (j - i) - 1 = j - 1
    BY <1>1
  <2> QED
    BY <2>1, <2>2, <1>3
<1> QED
  BY <1>4, <1>6, <1>7, <1>8, <1>9

(* RemoveAt takes one element out of a sequence, as unlinking a node does   *)
(* (timerqueue.c:137-145).                                                  *)
LEMMA RemoveAtElements ==
  ASSUME NEW S, NEW q \in Seq(S), NEW i \in 1 .. Len(q)
  PROVE  /\ RemoveAt(q, i) \in Seq(S)
         /\ Len(RemoveAt(q, i)) = Len(q) - 1
         /\ \A j \in 1 .. i - 1 : RemoveAt(q, i)[j] = q[j]
         /\ \A j \in i .. Len(q) - 1 : RemoveAt(q, i)[j] = q[j + 1]
<1> DEFINE a == SubSeq(q, 1, i - 1)
           b == SubSeq(q, i + 1, Len(q))
<1>1. Len(q) \in Nat /\ i \in Nat /\ i >= 1 /\ i <= Len(q)
  OBVIOUS
<1>2. a \in Seq(S) /\ Len(a) = i - 1 /\ \A j \in 1 .. i - 1 : a[j] = q[j]
  BY <1>1
<1>3. /\ b \in Seq(S) /\ Len(b) = Len(q) - i
      /\ \A j \in 1 .. Len(q) - i : b[j] = q[i + j]
  BY <1>1
<1>4. RemoveAt(q, i) = a \o b
  BY DEF RemoveAt
<1> HIDE DEF a, b
<1>5. a \o b \in Seq(S) /\ Len(a \o b) = Len(q) - 1
  <2>1. a \o b \in Seq(S) /\ Len(a \o b) = Len(a) + Len(b)
    BY <1>2, <1>3, ConcatProperties
  <2> QED
    BY <2>1, <1>1, <1>2, <1>3
<1>6. ASSUME NEW j \in 1 .. i - 1 PROVE (a \o b)[j] = q[j]
  BY <1>1, <1>2, <1>3
<1>7. ASSUME NEW j \in i .. Len(q) - 1 PROVE (a \o b)[j] = q[j + 1]
  <2>1. (a \o b)[j] = b[j - (i - 1)]
    BY <1>1, <1>2, <1>3
  <2>2. j - (i - 1) \in 1 .. Len(q) - i /\ i + (j - (i - 1)) = j + 1
    BY <1>1
  <2> QED
    BY <2>1, <2>2, <1>3
<1> QED
  BY <1>4, <1>5, <1>6, <1>7

-----------------------------------------------------------------------------
(* The two operations on the list.                                         *)

Ordered(q, ex) ==
  \A i, j \in 1 .. Len(q) : i < j => q[i] # q[j] /\ ex[q[i]] <= ex[q[j]]

(* InsertAt, of a list of timers. *)
LEMMA InsertTimer ==
  ASSUME NEW q \in Seq(Timers), NEW t \in Timers, NEW i \in 1 .. Len(q) + 1
  PROVE  /\ InsertAt(q, i, t) \in Seq(Timers)
         /\ Len(InsertAt(q, i, t)) = Len(q) + 1
         /\ \A j \in 1 .. i - 1 : InsertAt(q, i, t)[j] = q[j]
         /\ InsertAt(q, i, t)[i] = t
         /\ \A j \in i + 1 .. Len(q) + 1 : InsertAt(q, i, t)[j] = q[j - 1]
BY InsertAtElements, SMTT(60)

(* timer_node_add puts the node on the list, takes nothing off it, and     *)
(* keeps it sorted (lines 105-134).                                        *)
LEMMA NodeAddKeepsOrder ==
  ASSUME NEW q \in Seq(Timers), NEW ex \in [Timers -> Nat], Ordered(q, ex),
         NEW t \in Timers, t \notin Range(q), NEW r \in NodeAdd(q, ex, t)
  PROVE  /\ r \in Seq(Timers)
         /\ Range(r) = Range(q) \cup {t}
         /\ Ordered(r, ex)
         /\ r # << >> /\ (r[1] = t \/ (q # << >> /\ r[1] = q[1]))
<1> DEFINE n == Len(q)
<1>1. PICK i \in 1 .. n + 1 :
        /\ \A j \in 1 .. i - 1 : ex[q[j]] < ex[t]
        /\ i <= n => ex[q[i]] >= ex[t]
        /\ r = InsertAt(q, i, t)
  BY DEF NodeAdd
<1>2. n \in Nat /\ i \in Nat /\ i >= 1 /\ i <= n + 1 /\ DOMAIN q = 1 .. n
  OBVIOUS
<1>3. \A j \in 1 .. n : q[j] \in Timers /\ ex[q[j]] \in Nat /\ q[j] # t
  BY DEF Range
<1>4. /\ r \in Seq(Timers)
      /\ Len(r) = n + 1
      /\ \A j \in 1 .. i - 1 : r[j] = q[j]
      /\ r[i] = t
      /\ \A j \in i + 1 .. n + 1 : r[j] = q[j - 1]
  <2> DEFINE s == InsertAt(q, i, t)
  <2>1. /\ s \in Seq(Timers)
        /\ Len(s) = n + 1
        /\ \A j \in 1 .. i - 1 : s[j] = q[j]
        /\ s[i] = t
        /\ \A j \in i + 1 .. n + 1 : s[j] = q[j - 1]
    <3>1. i \in 1 .. Len(q) + 1
      OBVIOUS
    <3>2. /\ s \in Seq(Timers)
          /\ Len(s) = Len(q) + 1
          /\ \A j \in 1 .. i - 1 : s[j] = q[j]
          /\ s[i] = t
          /\ \A j \in i + 1 .. Len(q) + 1 : s[j] = q[j - 1]
      BY <3>1, InsertTimer
    <3> QED
      BY <3>2
  <2>2. r = s
    BY <1>1
  <2> HIDE DEF s
  <2> QED
    BY <2>1, <2>2
<1>5. Ordered(q, ex) <=>
        \A j, k \in 1 .. n : j < k => q[j] # q[k] /\ ex[q[j]] <= ex[q[k]]
  BY DEF Ordered
<1> HIDE DEF n
<1>6. DOMAIN r = 1 .. n + 1
  BY <1>4
<1>7. Range(r) = Range(q) \cup {t}
  <2>1. ASSUME NEW j \in 1 .. n + 1 PROVE r[j] \in Range(q) \cup {t}
    <3>1. CASE j < i
      <4>1. j \in 1 .. i - 1 /\ j \in 1 .. n
        BY <3>1, <1>2
      <4> QED
        BY <4>1, <1>2, <1>4 DEF Range
    <3>2. CASE j = i
      BY <3>2, <1>4
    <3>3. CASE j > i
      <4>1. j \in i + 1 .. n + 1 /\ j - 1 \in 1 .. n
        BY <3>3, <1>2
      <4> QED
        BY <4>1, <1>2, <1>4 DEF Range
    <3> QED
      BY <3>1, <3>2, <3>3, <1>2
  <2>2. t \in Range(r)
    BY <1>2, <1>4, <1>6 DEF Range
  <2>3. ASSUME NEW j \in 1 .. n PROVE q[j] \in Range(r)
    <3>1. CASE j < i
      <4>1. j \in 1 .. i - 1 /\ j \in 1 .. n + 1
        BY <3>1, <1>2
      <4> QED
        BY <4>1, <1>4, <1>6 DEF Range
    <3>2. CASE j >= i
      <4>1. j + 1 \in i + 1 .. n + 1 /\ j + 1 \in 1 .. n + 1 /\ (j + 1) - 1 = j
        BY <3>2, <1>2
      <4>2. r[j + 1] = q[j]
        BY <4>1, <1>4
      <4> QED
        BY <4>1, <4>2, <1>6 DEF Range
    <3> QED
      BY <3>1, <3>2, <1>2
  <2>4. Range(r) \subseteq Range(q) \cup {t}
    BY <2>1, <1>6 DEF Range
  <2>5. Range(q) \subseteq Range(r)
    BY <2>3, <1>2 DEF Range
  <2> QED
    BY <2>2, <2>4, <2>5
<1>8. ASSUME NEW j \in 1 .. n, j >= i PROVE ex[q[j]] >= ex[t]
  <2>1. i \in 1 .. n /\ ex[q[i]] >= ex[t] /\ ex[t] \in Nat
    BY <1>1, <1>2, <1>8
  <2>2. ex[q[i]] <= ex[q[j]]
    BY <2>1, <1>2, <1>3, <1>5, <1>8
  <2> QED
    BY <2>1, <2>2, <1>3
<1>9. ASSUME NEW j \in 1 .. n + 1, NEW k \in 1 .. n + 1, j < k
      PROVE  r[j] # r[k] /\ ex[r[j]] <= ex[r[k]]
  <2>1. CASE k < i
    <3>1. j \in 1 .. i - 1 /\ k \in 1 .. i - 1 /\ j \in 1 .. n /\ k \in 1 .. n
      BY <2>1, <1>2, <1>9
    <3> QED
      BY <3>1, <1>4, <1>5, <1>9
  <2>2. CASE k = i
    <3>1. j \in 1 .. i - 1 /\ j \in 1 .. n
      BY <2>2, <1>2, <1>9
    <3>2. r[j] = q[j] /\ r[k] = t /\ ex[q[j]] < ex[t] /\ q[j] # t
      BY <3>1, <2>2, <1>1, <1>3, <1>4
    <3> QED
      BY <3>1, <3>2, <1>3
  <2>3. CASE k > i
    <3>1. k \in i + 1 .. n + 1 /\ k - 1 \in 1 .. n /\ k - 1 >= i
      BY <2>3, <1>2
    <3>2. r[k] = q[k - 1]
      BY <3>1, <1>4
    <3>3. CASE j < i
      <4>1. j \in 1 .. i - 1 /\ j \in 1 .. n /\ j < k - 1
        BY <3>1, <3>3, <1>2
      <4> QED
        BY <3>1, <3>2, <4>1, <1>4, <1>5
    <3>4. CASE j = i
      BY <3>1, <3>2, <3>4, <1>3, <1>4, <1>8
    <3>5. CASE j > i
      <4>1. j \in i + 1 .. n + 1 /\ j - 1 \in 1 .. n /\ j - 1 < k - 1
        BY <3>1, <3>5, <1>2, <1>9
      <4>2. r[j] = q[j - 1]
        BY <4>1, <1>4
      <4> QED
        BY <3>1, <3>2, <4>1, <4>2, <1>5
    <3> QED
      BY <3>3, <3>4, <3>5, <1>2
  <2> QED
    BY <2>1, <2>2, <2>3, <1>2
<1>10. r # << >> /\ (r[1] = t \/ (q # << >> /\ r[1] = q[1]))
  <2>1. r # << >>
    BY <1>2, <1>4
  <2>2. CASE i = 1
    BY <2>1, <2>2, <1>4
  <2>3. CASE i # 1
    <3>1. 1 \in 1 .. i - 1 /\ n >= 1
      BY <2>3, <1>2
    <3> QED
      BY <2>1, <3>1, <1>4 DEF n
  <2> QED
    BY <2>2, <2>3
<1> QED
  BY <1>4, <1>7, <1>9, <1>10 DEF Ordered

(* Where a timer of the list stands. *)
LEMMA PositionOfQueued ==
  ASSUME NEW q \in Seq(Timers), NEW t \in Range(q)
  PROVE  Position(q, t) \in 1 .. Len(q) /\ q[Position(q, t)] = t
BY DEF Position, Range

(* timer_node_remove takes the node off the list, nothing else, and keeps  *)
(* the list sorted; the first deadline does not become earlier             *)
(* (lines 136-153).                                                        *)
LEMMA NodeRemoveKeepsOrder ==
  ASSUME NEW q \in Seq(Timers), NEW ex \in [Timers -> Nat], Ordered(q, ex),
         NEW t \in Timers
  PROVE  /\ NodeRemove(q, t) \in Seq(Timers)
         /\ Range(NodeRemove(q, t)) = Range(q) \ {t}
         /\ Ordered(NodeRemove(q, t), ex)
         /\ NodeRemove(q, t) # << >>
              => q # << >> /\ ex[NodeRemove(q, t)[1]] >= ex[q[1]]
<1> DEFINE r == NodeRemove(q, t)
           i == Position(q, t)
           n == Len(q)
<1>1. n \in Nat /\ DOMAIN q = 1 .. n
  OBVIOUS
<1>2. \A j \in 1 .. n : q[j] \in Timers /\ ex[q[j]] \in Nat
  OBVIOUS
<1>3. \A j, k \in 1 .. n : j < k => q[j] # q[k] /\ ex[q[j]] <= ex[q[k]]
  BY DEF Ordered
<1>4. CASE t \notin Range(q)
  <2>1. r = q
    BY <1>4 DEF NodeRemove
  <2>2. q # << >> => ex[q[1]] >= ex[q[1]]
    <3>1. q # << >> => 1 \in 1 .. n
      OBVIOUS
    <3> QED
      BY <3>1, <1>2
  <2> QED
    BY <2>1, <2>2, <1>4
<1>5. CASE t \in Range(q)
  <2>1. i \in 1 .. n /\ q[i] = t /\ r = RemoveAt(q, i)
    BY <1>5, PositionOfQueued DEF NodeRemove
  <2>2. /\ r \in Seq(Timers)
        /\ Len(r) = n - 1
        /\ \A j \in 1 .. i - 1 : r[j] = q[j]
        /\ \A j \in i .. n - 1 : r[j] = q[j + 1]
    BY <2>1, RemoveAtElements, ZenonT(60)
  <2>3. r = NodeRemove(q, t) /\ n = Len(q) /\ DOMAIN r = 1 .. n - 1
    BY <2>2
  <2> HIDE DEF r, i, n
  <2>4. i \in Nat /\ i >= 1 /\ i <= n
    BY <2>1, <1>1
  <2>5. ASSUME NEW j \in 1 .. n, j # i PROVE q[j] # t
    <3>1. j < i \/ i < j
      BY <2>4, <2>5, <1>1
    <3> QED
      BY <3>1, <2>1, <1>3
  <2>6. ASSUME NEW j \in 1 .. n - 1
        PROVE  \/ j < i /\ j \in 1 .. n /\ r[j] = q[j]
               \/ j >= i /\ j + 1 \in 1 .. n /\ r[j] = q[j + 1]
    <3>1. CASE j < i
      <4>1. j \in 1 .. i - 1 /\ j \in 1 .. n
        BY <3>1, <2>4, <1>1
      <4> QED
        BY <3>1, <4>1, <2>2
    <3>2. CASE j >= i
      <4>1. j \in i .. n - 1 /\ j + 1 \in 1 .. n
        BY <3>2, <2>4, <1>1
      <4> QED
        BY <3>2, <4>1, <2>2
    <3> QED
      BY <3>1, <3>2, <2>4, <1>1
  <2>7. Range(r) = Range(q) \ {t}
    <3>1. ASSUME NEW j \in 1 .. n - 1 PROVE r[j] \in Range(q) \ {t}
      <4>1. PICK k \in 1 .. n : k # i /\ r[j] = q[k]
        <5>1. CASE j < i /\ j \in 1 .. n /\ r[j] = q[j]
          BY <5>1, <2>4, <1>1
        <5>2. CASE j >= i /\ j + 1 \in 1 .. n /\ r[j] = q[j + 1]
          <6>1. j + 1 # i
            BY <5>2, <2>4, <1>1
          <6> QED
            BY <5>2, <6>1
        <5> QED
          BY <5>1, <5>2, <2>6
      <4> QED
        BY <4>1, <2>5, <1>1 DEF Range
    <3>2. ASSUME NEW j \in 1 .. n, q[j] # t PROVE q[j] \in Range(r)
      <4>1. j # i
        BY <2>1, <3>2
      <4>2. CASE j < i
        <5>1. j \in 1 .. i - 1 /\ j \in 1 .. n - 1
          BY <4>2, <2>4, <1>1
        <5> QED
          BY <5>1, <2>2, <2>3 DEF Range
      <4>3. CASE j > i
        <5>1. j - 1 \in i .. n - 1 /\ j - 1 \in 1 .. n - 1 /\ (j - 1) + 1 = j
          BY <4>3, <2>4, <1>1
        <5>2. r[j - 1] = q[j]
          BY <5>1, <2>2
        <5> QED
          BY <5>1, <5>2, <2>3 DEF Range
      <4> QED
        BY <4>1, <4>2, <4>3, <2>4, <1>1
    <3>3. Range(r) \subseteq Range(q) \ {t}
      BY <3>1, <2>3 DEF Range
    <3>4. Range(q) \ {t} \subseteq Range(r)
      BY <3>2, <1>1 DEF Range
    <3> QED
      BY <3>3, <3>4
  <2>8. ASSUME NEW j \in 1 .. n - 1, NEW k \in 1 .. n - 1, j < k
        PROVE  r[j] # r[k] /\ ex[r[j]] <= ex[r[k]]
    <3>1. PICK a \in 1 .. n, b \in 1 .. n : a < b /\ r[j] = q[a] /\ r[k] = q[b]
      <4>1. CASE k < i
        <5>1. j < i
          BY <4>1, <2>4, <2>8
        <5>2. /\ j \in 1 .. n /\ r[j] = q[j]
              /\ k \in 1 .. n /\ r[k] = q[k]
          BY <5>1, <4>1, <2>4, <2>6
        <5> QED
          BY <5>2, <2>8
      <4>2. CASE k >= i /\ j < i
        <5>1. j < k + 1
          BY <2>8
        <5>2. /\ j \in 1 .. n /\ r[j] = q[j]
              /\ k + 1 \in 1 .. n /\ r[k] = q[k + 1]
          BY <4>2, <2>4, <2>6
        <5> QED
          BY <5>1, <5>2
      <4>3. CASE k >= i /\ j >= i
        <5>1. j + 1 < k + 1
          BY <2>8
        <5>2. /\ j + 1 \in 1 .. n /\ r[j] = q[j + 1]
              /\ k + 1 \in 1 .. n /\ r[k] = q[k + 1]
          BY <4>3, <2>4, <2>6
        <5> QED
          BY <5>1, <5>2
      <4> QED
        BY <4>1, <4>2, <4>3, <2>4, <2>8, <1>1
    <3> QED
      BY <3>1, <1>3
  <2>9. r # << >> => q # << >> /\ ex[r[1]] >= ex[q[1]]
    <3>1. SUFFICES ASSUME r # << >> PROVE q # << >> /\ ex[r[1]] >= ex[q[1]]
      OBVIOUS
    <3>2. n - 1 >= 1 /\ q # << >>
      BY <3>1, <2>2, <2>3, <1>1
    <3>3. 1 \in 1 .. n - 1 /\ 1 \in 1 .. n /\ 2 \in 1 .. n
      BY <3>2, <1>1
    <3>4. r[1] = q[1] \/ r[1] = q[1 + 1]
      BY <3>3, <2>6
    <3>5. ex[q[1]] <= ex[q[2]]
      BY <3>3, <1>3
    <3> QED
      BY <3>2, <3>3, <3>4, <3>5, <1>2
  <2>10. Ordered(r, ex)
    BY <2>3, <2>8, SMTT(30) DEF Ordered
  <2> QED
    BY <2>2, <2>3, <2>7, <2>9, <2>10, ZenonT(60)
<1> QED
  BY <1>4, <1>5

(* The node behind a timer of the list is another one, or there is none. *)
LEMMA SuccessorIsQueued ==
  ASSUME NEW q \in Seq(Timers), NEW ex, Ordered(q, ex), NEW t \in Range(q)
  PROVE  Successor(q, t) \in (Range(q) \ {t}) \cup {NULL}
<1>1. /\ Position(q, t) \in 1 .. Len(q) /\ q[Position(q, t)] = t
      /\ Len(q) \in Nat /\ DOMAIN q = 1 .. Len(q)
  BY PositionOfQueued
<1>2. CASE Position(q, t) < Len(q)
  <2>1. /\ Position(q, t) + 1 \in DOMAIN q
        /\ Successor(q, t) = q[Position(q, t) + 1]
        /\ q[Position(q, t)] # q[Position(q, t) + 1]
    BY <1>1, <1>2 DEF Successor, Ordered
  <2> QED
    BY <1>1, <2>1 DEF Range
<1>3. CASE ~(Position(q, t) < Len(q))
  BY <1>3 DEF Successor
<1> QED
  BY <1>2, <1>3

(* After a removal the place of the pass is on the list again. *)
LEMMA CurAfterRemoveIsQueued ==
  ASSUME NEW q \in Seq(Timers), NEW ex, Ordered(q, ex), NEW t \in Timers,
         NEW cur \in Range(q) \cup {NULL}
  PROVE  CurAfterRemove(q, cur, t) \in (Range(q) \ {t}) \cup {NULL}
<1>1. CASE cur = t /\ t \in Range(q)
  BY <1>1, SuccessorIsQueued DEF CurAfterRemove
<1>2. CASE ~(cur = t /\ t \in Range(q))
  BY <1>2, NullAssumption DEF CurAfterRemove
<1> QED
  BY <1>1, <1>2
=============================================================================
