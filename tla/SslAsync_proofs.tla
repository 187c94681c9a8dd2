--------------------------- MODULE SslAsync_proofs ---------------------------
(***************************************************************************)
(* Proofs about the sessions over TLS, for every handshake, whether it     *)
(* fails or not, any number of records and every size of the buffer: a     *)
(* session waits for one call at a time, or for none when its handshake    *)
(* has failed, and handles each record once, in the order they were sent.  *)
(***************************************************************************)
EXTENDS SslAsync, FiniteSetTheorems, NaturalsInduction, WellFoundedInduction, TLAPS

-----------------------------------------------------------------------------
(* A set of numbers that is not empty has a least one.                     *)
LEMMA LeastExists ==
  ASSUME NEW S \in SUBSET Nat, S # {}
  PROVE  Min(S) \in S /\ \A y \in S : Min(S) <= y
<1> DEFINE R == OpToRel(<, Nat)
<1>1. \E x \in S : \A y \in S : ~(<<y, x>> \in R)
  BY WFMin, NatLessThanWellFounded
<1>2. ASSUME NEW x \in Nat, NEW y \in Nat, y < x
      PROVE  <<y, x>> \in R
  <2>1. <<y, x>> \in Nat \X Nat /\ <<y, x>>[1] < <<y, x>>[2]
    BY <1>2
  <2> QED
    BY <2>1 DEF OpToRel
<1> HIDE DEF R
<1>3. PICK x \in S : \A y \in S : ~(<<y, x>> \in R)
  BY <1>1
<1>4. \A y \in S : x <= y
  <2> SUFFICES ASSUME NEW y \in S
               PROVE  x <= y
    OBVIOUS
  <2>1. x \in Nat /\ y \in Nat
    OBVIOUS
  <2>2. ~(y < x)
    BY <1>2, <1>3, <2>1
  <2> QED
    BY <2>1, <2>2
<1> QED
  BY <1>4 DEF Min

LEMMA RecordIsFirst ==
  ASSUME NEW units \in Seq(Nat)
  PROVE  /\ Record(units) \in 0 .. Len(units)
         /\ Record(units) = 0 <=> \A i \in 1 .. Len(units) : units[i] = 0
         /\ Record(units) # 0 => /\ units[Record(units)] # 0
                                 /\ \A i \in 1 .. Len(units) : i < Record(units) => units[i] = 0
<1> DEFINE I == { i \in 1 .. Len(units) : units[i] # 0 }
<1>1. Record(units) = IF I # {} THEN Min(I) ELSE 0
  BY DEF Record, SelectInSeq
<1>2. CASE I = {}
  BY <1>1, <1>2
<1>3. CASE I # {}
  <2> I \in SUBSET Nat
    OBVIOUS
  <2> HIDE DEF I
  <2>1. Min(I) \in I /\ \A y \in I : Min(I) <= y
    BY <1>3, LeastExists
  <2>2. Record(units) \in I /\ \A y \in I : Record(units) <= y
    BY <1>1, <1>3, <2>1
  <2> QED
    BY <2>2 DEF I
<1> QED
  BY <1>2, <1>3

(* A set of numbers that has a bound has a greatest one.                   *)
LEMMA GreatestExists ==
  ASSUME NEW b \in Nat, NEW S \in SUBSET (0 .. b), S # {}
  PROVE  Max(S) \in S /\ \A y \in S : Max(S) >= y
<1> DEFINE T == { b - x : x \in S }
<1>1. T \in SUBSET Nat /\ T # {}
  <2>1. \A x \in S : x \in 0 .. b /\ b - x \in Nat
    OBVIOUS
  <2>2. PICK x \in S : TRUE
    OBVIOUS
  <2>3. b - x \in T
    OBVIOUS
  <2> QED
    BY <2>1, <2>3
<1>2. Min(T) \in T /\ \A y \in T : Min(T) <= y
  <2> HIDE DEF T
  <2> QED
    BY <1>1, LeastExists
<1>3. PICK x \in S : Min(T) = b - x
  BY <1>2
<1>4. ASSUME NEW y \in S
      PROVE  x >= y
  <2>1. b - y \in T
    OBVIOUS
  <2>2. b - x <= b - y
    BY <1>2, <1>3, <2>1
  <2> QED
    BY <2>2
<1> QED
  BY <1>4 DEF Max

(* Activations are entered at the front of the stack and leave from there. *)
LEMMA Entered ==
  ASSUME NEW T, NEW a \in T, NEW s \in Seq(T)
  PROVE  LET t == <<a>> \o s
         IN  /\ t \in Seq(T) /\ t # << >> /\ Len(t) = Len(s) + 1 /\ t[1] = a
             /\ \A i \in DOMAIN t : i # 1 => i - 1 \in DOMAIN s /\ t[i] = s[i - 1]
  OBVIOUS

LEMMA Left ==
  ASSUME NEW T, NEW s \in Seq(T), s # << >>
  PROVE  /\ Tail(s) \in Seq(T) /\ Len(Tail(s)) = Len(s) - 1 /\ Head(s) = s[1] /\ 1 \in DOMAIN s
         /\ \A i \in DOMAIN Tail(s) : i + 1 \in DOMAIN s /\ i + 1 # 1 /\ Tail(s)[i] = s[i + 1]
         /\ (Tail(s) = << >>) <=> (Len(s) = 1)
<1>1. /\ Tail(s) \in Seq(T) /\ Len(Tail(s)) = Len(s) - 1 /\ Head(s) = s[1] /\ 1 \in DOMAIN s
      /\ Len(s) \in Nat
  OBVIOUS
<1>2. \A i \in DOMAIN Tail(s) : i + 1 \in DOMAIN s /\ i + 1 # 1 /\ Tail(s)[i] = s[i + 1]
  OBVIOUS
<1>3. (Tail(s) = << >>) <=> (Len(Tail(s)) = 0)
  BY <1>1
<1> QED
  BY <1>1, <1>2, <1>3

LEMMA Moved ==
  ASSUME NEW T, NEW a \in T, NEW s \in Seq(T), s # << >>
  PROVE  LET t == <<a>> \o Tail(s)
         IN  /\ t \in Seq(T) /\ t # << >> /\ Len(t) = Len(s) /\ t[1] = a
             /\ \A i \in DOMAIN t : i # 1 => i \in DOMAIN s /\ t[i] = s[i]
<1>1. Tail(s) \in Seq(T) /\ Len(Tail(s)) = Len(s) - 1
      /\ \A i \in DOMAIN Tail(s) : i + 1 \in DOMAIN s /\ Tail(s)[i] = s[i + 1]
  BY Left
<1> DEFINE u == Tail(s)
<1>2. /\ <<a>> \o u \in Seq(T) /\ <<a>> \o u # << >> /\ Len(<<a>> \o u) = Len(u) + 1 /\ (<<a>> \o u)[1] = a
      /\ \A i \in DOMAIN (<<a>> \o u) : i # 1 => i - 1 \in DOMAIN u /\ (<<a>> \o u)[i] = u[i - 1]
  <2> HIDE DEF u
  <2> QED
    BY <1>1, Entered DEF u
<1>3. ASSUME NEW i \in DOMAIN (<<a>> \o u), i # 1
      PROVE  i \in DOMAIN s /\ (<<a>> \o u)[i] = s[i]
  <2>1. i - 1 \in DOMAIN u /\ (<<a>> \o u)[i] = u[i - 1] /\ i \in Nat
    BY <1>2, <1>3
  <2>2. i - 1 + 1 = i
    BY <2>1
  <2> QED
    BY <1>1, <2>1, <2>2
<1> QED
  BY <1>1, <1>2, <1>3

-----------------------------------------------------------------------------
(* The calls of a session and the callbacks of the context.                *)
Calling == {"connect", "handshake", "send", "recv"}
Acts == [at : {"call", "wait"}, op : Calling]
Callbacks == {"none", "connect", "handshake", "send", "recv"}
Units == 0 .. Bye
Result == [ready : 0 .. 1, error : -1 .. 1, length : 0 .. Bye]

SslTypes ==
  /\ side \in Sides
  /\ hs \in 0 .. Len(Flight) /\ bioin \in Seq(Units) /\ bioout \in Nat
  /\ pending \in [{"recv", "send"} -> Callbacks]
  /\ refused \in BOOLEAN /\ recved_ \in BOOLEAN /\ notify \in Result
  /\ step \in Calling \cup {"enter", "gone"} /\ stack \in Seq(Acts) /\ handled \in Seq(Units)
  /\ net \in Seq(Units) /\ came \in Nat /\ got \in Nat /\ closed \in BOOLEAN /\ broken \in BOOLEAN
  /\ came <= Ins + MaxRecords

NoCall == pending["recv"] = "none" /\ pending["send"] = "none"
OneCall == (pending["recv"] = "none") # (pending["send"] = "none")

(* A handshake that has failed is told to nobody when all is sent.         *)
Quiet == refused /\ bioout = 0 /\ NoCall
Held == OneCall \/ Quiet

(* The flights of the handshake.                                           *)
LEMMA FlightTyped ==
  ASSUME side \in Sides
  PROVE  Flight \in Seq({"in", "out"}) /\ Len(Flight) \in Nat /\ Len(Flight) > 0
BY FlightsAssumption DEF Flight

LEMMA Counts ==
  ASSUME side \in Sides, NEW n \in 0 .. Len(Flight), NEW m \in 0 .. n, NEW dir
  PROVE  Count(n, dir) \in Nat /\ Count(m, dir) \in Nat /\ Count(m, dir) <= Count(n, dir)
<1> DEFINE C(k) == { i \in 1 .. k : Flight[i] = dir }
<1>1. n \in Nat /\ m \in Nat /\ m <= n
  BY FlightTyped
<1>2. IsFiniteSet(1 .. n)
  BY <1>1, FS_Interval
<1>3. C(n) \subseteq 1 .. n /\ C(m) \subseteq C(n)
  BY <1>1
<1>4. IsFiniteSet(C(n)) /\ IsFiniteSet(C(m))
  BY <1>2, <1>3, FS_Subset
<1>5. Cardinality(C(m)) <= Cardinality(C(n)) /\ Cardinality(C(n)) \in Nat /\ Cardinality(C(m)) \in Nat
  BY <1>3, <1>4, FS_Subset, FS_CardinalityType
<1> QED
  BY <1>5 DEF Count

LEMMA NothingAtFirst ==
  ASSUME NEW dir
  PROVE  Count(0, dir) = 0
<1>1. { i \in 1 .. 0 : Flight[i] = dir } = {}
  OBVIOUS
<1> QED
  BY <1>1, FS_EmptySet DEF Count

LEMMA FlightCounted ==
  ASSUME side \in Sides, NEW n \in 1 .. Len(Flight)
  PROVE  Count(n, "in") > 0 \/ Count(n, "out") > 0
<1>1. PICK dir \in {"in", "out"} : Flight[1] = dir
  BY FlightTyped
<1> DEFINE C == { i \in 1 .. n : Flight[i] = dir }
<1>2. n \in Nat /\ 1 \in C
  BY <1>1, FlightTyped
<1>3. IsFiniteSet(C)
  <2>1. IsFiniteSet(1 .. n)
    BY <1>2, FS_Interval
  <2>2. C \subseteq 1 .. n
    OBVIOUS
  <2> HIDE DEF C
  <2> QED
    BY <2>1, <2>2, FS_Subset
<1>4. Cardinality(C) # 0 /\ Cardinality(C) \in Nat
  BY <1>2, <1>3, FS_EmptySet, FS_CardinalityType
<1>5. Count(n, dir) > 0
  BY <1>4 DEF Count
<1> QED
  BY <1>5

LEMMA ZerosCounted ==
  ASSUME NEW units \in Seq(Units)
  PROVE  Cardinality({ i \in DOMAIN units : units[i] = 0 }) \in Nat
<1>1. IsFiniteSet(DOMAIN units)
  BY FS_Interval
<1>2. IsFiniteSet({ i \in DOMAIN units : units[i] = 0 })
  BY <1>1, FS_Subset
<1> QED
  BY <1>2, FS_CardinalityType

LEMMA FurthestFits ==
  ASSUME side \in Sides, hs \in 0 .. Len(Flight), NEW units \in Seq(Units)
  PROVE  /\ Furthest(units) \in hs .. Len(Flight)
         /\ Count(Furthest(units), "in") - Count(hs, "in") <= Cardinality({ i \in DOMAIN units : units[i] = 0 })
<1> DEFINE Z == Cardinality({ i \in DOMAIN units : units[i] = 0 })
           S == { n \in hs .. Len(Flight) : Count(n, "in") - Count(hs, "in") <= Z }
<1>1. Z \in Nat
  BY ZerosCounted
<1>2. Count(hs, "in") - Count(hs, "in") = 0
  <2>1. Count(hs, "in") \in Nat
    BY Counts
  <2> QED
    BY <2>1
<1> HIDE DEF Z
<1>3. hs \in S /\ S \in SUBSET (0 .. Len(Flight)) /\ Len(Flight) \in Nat
  BY <1>1, <1>2, FlightTyped
<1>4. Max(S) \in S
  <2> HIDE DEF S
  <2> QED
    BY <1>3, GreatestExists
<1> QED
  BY <1>4 DEF Furthest, Z

(* With nothing received a handshake that begins has something to send or  *)
(* something to receive.                                                   *)
LEMMA NotAtOnce ==
  ASSUME side \in Sides, hs = 0, NEW units \in Seq(Units), units = << >>
  PROVE  LET n == Furthest(units)
         IN  /\ n \in 0 .. Len(Flight) /\ Count(n, "in") - Count(hs, "in") = 0
             /\ n = Len(Flight) => Count(n, "out") - Count(hs, "out") > 0
<1>0. hs \in 0 .. Len(Flight) /\ hs .. Len(Flight) = 0 .. Len(Flight)
  BY FlightTyped
<1>f. /\ Furthest(units) \in hs .. Len(Flight)
      /\ Count(Furthest(units), "in") - Count(hs, "in") <= Cardinality({ i \in DOMAIN units : units[i] = 0 })
  BY <1>0, FurthestFits
<1>1. PICK n \in 0 .. Len(Flight) : n = Furthest(units)
  BY <1>0, <1>f
<1>2. Count(n, "in") - Count(hs, "in") <= 0
  <2>1. { i \in DOMAIN units : units[i] = 0 } = {}
    OBVIOUS
  <2>2. Cardinality({ i \in DOMAIN units : units[i] = 0 }) = 0
    BY <2>1, FS_EmptySet
  <2> QED
    BY <1>1, <1>f, <2>2
<1>3. Count(hs, "in") = 0 /\ Count(hs, "out") = 0 /\ Count(n, "in") \in Nat /\ Count(n, "out") \in Nat
  BY NothingAtFirst, Counts, FlightTyped
<1>4. n = Len(Flight) => n \in 1 .. Len(Flight)
  BY FlightTyped
<1> QED
  BY <1>1, <1>2, <1>3, <1>4, FlightCounted

-----------------------------------------------------------------------------
(* Who waits for what.  A session that is gone has left nothing behind.    *)
(* The activation in front that has not looked yet finds a result, and     *)
(* then no call is under way, or no result and one call, if the handshake  *)
(* has not failed; those behind wait for a record, and are behind one only *)
(* when there is a record.                                                 *)
Stacked ==
  /\ step = "gone" => stack = << >> /\ NoCall
  /\ stack = << >> /\ step # "gone" => Held
  /\ stack # << >> => /\ stack[1].at = "call" => NoCall
                      /\ stack[1].at = "wait" => IF notify.ready = 0 THEN Held ELSE NoCall
  /\ \A i \in DOMAIN stack : i # 1 => stack[i] = At("wait", "recv")
  /\ Len(stack) > 1 /\ stack[1].at = "wait" /\ notify.ready = 1 => notify.error = 0 /\ notify.length # 0

(* Before its handshake the context is as it was made, and the session has *)
(* one activation: the handshake is begun once.                            *)
Fresh == hs = 0 /\ bioin = << >> /\ bioout = 0 /\ ~recved_

Beginnings == {At("call", "connect"), At("wait", "connect"), At("call", "handshake")}

Begun ==
  /\ step \in {"enter", "connect"} => ~broken
  /\ step \in {"enter", "connect"} /\ stack # << >> =>
       /\ Len(stack) = 1 /\ stack[1].op \in {"connect", "handshake"}
       /\ stack[1] = At("wait", "handshake") => notify.ready = 0
  /\ stack # << >> /\ stack[1] \in Beginnings => Fresh /\ step \in {"enter", "connect"}
  /\ stack # << >> /\ stack[1] = At("wait", "connect") /\ notify.ready = 0 => pending["send"] = "connect"
  /\ stack = << >> => step # "enter"
  /\ stack = << >> /\ step = "connect" => Fresh /\ pending["send"] = "connect"
  /\ pending["send"] = "connect" => \/ stack = << >> /\ step = "connect"
                                    \/ stack # << >> /\ stack[1] = At("wait", "connect")

SessionInv == SslTypes /\ Stacked /\ Begun

LEMMA OnTop ==
  ASSUME stack \in Seq(Acts), NEW at \in {"call", "wait"}, NEW op \in Calling, Top(at, op)
  PROVE  /\ stack # << >> /\ step # "gone" /\ stack[1] = At(at, op) /\ stack[1].at = at /\ stack[1].op = op
         /\ 1 \in DOMAIN stack /\ Len(stack) \in Nat /\ Len(stack) >= 1
<1>1. Head(stack) = stack[1] /\ 1 \in DOMAIN stack /\ Len(stack) \in Nat /\ Len(stack) >= 1
  <2>1. stack # << >>
    BY DEF Top
  <2> HIDE DEF Acts
  <2> QED
    BY <2>1
<1> QED
  BY <1>1 DEF Top, At

(* The activation goes on behind its call.                                 *)
LEMMA BehindIt ==
  ASSUME stack \in Seq(Acts), stack # << >>, NEW op \in Calling
  PROVE  /\ Behind(op) \in Seq(Acts) /\ Behind(op) # << >> /\ Len(Behind(op)) = Len(stack)
         /\ Behind(op)[1] = At("wait", op)
         /\ \A i \in DOMAIN Behind(op) : i # 1 => i \in DOMAIN stack /\ Behind(op)[i] = stack[i]
<1>1. At("wait", op) \in Acts
  BY DEF At, Acts
<1> QED
  BY <1>1, Moved DEF Behind

(* A call of the session pends.                                            *)
LEMMA PendedKeeps ==
  ASSUME SessionInv, NEW op \in Calling, Top("call", op), stack' = Behind(op), notify' = Reset,
         step' = step, broken' = broken, Held',
         op = "connect" => Fresh' /\ pending'["send"] = "connect",
         op # "connect" => pending'["send"] # "connect"
  PROVE  Stacked' /\ Begun'
<1>1. /\ stack # << >> /\ step # "gone" /\ stack[1] = At("call", op) /\ Len(stack) \in Nat /\ Len(stack) >= 1
      /\ stack[1].op = op
  BY OnTop DEF SessionInv, SslTypes
<1>2. /\ stack' # << >> /\ Len(stack') = Len(stack) /\ stack'[1] = At("wait", op)
      /\ stack'[1].at = "wait" /\ stack'[1].op = op
      /\ \A i \in DOMAIN stack' : i # 1 => i \in DOMAIN stack /\ stack'[i] = stack[i]
  BY <1>1, BehindIt DEF SessionInv, SslTypes, At
<1>3. notify'.ready = 0
  BY DEF Reset, SessionInv, SslTypes, Result
<1>4. Stacked'
  BY <1>1, <1>2, <1>3 DEF Stacked, SessionInv
<1>5. Begun'
  <2>1. step \in {"enter", "connect"} => Len(stack) = 1 /\ op \in {"connect", "handshake"}
    BY <1>1 DEF SessionInv, Begun
  <2>2. op = "connect" => step \in {"enter", "connect"}
    BY <1>1 DEF SessionInv, Begun, Beginnings
  <2>3. stack'[1] \in Beginnings => op = "connect"
    BY <1>2 DEF Beginnings, At
  <2>4. stack'[1] = At("wait", "connect") <=> op = "connect"
    BY <1>2 DEF At
  <2> QED
    BY <1>1, <1>2, <1>3, <2>1, <2>2, <2>3, <2>4 DEF Begun, SessionInv
<1> QED
  BY <1>4, <1>5

(* A callback of the context tells the session.                            *)
LEMMA ToldKeeps ==
  ASSUME SessionInv, stack = << >>, step # "gone", stack' = <<Entry>> \o << >>, notify'.ready = 1, NoCall',
         step' = step, broken' = broken, step = "connect" => Fresh'
  PROVE  Stacked' /\ Begun'
<1>1. step # "enter" /\ step \in Calling
  BY DEF SessionInv, Begun, SslTypes
<1>2. Entry = At("wait", step) /\ Entry \in Acts
  BY <1>1 DEF Entry, At, Acts
<1>3. /\ stack' # << >> /\ Len(stack') = 1 /\ stack'[1] = At("wait", step)
      /\ \A i \in DOMAIN stack' : i = 1
  BY <1>2
<1>4. stack'[1].at = "wait" /\ stack'[1].op = step
  BY <1>3 DEF At
<1>5. Stacked'
  BY <1>3, <1>4 DEF Stacked
<1>6. Begun'
  <2>1. stack'[1] \in Beginnings => step = "connect"
    BY <1>4 DEF Beginnings, At
  <2>2. pending'["send"] # "connect"
    BY DEF NoCall
  <2>3. step \in {"enter", "connect"} => step = "connect" /\ ~broken
    BY <1>1 DEF SessionInv, Begun
  <2>4. stack'[1] = At("wait", "handshake") => step # "connect"
    BY <1>4 DEF At
  <2> QED
    BY <1>3, <1>4, <2>1, <2>2, <2>3, <2>4 DEF Begun
<1> QED
  BY <1>5, <1>6

(* A callback makes another call.                                          *)
LEMMA CalledKeeps ==
  ASSUME SessionInv, stack = << >>, step \notin {"gone", "connect"}, stack' = << >>, Held',
         pending'["send"] # "connect", step' = step, broken' = broken
  PROVE  Stacked' /\ Begun'
<1>1. step # "enter"
  BY DEF SessionInv, Begun
<1>2. Len(stack') = 0 /\ DOMAIN stack' = {}
  OBVIOUS
<1>3. Stacked'
  BY <1>2 DEF Stacked
<1>4. Begun'
  BY <1>1 DEF Begun
<1> QED
  BY <1>3, <1>4

(* ssl_async_recv tells of a record inside of the call.                    *)
LEMMA NestedKeeps ==
  ASSUME SessionInv, Top("call", "recv"), stack' = <<Entry>> \o Behind("recv"),
         notify'.ready = 1, notify'.error = 0, notify'.length # 0,
         pending' = pending, step' = step, broken' = broken
  PROVE  Stacked' /\ Begun'
<1>1. /\ stack # << >> /\ step # "gone" /\ stack[1].at = "call" /\ stack[1].op = "recv"
      /\ Len(stack) \in Nat /\ Len(stack) >= 1
  BY OnTop DEF SessionInv, SslTypes, Calling
<1>2. step \in Calling /\ step \notin {"enter", "connect"}
  BY <1>1 DEF SessionInv, Begun, SslTypes
<1>3. Entry = At("wait", step) /\ Entry \in Acts
  BY <1>2 DEF Entry, At, Acts
<1>4. /\ Behind("recv") \in Seq(Acts) /\ Len(Behind("recv")) = Len(stack) /\ Behind("recv")[1] = At("wait", "recv")
      /\ \A i \in DOMAIN Behind("recv") : i # 1 => i \in DOMAIN stack /\ Behind("recv")[i] = stack[i]
  BY <1>1, BehindIt DEF SessionInv, SslTypes, Calling
<1>5. /\ stack' # << >> /\ Len(stack') = Len(stack) + 1 /\ stack'[1] = At("wait", step)
      /\ \A i \in DOMAIN stack' : i # 1 => i - 1 \in DOMAIN Behind("recv") /\ stack'[i] = Behind("recv")[i - 1]
  <2> DEFINE b == Behind("recv")
  <2>1. b \in Seq(Acts) /\ stack' = <<Entry>> \o b
    BY <1>4
  <2> HIDE DEF b
  <2>2. /\ stack' # << >> /\ Len(stack') = Len(b) + 1 /\ stack'[1] = Entry
        /\ \A i \in DOMAIN stack' : i # 1 => i - 1 \in DOMAIN b /\ stack'[i] = b[i - 1]
    BY <1>3, <2>1, Entered
  <2> QED
    BY <1>3, <1>4, <2>2 DEF b
<1>6. \A i \in DOMAIN stack' : i # 1 => stack'[i] = At("wait", "recv")
  BY <1>4, <1>5 DEF SessionInv, Stacked
<1>7. NoCall
  BY <1>1 DEF SessionInv, Stacked
<1>8. stack'[1].at = "wait" /\ stack'[1].op = step
  BY <1>5 DEF At
<1>9. Stacked'
  BY <1>1, <1>5, <1>6, <1>7, <1>8 DEF Stacked, NoCall
<1>10. Begun'
  <2>1. stack'[1] \notin Beginnings /\ stack'[1] # At("wait", "connect")
    BY <1>2, <1>8 DEF Beginnings, At
  <2>2. pending["send"] # "connect"
    BY <1>7 DEF NoCall
  <2> QED
    BY <1>2, <1>5, <2>1, <2>2 DEF Begun
<1> QED
  BY <1>9, <1>10

(* The front activation leaves: the ones behind wait for a record.         *)
LEMMA LeavesIt ==
  ASSUME SessionInv, stack # << >>, stack' = Tail(stack)
  PROVE  /\ stack' \in Seq(Acts)
         /\ stack' = << >> <=> Len(stack) = 1
         /\ stack' # << >> => stack'[1] = At("wait", "recv") /\ Len(stack) > 1
         /\ \A i \in DOMAIN stack' : stack'[i] = At("wait", "recv")
<1>1. /\ Tail(stack) \in Seq(Acts) /\ Len(Tail(stack)) = Len(stack) - 1 /\ Len(stack) \in Nat /\ Len(stack) >= 1
      /\ \A i \in DOMAIN Tail(stack) : i + 1 \in DOMAIN stack /\ i + 1 # 1 /\ Tail(stack)[i] = stack[i + 1]
      /\ (Tail(stack) = << >>) <=> (Len(stack) = 1)
  <2>1. stack \in Seq(Acts)
    BY DEF SessionInv, SslTypes
  <2> HIDE DEF Acts
  <2>2. Len(stack) \in Nat /\ Len(stack) >= 1
    BY <2>1
  <2> QED
    BY <2>1, <2>2, Left
<1>2. \A i \in DOMAIN stack' : stack'[i] = At("wait", "recv")
  BY <1>1 DEF SessionInv, Stacked
<1>3. stack' # << >> => 1 \in DOMAIN stack' /\ Len(stack) > 1
  <2> HIDE DEF Acts
  <2> QED
    BY <1>1
<1> QED
  BY <1>1, <1>2, <1>3

LEMMA YieldKeeps ==
  ASSUME SessionInv, NEW op \in Calling, Yield(op)
  PROVE  Stacked' /\ Begun'
<1>1. /\ stack # << >> /\ step # "gone" /\ stack[1] = At("wait", op) /\ stack[1].at = "wait" /\ stack[1].op = op
      /\ notify.ready = 0 /\ step' = op /\ stack' = Tail(stack)
      /\ UNCHANGED <<pending, notify, broken, hs, bioin, bioout, refused, recved_>>
  BY OnTop DEF Yield, SessionInv, SslTypes, ctx, tls, peer
<1>2. /\ stack' = << >> <=> Len(stack) = 1
      /\ stack' # << >> => stack'[1] = At("wait", "recv") /\ Len(stack) > 1
      /\ \A i \in DOMAIN stack' : stack'[i] = At("wait", "recv")
  BY <1>1, LeavesIt
<1>3. Held
  BY <1>1 DEF SessionInv, Stacked
<1>4. stack' # << >> => stack'[1].at = "wait"
  BY <1>2 DEF At
<1>5. Stacked'
  BY <1>1, <1>2, <1>3, <1>4 DEF Stacked, Held, Quiet, OneCall, NoCall, Calling
<1>6. op = "connect" => Fresh /\ pending["send"] = "connect" /\ ~broken /\ Len(stack) = 1
  BY <1>1 DEF SessionInv, Begun, Beginnings
<1>7. pending["send"] = "connect" => op = "connect"
  BY <1>1 DEF SessionInv, Begun, At
<1>8. stack' # << >> => stack'[1] \notin Beginnings /\ stack'[1] # At("wait", "connect")
  BY <1>2 DEF Beginnings, At
<1>9. Begun'
  BY <1>1, <1>2, <1>6, <1>7, <1>8 DEF Begun, Fresh, Calling
<1> QED
  BY <1>5, <1>9

LEMMA GoOnKeeps ==
  ASSUME SessionInv, NEW op \in Calling, GoOn(op)
  PROVE  Stacked' /\ Begun'
<1>1. /\ stack # << >> /\ step # "gone" /\ stack[1] = At("wait", op) /\ stack[1].at = "wait" /\ stack[1].op = op
      /\ notify.ready = 1 /\ Len(stack) \in Nat /\ Len(stack) >= 1
      /\ UNCHANGED <<side, pending, notify, broken, hs, bioin, bioout, refused, recved_>>
  BY OnTop DEF GoOn, SessionInv, SslTypes, ctx, tls, peer
<1>2. NoCall
  BY <1>1 DEF SessionInv, Stacked
<1>3. CASE (notify.error # 0 \/ AtEnd(op)) /\ Clean
  <2>1. Len(stack) = 1
    <3>1. Len(stack) > 1 => notify.error = 0 /\ notify.length # 0
      BY <1>1 DEF SessionInv, Stacked
    <3>2. ~(notify.error = 0 /\ notify.length # 0)
      BY <1>3 DEF AtEnd
    <3>3. ~(Len(stack) > 1)
      BY <3>1, <3>2
    <3>4. Len(stack) \in Nat /\ Len(stack) >= 1
      BY <1>1
    <3> QED
      BY <3>3, <3>4
  <2>2. stack' = << >> /\ step' = "gone"
    BY <1>1, <1>3, <2>1, LeavesIt DEF Clean
  <2>3. Stacked' /\ Begun'
    BY <1>1, <1>2, <2>2 DEF Stacked, Begun, NoCall
  <2> QED
    BY <2>3
<1>4. CASE notify.error = 0 /\ ~AtEnd(op) /\ stack' = <<At("call", NextOp(op))>> \o Tail(stack) /\ step' = step
  <2>1. PICK next \in Calling : next = NextOp(op) /\ next # "connect" /\ (next = "handshake" => op = "connect")
    BY DEF NextOp, Calling
  <2>2. /\ stack' # << >> /\ Len(stack') = Len(stack) /\ stack'[1] = At("call", next)
        /\ \A i \in DOMAIN stack' : i # 1 => i \in DOMAIN stack /\ stack'[i] = stack[i]
    <3>1. At("call", next) \in Acts /\ stack \in Seq(Acts)
      BY DEF At, Acts, SessionInv, SslTypes
    <3> QED
      BY <1>1, <1>4, <2>1, <3>1, Moved
  <2>3. stack'[1].at = "call" /\ stack'[1].op = next
    BY <2>2 DEF At
  <2>4. Stacked'
    BY <1>1, <1>2, <1>4, <2>2, <2>3 DEF Stacked, SessionInv, NoCall
  <2>5. step \in {"enter", "connect"} => op = "connect" /\ Len(stack) = 1 /\ ~broken
    BY <1>1 DEF SessionInv, Begun
  <2>6. op = "connect" => Fresh /\ step \in {"enter", "connect"} /\ next = "handshake"
    <3>1. op = "connect" => next = "handshake"
      BY <2>1 DEF NextOp
    <3> QED
      BY <1>1, <3>1 DEF SessionInv, Begun, Beginnings
  <2>7. stack'[1] \in Beginnings => next = "handshake"
    BY <2>1, <2>2, <2>3 DEF Beginnings, At
  <2>8. stack'[1] # At("wait", "handshake") /\ stack'[1] # At("wait", "connect")
    BY <2>2 DEF At
  <2>9. Begun'
    BY <1>1, <1>2, <1>4, <2>1, <2>2, <2>3, <2>5, <2>6, <2>7, <2>8 DEF Begun, Fresh, NoCall
  <2> QED
    BY <2>4, <2>9
<1> QED
  BY <1>3, <1>4 DEF GoOn

(* An io call that fails at once ends the session: its activation must be  *)
(* the only one.                                                           *)
LEMMA CallFailsKeeps ==
  ASSUME SessionInv, NEW op \in {"recv", "send"}, CallFails(op), Len(stack) <= 1
  PROVE  Stacked' /\ Begun'
<1>0. op \in Calling /\ Top("call", op) /\ step' = "gone" /\ stack' = Tail(stack) /\ UNCHANGED pending
  BY DEF Calling, CallFails, Clean
<1>1. stack # << >> /\ stack[1].at = "call" /\ Len(stack) \in Nat /\ Len(stack) >= 1
  BY <1>0, OnTop DEF SessionInv, SslTypes
<1>s. Len(stack) = 1
  BY <1>1
<1>2. stack' = << >>
  BY <1>0, <1>1, <1>s, LeavesIt
<1>3. NoCall'
  BY <1>0, <1>1 DEF SessionInv, Stacked, NoCall
<1>4. Len(stack') = 0 /\ DOMAIN stack' = {}
  BY <1>2
<1>5. pending'["send"] # "connect"
  BY <1>3 DEF NoCall
<1>6. Stacked'
  BY <1>0, <1>2, <1>3, <1>4 DEF Stacked
<1>7. Begun'
  BY <1>0, <1>2, <1>5 DEF Begun
<1> QED
  BY <1>6, <1>7

(* The peer and the network leave the program alone.                       *)
LEMMA OutsideKeeps ==
  ASSUME SessionInv, UNCHANGED <<ctx, session>>,
         broken' = broken \/ step \notin {"enter", "connect"}
  PROVE  Stacked' /\ Begun'
<1>1. UNCHANGED <<pending, notify, hs, bioin, bioout, refused, recved_, step, stack>>
  BY DEF ctx, tls, session
<1>2. Stacked'
  BY <1>1 DEF SessionInv, Stacked, NoCall, Held, Quiet, OneCall
<1>3. Begun'
  BY <1>1 DEF SessionInv, Begun, Fresh
<1> QED
  BY <1>2, <1>3

-----------------------------------------------------------------------------
(* What comes of a step of the handshake: a call is under way, or nothing  *)
(* more; a call has failed at once; or the handshake is told.              *)
Started(nf, st) == notify' = nf /\ stack' = st /\ Held' /\ pending'["send"] # "connect"
Failed(st) == Fails /\ NoCall' /\ Tell(st, 1, 0)
Done(st) == NoCall' /\ Tell(st, 0, 0) /\ hs' = Len(Flight)

LEMMA HandshakeWorks ==
  ASSUME SslTypes, NEW p \in [{"recv", "send"} -> Callbacks], p["recv"] = "none", p["send"] = "none",
         NEW nf, NEW input \in Seq(Units), NEW st, ssl_handshake_work(p, nf, input, st)
  PROVE  /\ hs' \in 0 .. Len(Flight) /\ bioin' \in Seq(Units) /\ bioout' \in Nat
         /\ refused' \in BOOLEAN /\ recved_' \in BOOLEAN
         /\ pending' \in [{"recv", "send"} -> Callbacks]
         /\ Started(nf, st) \/ Failed(st) \/ Done(st)
         /\ Fresh /\ input = << >> => Started(nf, st) \/ Failed(st)
<1>1. PICK units \in Seq(Units) : /\ units = bioin \o (IF recved_ THEN input ELSE << >>)
                                  /\ Fresh /\ input = << >> => units = << >>
  <2> DEFINE u == bioin \o (IF recved_ THEN input ELSE << >>)
  <2>1. u \in Seq(Units)
    <3>1. bioin \in Seq(Units)
      BY DEF SslTypes
    <3> HIDE DEF Units
    <3>2. << >> \in Seq(Units)
      OBVIOUS
    <3>3. (IF recved_ THEN input ELSE << >>) \in Seq(Units)
      BY <3>2
    <3> QED
      BY <3>1, <3>3
  <2>2. Fresh /\ input = << >> => u = << >>
    <3>1. << >> \o << >> = << >>
      OBVIOUS
    <3> QED
      BY <3>1 DEF Fresh
  <2> QED
    BY <2>1, <2>2
<1>2. /\ Furthest(units) \in hs .. Len(Flight) /\ hs \in 0 .. Len(Flight) /\ Len(Flight) \in Nat
      /\ Count(Furthest(units), "in") - Count(hs, "in") <= Cardinality({ i \in DOMAIN units : units[i] = 0 })
  BY FurthestFits, FlightTyped DEF SslTypes
<1>3. PICK n \in 0 .. Len(Flight), alert \in {0, 1} :
        /\ \/ GoesOn(units, n) /\ alert = 0 /\ refused' = FALSE
           \/ FailsAt(units, n, alert) /\ refused' = TRUE
        /\ hs' = n
        /\ bioin' = SubSeq(units, Count(n, "in") - Count(hs, "in") + 1, Len(units))
        /\ Answer(p, nf, st, n, bioout + Count(n, "out") - Count(hs, "out") + alert)
  BY <1>1 DEF ssl_handshake_work
<1>n. hs <= n /\ (~refused' => n = Furthest(units))
  BY <1>2, <1>3 DEF GoesOn, FailsAt
<1>4. /\ Count(n, "in") \in Nat /\ Count(hs, "in") \in Nat /\ Count(hs, "in") <= Count(n, "in")
      /\ Count(n, "out") \in Nat /\ Count(hs, "out") \in Nat /\ Count(hs, "out") <= Count(n, "out")
  <2>1. hs \in 0 .. n
    BY <1>2, <1>n
  <2> QED
    BY <2>1, Counts DEF SslTypes
<1>5. PICK out \in Nat : /\ out = bioout + Count(n, "out") - Count(hs, "out") + alert
                         /\ out = 0 => Count(n, "out") - Count(hs, "out") = 0
  <2>1. PICK b \in Nat, c \in Nat, c1 \in Nat : b = bioout /\ c = Count(hs, "out") /\ c1 = Count(n, "out") /\ c <= c1
    BY <1>4 DEF SslTypes
  <2>2. PICK a \in {0, 1} : a = alert
    OBVIOUS
  <2>3. b + c1 - c + a \in Nat /\ (b + c1 - c + a = 0 => c1 - c = 0)
    BY <2>1
  <2> QED
    BY <2>1, <2>2, <2>3
<1>6. PICK k \in Nat : k = Count(n, "in") - Count(hs, "in")
  BY <1>4
<1>7. hs' = n /\ bioin' = SubSeq(units, k + 1, Len(units)) /\ Answer(p, nf, st, n, out) /\ refused' \in BOOLEAN
  BY <1>3, <1>5, <1>6
<1>8. bioin' \in Seq(Units)
  <2> HIDE DEF Units
  <2> QED
    BY <1>7
<1>9. bioout' \in Nat /\ recved_' \in BOOLEAN /\ refused' \in BOOLEAN /\ hs' \in 0 .. Len(Flight)
  <2>1. out > 0 => OutLeft(out) \in Nat
    BY DEF OutLeft
  <2>2. recved_' \in BOOLEAN
    BY <1>7 DEF Answer
  <2> QED
    BY <1>7, <2>1, <2>2 DEF Answer
<1>10. ASSUME NEW dir \in {"recv", "send"}, CallIo(p, nf, dir, "handshake", st)
       PROVE  pending' \in [{"recv", "send"} -> Callbacks] /\ (Started(nf, st) \/ Failed(st))
  <2>1. CASE pending' = [p EXCEPT ![dir] = "handshake"] /\ notify' = nf /\ stack' = st
    BY <2>1 DEF Started, Held, OneCall, Callbacks
  <2>2. CASE Fails /\ pending' = p /\ Tell(st, 1, 0)
    BY <2>2 DEF Failed, NoCall
  <2> QED
    BY <1>10, <2>1, <2>2 DEF CallIo
<1>11. CASE pending' = p /\ Tell(st, 0, 0) /\ n = Len(Flight) /\ out = 0 /\ ~refused'
  <2>1. Done(st) /\ pending' \in [{"recv", "send"} -> Callbacks]
    BY <1>7, <1>11 DEF Done, NoCall
  <2>2. ~(Fresh /\ input = << >>)
    <3> SUFFICES ASSUME Fresh, input = << >>
                 PROVE  FALSE
      OBVIOUS
    <3>1. hs = 0 /\ units = << >>
      BY <1>1 DEF Fresh
    <3>2. n = Len(Flight) => Count(n, "out") - Count(hs, "out") > 0
      BY <1>n, <1>11, <3>1, NotAtOnce DEF SslTypes
    <3> QED
      BY <1>5, <1>11, <3>2
  <2> QED
    BY <1>8, <1>9, <2>1, <2>2
<1>12. CASE \E dir \in {"recv", "send"} : CallIo(p, nf, dir, "handshake", st)
  BY <1>8, <1>9, <1>10, <1>12
<1>13. CASE refused' /\ bioout' = 0 /\ pending' = p /\ notify' = nf /\ stack' = st
  <2>1. Started(nf, st)
    BY <1>13 DEF Started, Held, Quiet, NoCall
  <2> QED
    BY <1>8, <1>9, <1>13, <2>1
<1> QED
  BY <1>7, <1>11, <1>12, <1>13 DEF Answer

(* A callback of a received record or a failed receive.                    *)
LEMMA RecordTyped ==
  ASSUME NEW units \in Seq(Units)
  PROVE  /\ RestAfter(units) \in Seq(Units)
         /\ HasRecord(units) => units[Record(units)] \in Units /\ units[Record(units)] # 0
<1>1. units \in Seq(Nat)
  BY BoundsAssumption DEF Units, Bye
<1>2. /\ Record(units) \in 0 .. Len(units)
      /\ Record(units) # 0 => units[Record(units)] # 0
  BY <1>1, RecordIsFirst
<1>3. Len(units) \in Nat
  OBVIOUS
<1> HIDE DEF Units
<1>4. RestAfter(units) \in Seq(Units)
  BY <1>2, <1>3 DEF RestAfter
<1>5. Record(units) # 0 => units[Record(units)] \in Units
  BY <1>2, <1>3
<1> QED
  BY <1>2, <1>4, <1>5 DEF HasRecord

LEMMA OnrecvWorks ==
  ASSUME SslTypes, NEW p \in [{"recv", "send"} -> Callbacks], p["recv"] = "none", p["send"] = "none",
         NEW error \in 0 .. 1, NEW input \in Seq(Units), ssl_async_onrecv(p, error, input)
  PROVE  /\ bioin' \in Seq(Units) /\ UNCHANGED <<hs, bioout, refused, recved_>>
         /\ pending' \in [{"recv", "send"} -> Callbacks]
         /\ notify' \in Result
         /\ \/ Started(notify, << >>)
            \/ NoCall' /\ notify'.ready = 1 /\ stack' = <<Entry>> \o << >>
<1>1. bioin \o input \in Seq(Units) /\ bioin \in Seq(Units) /\ notify \in Result
  <2> HIDE DEF Units
  <2> QED
    BY DEF SslTypes
<1>2. PICK units \in Seq(Units) : units = bioin \o input
  BY <1>1
<1>3. /\ RestAfter(units) \in Seq(Units)
      /\ HasRecord(units) => units[Record(units)] \in Units
  BY RecordTyped
<1>4. bioin' \in Seq(Units) /\ UNCHANGED <<hs, bioout, refused, recved_>>
  BY <1>1, <1>2, <1>3 DEF ssl_async_onrecv
<1>5. \/ pending' = p /\ \E e \in -1 .. 1, l \in Units : Tell(<< >>, e, l)
      \/ CallIo(p, notify, "recv", "recv", << >>)
  <2>1. 0 \in Units /\ error \in -1 .. 1 /\ 0 \in -1 .. 1 /\ -1 \in -1 .. 1
    BY BoundsAssumption DEF Units, Bye
  <2> QED
    BY <1>2, <1>3, <2>1 DEF ssl_async_onrecv
<1>6. ASSUME NEW e \in -1 .. 1, NEW l \in Units, Tell(<< >>, e, l)
      PROVE  notify' \in Result /\ notify'.ready = 1 /\ stack' = <<Entry>> \o << >>
  BY <1>6 DEF Tell, Result, Units
<1>7. CASE pending' = p /\ \E e \in -1 .. 1, l \in Units : Tell(<< >>, e, l)
  BY <1>4, <1>6, <1>7 DEF NoCall
<1>8. CASE pending' = [p EXCEPT !["recv"] = "recv"] /\ notify' = notify /\ stack' = << >>
  BY <1>1, <1>4, <1>8 DEF Started, Held, OneCall, Callbacks
<1>9. CASE pending' = p /\ Tell(<< >>, 1, 0)
  <2>1. 1 \in -1 .. 1 /\ 0 \in Units
    BY BoundsAssumption DEF Units, Bye
  <2> QED
    BY <1>4, <1>6, <1>9, <2>1 DEF NoCall
<1> QED
  BY <1>5, <1>7, <1>8, <1>9 DEF CallIo

-----------------------------------------------------------------------------
(* Each action keeps the invariant of the session.                         *)
LEMMA SameFlight ==
  ASSUME side' = side
  PROVE  Flight' = Flight /\ Ins' = Ins /\ Outs' = Outs
BY DEF Flight, Ins, Outs, Count

LEMMA TypesKept ==
  ASSUME SslTypes, side' = side,
         hs' \in 0 .. Len(Flight), bioin' \in Seq(Units), bioout' \in Nat,
         refused' \in BOOLEAN, recved_' \in BOOLEAN,
         pending' \in [{"recv", "send"} -> Callbacks], notify' \in Result,
         step' \in Calling \cup {"enter", "gone"}, stack' \in Seq(Acts), handled' \in Seq(Units),
         net' \in Seq(Units), came' \in Nat, came' <= Ins + MaxRecords, got' \in Nat,
         closed' \in BOOLEAN, broken' \in BOOLEAN
  PROVE  SslTypes'
BY SameFlight DEF SslTypes

LEMMA EntryTyped ==
  ASSUME SslTypes, step # "gone", NEW s \in Seq(Acts)
  PROVE  Entry \in Acts /\ <<Entry>> \o s \in Seq(Acts)
<1>1. Entry \in Acts
  BY DEF SslTypes, Entry, At, Acts, FirstOp, Calling
<1> QED
  BY <1>1, Entered

LEMMA ResetTyped ==
  ASSUME SslTypes
  PROVE  Reset \in Result
<1>1. PICK n \in Result : n = notify
  BY DEF SslTypes
<1>2. PICK m \in Result : m = [n EXCEPT !.ready = 0]
  <2>1. [n EXCEPT !.ready = 0] \in Result
    BY DEF Result
  <2> QED
    BY <2>1
<1>3. [m EXCEPT !.error = 0] \in Result
  BY DEF Result
<1>4. Reset = [m EXCEPT !.error = 0]
  BY <1>1, <1>2 DEF Reset
<1> QED
  BY <1>3, <1>4

LEMMA TellTyped ==
  ASSUME NEW e \in -1 .. 1, NEW l \in Units, NEW st, Tell(st, e, l)
  PROVE  notify' \in Result /\ notify'.ready = 1 /\ notify'.error = e /\ notify'.length = l /\ stack' = <<Entry>> \o st
BY DEF Tell, Result, Units

(* What a call leaves alone.                                               *)
LEMMA CallLeaves ==
  ASSUME SessionInv, NEW op \in Calling, Calls(op)
  PROVE  /\ Top("call", op) /\ stack # << >> /\ step # "gone" /\ stack[1] = At("call", op)
         /\ NoCall /\ stack \in Seq(Acts) /\ Behind(op) \in Seq(Acts)
         /\ UNCHANGED <<side, step, handled, net, came, closed, broken, got>>
<1>1. Top("call", op) /\ stack \in Seq(Acts) /\ UNCHANGED <<side, step, handled, net, came, closed, broken, got>>
  BY DEF Calls, peer, SessionInv, SslTypes
<1>2. stack # << >> /\ step # "gone" /\ stack[1] = At("call", op) /\ stack[1].at = "call"
  BY <1>1, OnTop
<1>3. NoCall
  BY <1>2 DEF SessionInv, Stacked
<1>4. Behind(op) \in Seq(Acts)
  BY <1>1, <1>2, BehindIt
<1> QED
  BY <1>1, <1>2, <1>3, <1>4

LEMMA ConnectKeeps ==
  ASSUME SessionInv, io_async_connect
  PROVE  SessionInv'
<1>1. "connect" \in Calling /\ Calls("connect")
  BY DEF io_async_connect, Calling
<1>2. /\ Top("call", "connect") /\ stack # << >> /\ stack[1] = At("call", "connect")
      /\ NoCall /\ Behind("connect") \in Seq(Acts)
      /\ UNCHANGED <<side, step, handled, net, came, closed, broken, got>>
  BY <1>1, CallLeaves
<1>3. /\ pending' = [pending EXCEPT !["send"] = "connect"] /\ stack' = Behind("connect") /\ notify' = Reset
      /\ UNCHANGED <<hs, bioin, bioout, refused, recved_>>
  BY DEF io_async_connect, Pends, tls
<1>4. pending' \in [{"recv", "send"} -> Callbacks] /\ Held' /\ pending'["send"] = "connect"
  BY <1>2, <1>3 DEF SessionInv, SslTypes, NoCall, Held, OneCall, Callbacks
<1>5. Fresh'
  BY <1>2, <1>3 DEF SessionInv, Begun, Beginnings, Fresh
<1>6. Stacked' /\ Begun'
  BY <1>1, <1>2, <1>3, <1>4, <1>5, PendedKeeps
<1>7. SslTypes'
  <2>1. notify' \in Result
    BY <1>3, ResetTyped DEF SessionInv
  <2> QED
    BY <1>2, <1>3, <1>4, <2>1, TypesKept DEF SessionInv, SslTypes
<1> QED
  BY <1>6, <1>7 DEF SessionInv

LEMMA HandshakeKeeps ==
  ASSUME SessionInv, ssl_async_handshake
  PROVE  SessionInv'
<1>1. /\ "handshake" \in Calling /\ Calls("handshake")
      /\ ssl_handshake_work(pending, Reset, << >>, Behind("handshake"))
  BY DEF ssl_async_handshake, Calling
<1>2. /\ Top("call", "handshake") /\ stack # << >> /\ stack[1] = At("call", "handshake")
      /\ NoCall /\ Behind("handshake") \in Seq(Acts)
      /\ UNCHANGED <<side, step, handled, net, came, closed, broken, got>>
  BY <1>1, CallLeaves
<1>3. Fresh /\ ~Fails
  BY <1>2 DEF SessionInv, Begun, Beginnings, Fails
<1>4. << >> \in Seq(Units) /\ pending["recv"] = "none" /\ pending["send"] = "none"
  BY <1>2 DEF NoCall
<1>5. /\ hs' \in 0 .. Len(Flight) /\ bioin' \in Seq(Units) /\ bioout' \in Nat
      /\ refused' \in BOOLEAN /\ recved_' \in BOOLEAN
      /\ pending' \in [{"recv", "send"} -> Callbacks]
      /\ Started(Reset, Behind("handshake")) \/ Failed(Behind("handshake"))
  BY <1>1, <1>3, <1>4, HandshakeWorks DEF SessionInv, SslTypes
<1>6. stack' = Behind("handshake") /\ notify' = Reset /\ Held' /\ pending'["send"] # "connect"
  BY <1>3, <1>5 DEF Started, Failed
<1>7. Stacked' /\ Begun'
  BY <1>1, <1>2, <1>6, PendedKeeps
<1>8. SslTypes'
  <2>1. notify' \in Result
    BY <1>6, ResetTyped DEF SessionInv
  <2> QED
    BY <1>2, <1>5, <1>6, <2>1, TypesKept DEF SessionInv, SslTypes
<1> QED
  BY <1>7, <1>8 DEF SessionInv

LEMMA RecvKeeps ==
  ASSUME SessionInv, ssl_async_recv
  PROVE  SessionInv'
<1>1. "recv" \in Calling /\ Calls("recv") /\ bioin' = RestAfter(bioin) /\ UNCHANGED <<hs, bioout, refused, recved_>>
  BY DEF ssl_async_recv, Calling
<1>2. /\ Top("call", "recv") /\ stack # << >> /\ stack[1] = At("call", "recv") /\ step # "gone"
      /\ NoCall /\ Behind("recv") \in Seq(Acts)
      /\ UNCHANGED <<side, step, handled, net, came, closed, broken, got>>
  BY <1>1, CallLeaves
<1>3. /\ bioin' \in Seq(Units)
      /\ HasRecord(bioin) => bioin[Record(bioin)] \in Units /\ bioin[Record(bioin)] # 0
  BY <1>1, RecordTyped DEF SessionInv, SslTypes
<1>4. CASE HasRecord(bioin) /\ Tell(Behind("recv"), 0, bioin[Record(bioin)]) /\ UNCHANGED pending
  <2>1. /\ notify' \in Result /\ notify'.ready = 1 /\ notify'.error = 0 /\ notify'.length # 0
        /\ stack' = <<Entry>> \o Behind("recv")
    <3>1. 0 \in -1 .. 1
      OBVIOUS
    <3>2. PICK l \in Units : l = bioin[Record(bioin)] /\ l # 0
      BY <1>3, <1>4
    <3> QED
      BY <1>4, <3>1, <3>2, TellTyped
  <2>2. Stacked' /\ Begun'
    BY <1>2, <1>4, <2>1, NestedKeeps
  <2>3. stack' \in Seq(Acts)
    BY <1>2, <2>1, EntryTyped DEF SessionInv
  <2>4. SslTypes'
    BY <1>1, <1>2, <1>3, <1>4, <2>1, <2>3, TypesKept DEF SessionInv, SslTypes
  <2> QED
    BY <2>2, <2>4 DEF SessionInv
<1>5. CASE Pends("recv", "recv", "recv")
  <2>1. pending' = [pending EXCEPT !["recv"] = "recv"] /\ stack' = Behind("recv") /\ notify' = Reset
    BY <1>5 DEF Pends
  <2>2. pending' \in [{"recv", "send"} -> Callbacks] /\ Held' /\ pending'["send"] # "connect"
    BY <1>2, <2>1 DEF SessionInv, SslTypes, NoCall, Held, OneCall, Callbacks
  <2>3. Stacked' /\ Begun'
    BY <1>1, <1>2, <2>1, <2>2, PendedKeeps
  <2>4. notify' \in Result
    BY <2>1, ResetTyped DEF SessionInv
  <2>5. SslTypes'
    BY <1>1, <1>2, <1>3, <2>1, <2>2, <2>4, TypesKept DEF SessionInv, SslTypes
  <2> QED
    BY <2>3, <2>5 DEF SessionInv
<1> QED
  BY <1>4, <1>5 DEF ssl_async_recv

LEMMA SendKeeps ==
  ASSUME SessionInv, ssl_async_send
  PROVE  SessionInv'
<1>1. /\ "send" \in Calling /\ Calls("send") /\ bioout' = OutLeft(bioout + 1) /\ Pends("send", "send", "send")
      /\ UNCHANGED <<hs, bioin, refused, recved_>>
  BY DEF ssl_async_send, Calling
<1>2. /\ Top("call", "send") /\ NoCall /\ Behind("send") \in Seq(Acts)
      /\ UNCHANGED <<side, step, handled, net, came, closed, broken, got>>
  BY <1>1, CallLeaves
<1>3. pending' = [pending EXCEPT !["send"] = "send"] /\ stack' = Behind("send") /\ notify' = Reset
  BY <1>1 DEF Pends
<1>4. pending' \in [{"recv", "send"} -> Callbacks] /\ Held' /\ pending'["send"] # "connect"
  BY <1>2, <1>3 DEF SessionInv, SslTypes, NoCall, Held, OneCall, Callbacks
<1>5. Stacked' /\ Begun'
  BY <1>1, <1>2, <1>3, <1>4, PendedKeeps
<1>6. notify' \in Result /\ bioout' \in Nat
  BY <1>1, <1>3, ResetTyped DEF SessionInv, SslTypes, OutLeft
<1>7. SslTypes'
  BY <1>1, <1>2, <1>3, <1>4, <1>6, TypesKept DEF SessionInv, SslTypes
<1> QED
  BY <1>5, <1>7 DEF SessionInv

LEMMA FailureKeeps ==
  ASSUME SessionInv, NEW op \in {"recv", "send"}, CallFails(op), Len(stack) <= 1
  PROVE  SessionInv'
<1>1. /\ op \in Calling /\ Top("call", op) /\ step' = "gone" /\ stack' = Tail(stack) /\ notify' = Reset
      /\ bioin' = (IF op = "recv" THEN RestAfter(bioin) ELSE bioin)
      /\ bioout' = (IF op = "send" THEN OutLeft(bioout + 1) ELSE bioout)
      /\ UNCHANGED <<side, hs, refused, pending, recved_, handled, net, came, closed, broken, got>>
  BY DEF Calling, CallFails, Clean, peer
<1>2. stack # << >>
  BY <1>1, OnTop DEF SessionInv, SslTypes
<1>3. stack' \in Seq(Acts) /\ bioin' \in Seq(Units) /\ bioout' \in Nat /\ notify' \in Result
  BY <1>1, <1>2, LeavesIt, RecordTyped, ResetTyped DEF SessionInv, SslTypes, OutLeft
<1>4. SslTypes'
  BY <1>1, <1>3, TypesKept DEF SessionInv, SslTypes
<1> QED
  BY <1>4, CallFailsKeeps DEF SessionInv

LEMMA WaitKeeps ==
  ASSUME SessionInv, NEW op \in Calling, Yield(op) \/ GoOn(op)
  PROVE  SessionInv'
<1>1. /\ Top("wait", op) /\ stack # << >> /\ step # "gone" /\ stack \in Seq(Acts)
      /\ UNCHANGED <<side, hs, bioin, bioout, refused, pending, recved_, notify, net, came, closed, broken, got>>
  <2>1. Top("wait", op) /\ UNCHANGED <<side, hs, bioin, bioout, refused, pending, recved_, notify, net, came, closed, broken, got>>
    BY DEF Yield, GoOn, ctx, tls, peer
  <2> QED
    BY <2>1, OnTop DEF SessionInv, SslTypes
<1>2. Tail(stack) \in Seq(Acts)
  BY <1>1, Left
<1>3. At("call", NextOp(op)) \in Acts
  BY DEF NextOp, Calling, At, Acts
<1>4. <<At("call", NextOp(op))>> \o Tail(stack) \in Seq(Acts)
  BY <1>1, <1>3, Moved
<1>5. notify.length \in Units
  BY DEF SessionInv, SslTypes, Result, Units
<1>6. Append(handled, notify.length) \in Seq(Units) /\ handled \in Seq(Units)
  <2> HIDE DEF Units
  <2> QED
    BY <1>5 DEF SessionInv, SslTypes
<1>7. /\ stack' \in Seq(Acts) /\ handled' \in Seq(Units) /\ step' \in Calling \cup {"enter", "gone"}
  BY <1>2, <1>4, <1>6 DEF Yield, GoOn, Clean, SessionInv, SslTypes
<1>8. SslTypes'
  BY <1>1, <1>7, TypesKept DEF SessionInv, SslTypes
<1> QED
  BY <1>8, YieldKeeps, GoOnKeeps DEF SessionInv

(* Before a completion is served one call is under way.                    *)
LEMMA OneServed ==
  ASSUME SessionInv, NEW dir \in {"recv", "send"}, Completes(dir)
  PROVE  /\ stack = << >> /\ step \notin {"gone", "enter"} /\ step \in Calling /\ UNCHANGED <<side, step, handled, came, closed, broken>>
         /\ Without(dir) \in [{"recv", "send"} -> Callbacks]
         /\ Without(dir)["recv"] = "none" /\ Without(dir)["send"] = "none"
         /\ step = "connect" => Fresh /\ dir = "send" /\ pending["send"] = "connect"
         /\ pending["send"] = "connect" => step = "connect"
<1>1. stack = << >> /\ pending[dir] # "none" /\ UNCHANGED <<side, step, handled, came, closed, broken>>
  BY DEF Completes
<1>2. step \notin {"gone", "enter"} /\ step \in Calling
  BY <1>1 DEF SessionInv, Stacked, Begun, SslTypes, NoCall
<1>3. OneCall
  BY <1>1, <1>2 DEF SessionInv, Stacked, Held, Quiet, NoCall
<1>4. /\ Without(dir) \in [{"recv", "send"} -> Callbacks]
      /\ Without(dir)["recv"] = "none" /\ Without(dir)["send"] = "none"
  BY <1>1, <1>3 DEF Without, OneCall, SessionInv, SslTypes, Callbacks
<1>5. step = "connect" => Fresh /\ dir = "send" /\ pending["send"] = "connect"
  BY <1>1, <1>3 DEF SessionInv, Begun, OneCall
<1>6. pending["send"] = "connect" => step = "connect"
  BY <1>1 DEF SessionInv, Begun
<1> QED
  BY <1>1, <1>2, <1>4, <1>5, <1>6

(* The callback tells the session, or makes another call.                  *)
LEMMA ServedKeeps ==
  ASSUME SessionInv, NEW dir \in {"recv", "send"}, Completes(dir),
         hs' \in 0 .. Len(Flight), bioin' \in Seq(Units), bioout' \in Nat,
         refused' \in BOOLEAN, recved_' \in BOOLEAN,
         pending' \in [{"recv", "send"} -> Callbacks], notify' \in Result,
         net' \in Seq(Units), got' \in Nat,
         \/ NoCall' /\ notify'.ready = 1 /\ stack' = <<Entry>> \o << >> /\ (step = "connect" => Fresh')
         \/ Started(notify, << >>) /\ step # "connect"
  PROVE  SessionInv'
<1>1. stack = << >> /\ step \notin {"gone", "enter"} /\ UNCHANGED <<side, step, handled, came, closed, broken>>
  BY OneServed
<1>2. Stacked' /\ Begun'
  <2>1. CASE NoCall' /\ notify'.ready = 1 /\ stack' = <<Entry>> \o << >> /\ (step = "connect" => Fresh')
    BY <1>1, <2>1, ToldKeeps
  <2>2. CASE Started(notify, << >>) /\ step # "connect"
    BY <1>1, <2>2, CalledKeeps DEF Started
  <2> QED
    BY <2>1, <2>2
<1>3. stack' \in Seq(Acts)
  <2>1. << >> \in Seq(Acts)
    OBVIOUS
  <2> QED
    BY <1>1, <2>1, EntryTyped DEF SessionInv, Started
<1>4. SslTypes'
  BY <1>1, <1>3, TypesKept DEF SessionInv, SslTypes
<1> QED
  BY <1>2, <1>4 DEF SessionInv

(* A step of the handshake that a callback makes.                          *)
LEMMA ShakenKeeps ==
  ASSUME SessionInv, NEW dir \in {"recv", "send"}, Completes(dir), step # "connect", NEW input \in Seq(Units),
         ssl_handshake_work(Without(dir), notify, input, << >>), net' \in Seq(Units), got' \in Nat
  PROVE  SessionInv'
<1>1. /\ hs' \in 0 .. Len(Flight) /\ bioin' \in Seq(Units) /\ bioout' \in Nat
      /\ refused' \in BOOLEAN /\ recved_' \in BOOLEAN
      /\ pending' \in [{"recv", "send"} -> Callbacks]
      /\ Started(notify, << >>) \/ Failed(<< >>) \/ Done(<< >>)
  BY OneServed, HandshakeWorks DEF SessionInv
<1>2. notify \in Result
  BY DEF SessionInv, SslTypes
<1>3. CASE Started(notify, << >>)
  BY <1>1, <1>2, <1>3, ServedKeeps DEF Started
<1>4. CASE NoCall' /\ \E e \in -1 .. 1, l \in Units : Tell(<< >>, e, l)
  <2>1. notify' \in Result /\ notify'.ready = 1 /\ stack' = <<Entry>> \o << >>
    BY <1>4, TellTyped
  <2> QED
    BY <1>1, <1>4, <2>1, ServedKeeps
<1>5. Failed(<< >>) \/ Done(<< >>) => NoCall' /\ \E e \in -1 .. 1, l \in Units : Tell(<< >>, e, l)
  <2>1. 0 \in -1 .. 1 /\ 1 \in -1 .. 1 /\ 0 \in Units
    BY BoundsAssumption DEF Units, Bye
  <2> QED
    BY <2>1 DEF Failed, Done
<1> QED
  BY <1>1, <1>3, <1>4, <1>5

LEMMA ReceivedKeeps ==
  ASSUME SessionInv, RecvCompletes
  PROVE  SessionInv'
<1>1. Completes("recv") /\ "recv" \in {"recv", "send"} /\ got' = got /\ got \in Nat
  BY DEF RecvCompletes, SessionInv, SslTypes
<1>2. PICK error \in 0 .. 1, input \in Seq(Units) : Received(error, input) /\ net' \in Seq(Units)
  <2>1. net \in Seq(Units) /\ << >> \in Seq(Units) /\ 0 \in 0 .. 1 /\ 1 \in 0 .. 1
    BY DEF SessionInv, SslTypes
  <2> HIDE DEF Units
  <2>2. ASSUME NEW k \in 1 .. Min({Len(net), RecvMax})
        PROVE  SubSeq(net, 1, k) \in Seq(Units) /\ SubSeq(net, k + 1, Len(net)) \in Seq(Units)
    <3>1. Len(net) \in Nat /\ RecvMax \in Nat
      BY <2>1, BoundsAssumption
    <3>2. Min({Len(net), RecvMax}) \in Nat /\ Min({Len(net), RecvMax}) <= Len(net)
      <4> DEFINE S == {Len(net), RecvMax}
      <4>1. S \in SUBSET Nat /\ S # {} /\ Len(net) \in S
        BY <3>1
      <4> HIDE DEF S
      <4>2. Min(S) \in S /\ \A y \in S : Min(S) <= y
        BY <4>1, LeastExists
      <4>3. Min(S) \in Nat /\ Min(S) <= Len(net)
        BY <4>1, <4>2
      <4> QED
        BY <4>3 DEF S
    <3>3. k \in Nat /\ 1 <= k /\ k <= Len(net)
      BY <3>1, <3>2
    <3> QED
      BY <2>1, <3>1, <3>3
  <2>3. CASE \E k \in 1 .. Min({Len(net), RecvMax}) :
               Received(0, SubSeq(net, 1, k)) /\ net' = SubSeq(net, k + 1, Len(net))
    BY <2>1, <2>2, <2>3
  <2>4. CASE Received(0, << >>) /\ UNCHANGED net
    BY <2>1, <2>4
  <2>5. CASE Received(1, << >>) /\ UNCHANGED net
    BY <2>1, <2>5
  <2> QED
    BY <2>3, <2>4, <2>5 DEF RecvCompletes
<1>3. step # "connect"
  BY <1>1, OneServed
<1>4. CASE ssl_handshake_work(Without("recv"), notify, input, << >>)
  BY <1>1, <1>2, <1>3, <1>4, ShakenKeeps
<1>5. CASE ssl_async_onrecv(Without("recv"), error, input)
  <2>1. /\ bioin' \in Seq(Units) /\ UNCHANGED <<hs, bioout, refused, recved_>>
        /\ pending' \in [{"recv", "send"} -> Callbacks]
        /\ notify' \in Result
        /\ \/ Started(notify, << >>)
           \/ NoCall' /\ notify'.ready = 1 /\ stack' = <<Entry>> \o << >>
    BY <1>1, <1>5, OneServed, OnrecvWorks DEF SessionInv
  <2> QED
    BY <1>1, <1>2, <1>3, <2>1, ServedKeeps DEF SessionInv, SslTypes
<1> QED
  BY <1>2, <1>4, <1>5 DEF Received

LEMMA SentKeeps ==
  ASSUME SessionInv, SendCompletes
  PROVE  SessionInv'
<1>1. Completes("send") /\ "send" \in {"recv", "send"} /\ net' = net /\ net \in Seq(Units) /\ got \in Nat
  BY DEF SendCompletes, SessionInv, SslTypes
<1>2. CASE /\ pending["send"] # "handshake" /\ pending' = Without("send")
           /\ \E e \in -1 .. 1, l \in Units : Tell(<< >>, e, l)
           /\ UNCHANGED <<hs, bioin, bioout, refused, recved_>> /\ got' \in Nat
  <2>1. notify' \in Result /\ notify'.ready = 1 /\ stack' = <<Entry>> \o << >>
    BY <1>2, TellTyped
  <2>2. NoCall' /\ pending' \in [{"recv", "send"} -> Callbacks]
    BY <1>1, <1>2, OneServed DEF NoCall
  <2>3. step = "connect" => Fresh'
    BY <1>1, <1>2, OneServed DEF Fresh
  <2> QED
    BY <1>1, <1>2, <2>1, <2>2, <2>3, ServedKeeps DEF SessionInv, SslTypes
<1>3. CASE /\ pending["send"] = "handshake" /\ got' \in Nat
           /\ ssl_handshake_work(Without("send"), notify, << >>, << >>)
  <2>1. step # "connect" /\ << >> \in Seq(Units)
    BY <1>1, <1>3, OneServed
  <2> QED
    BY <1>1, <1>3, <2>1, ShakenKeeps
<1>4. 0 \in Units /\ 1 \in Units /\ 0 \in -1 .. 1 /\ 1 \in -1 .. 1 /\ got + 1 \in Nat
  BY <1>1, BoundsAssumption DEF Units, Bye
<1> QED
  BY <1>1, <1>2, <1>3, <1>4 DEF SendCompletes, tls

LEMMA PeerKeeps ==
  ASSUME SessionInv, PeerShakes \/ PeerSends \/ PeerCloses \/ Breaks
  PROVE  SessionInv'
<1>1. /\ UNCHANGED <<side, ctx, session, got>>
      /\ broken' = broken \/ step \notin {"enter", "connect"}
      /\ broken' \in BOOLEAN /\ closed' \in BOOLEAN
  BY DEF PeerShakes, PeerSends, PeerCloses, Breaks, Goes, SessionInv, SslTypes
<1>2. 0 \in Units /\ Bye \in Units /\ \A r \in 1 .. MaxRecords : r \in Units
  BY BoundsAssumption DEF Units, Bye
<1>3. /\ net \in Seq(Units) /\ Append(net, 0) \in Seq(Units) /\ net \o << >> \in Seq(Units) /\ net \o <<Bye>> \in Seq(Units)
      /\ \A r \in 1 .. MaxRecords : \A part \in {<< >>, <<0>>} : net \o part \o <<r>> \in Seq(Units)
  <2>1. net \in Seq(Units)
    BY DEF SessionInv, SslTypes
  <2> HIDE DEF Units
  <2> QED
    BY <1>2, <2>1
<1>4. came \in Nat /\ Ins \in Nat /\ MaxRecords \in Nat /\ came <= Ins + MaxRecords
  <2>1. Ins \in Nat
    <3>1. Len(Flight) \in 0 .. Len(Flight)
      BY FlightTyped DEF SessionInv, SslTypes
    <3> QED
      BY <3>1, Counts DEF Ins, SessionInv, SslTypes
  <2> QED
    BY <2>1, BoundsAssumption DEF SessionInv, SslTypes
<1>5. net' \in Seq(Units) /\ came' \in Nat /\ came' <= Ins + MaxRecords
  <2>1. CASE PeerShakes
    BY <1>3, <1>4, <2>1, BoundsAssumption DEF PeerShakes
  <2>2. CASE PeerSends
    <3>1. /\ came \in Ins .. Ins + MaxRecords - 1 /\ came' = came + 1
          /\ \E part \in {<< >>, <<0>>} : net' = net \o part \o <<came + 1 - Ins>>
      BY <2>2 DEF PeerSends
    <3>2. PICK r \in 1 .. MaxRecords : r = came + 1 - Ins
      BY <1>4, <3>1
    <3>3. came' \in Nat /\ came' <= Ins + MaxRecords
      BY <1>4, <3>1
    <3>4. net' \in Seq(Units)
      BY <1>3, <3>1, <3>2
    <3> QED
      BY <3>3, <3>4
  <2>3. CASE PeerCloses
    BY <1>3, <1>4, <2>3 DEF PeerCloses
  <2>4. CASE Breaks
    BY <1>3, <1>4, <2>4 DEF Breaks
  <2> QED
    BY <2>1, <2>2, <2>3, <2>4
<1>6. Stacked' /\ Begun'
  BY <1>1, OutsideKeeps
<1>7. SslTypes'
  BY <1>1, <1>5, TypesKept DEF SessionInv, SslTypes, ctx, tls, session
<1> QED
  BY <1>6, <1>7 DEF SessionInv

-----------------------------------------------------------------------------
LEMMA SessionBegins ==
  ASSUME Init
  PROVE  SessionInv
<1>1. FirstOp \in {"connect", "handshake"} /\ At("call", FirstOp) \in Acts
  BY DEF FirstOp, At, Acts, Calling
<1>2. /\ stack \in Seq(Acts) /\ stack # << >> /\ Len(stack) = 1 /\ DOMAIN stack = {1} /\ stack[1] = At("call", FirstOp)
  BY <1>1 DEF Init
<1>3. SslTypes
  <2>1. Len(Flight) \in Nat /\ side \in Sides
    BY FlightTyped DEF Init
  <2>2. Ins \in Nat
    <3>1. Len(Flight) \in 0 .. Len(Flight)
      BY <2>1
    <3> QED
      BY <2>1, <3>1, Counts DEF Ins
  <2>3. notify \in Result
    BY BoundsAssumption DEF Init, Result, Bye
  <2>4. << >> \in Seq(Units)
    OBVIOUS
  <2>5. pending \in [{"recv", "send"} -> Callbacks]
    BY DEF Init, Callbacks
  <2>6. 0 \in 0 .. Len(Flight) /\ 0 <= Ins + MaxRecords
    BY <2>1, <2>2, BoundsAssumption
  <2> QED
    BY <1>2, <2>1, <2>3, <2>4, <2>5, <2>6 DEF Init, SslTypes, Calling
<1>4. NoCall /\ step = "enter" /\ Fresh /\ ~broken
  BY DEF Init, NoCall, Fresh
<1>5. stack[1].at = "call" /\ stack[1].op = FirstOp
  BY <1>2 DEF At
<1>6. Stacked
  BY <1>2, <1>4, <1>5 DEF Stacked
<1>7. Begun
  <2>1. pending["send"] # "connect"
    BY <1>4 DEF NoCall
  <2>2. stack[1] # At("wait", "handshake") /\ stack[1] # At("wait", "connect")
    BY <1>2 DEF At
  <2> QED
    BY <1>1, <1>2, <1>4, <1>5, <2>1, <2>2 DEF Begun
<1> QED
  BY <1>3, <1>6, <1>7 DEF SessionInv

(* A step keeps the invariant when no call fails at once inside of another.*)
LEMMA SessionKeeps ==
  ASSUME SessionInv, [Next]_vars, \A op \in {"recv", "send"} : CallFails(op) => Len(stack) <= 1
  PROVE  SessionInv'
<1>1. CASE Runs
  <2>1. \A op \in {"connect", "handshake", "recv", "send"} : op \in Calling
    BY DEF Calling
  <2> QED
    BY <1>1, <2>1, ConnectKeeps, HandshakeKeeps, RecvKeeps, SendKeeps, FailureKeeps, WaitKeeps DEF Runs
<1>2. CASE UNCHANGED vars
  BY <1>2 DEF vars, ctx, tls, session, peer, SessionInv, SslTypes, Stacked, Begun, Fresh, NoCall, Held, Quiet, OneCall, Flight, Ins, Count
<1> QED
  BY <1>1, <1>2, ReceivedKeeps, SentKeeps, PeerKeeps DEF Next

LEMMA OneIsHeld ==
  ASSUME SessionInv
  PROVE  HeldByOneCall
<1> DEFINE calls == { dir \in DOMAIN pending : pending[dir] # "none" }
<1>1. DOMAIN pending = {"recv", "send"}
  BY DEF SessionInv, SslTypes
<1>2. step = "gone" => stack = << >> /\ calls = {}
  BY <1>1 DEF SessionInv, Stacked, NoCall
<1>3. step # "gone" /\ stack = << >> => Cardinality(calls) = 1 \/ (refused /\ bioout = 0 /\ calls = {})
  <2> SUFFICES ASSUME step # "gone", stack = << >>
               PROVE  Cardinality(calls) = 1 \/ (refused /\ bioout = 0 /\ calls = {})
    OBVIOUS
  <2>1. CASE OneCall
    <3>1. PICK dir \in {"recv", "send"} : calls = {dir}
      BY <1>1, <2>1 DEF OneCall
    <3> QED
      BY <3>1, FS_Singleton
  <2>2. CASE Quiet
    BY <1>1, <2>2 DEF Quiet, NoCall
  <2> QED
    BY <2>1, <2>2 DEF SessionInv, Stacked, Held
<1> QED
  BY <1>2, <1>3 DEF HeldByOneCall

(* Between two callbacks a session waits for one io call, and when it is   *)
(* gone nothing is pending.  Only a session whose handshake has failed     *)
(* waits for none, once its alert is sent, and for ever (lines 191-197 of  *)
(* sslasync.c).  This is so for every handshake and every peer of the      *)
(* model, as long as no io call fails at once.                             *)
THEOREM WaitsForOneCall ==
  ASSUME FailsAtOnce = {}
  PROVE  Spec => []HeldByOneCall
<1>1. SessionInv /\ [Next]_vars => SessionInv'
  BY SessionKeeps DEF CallFails, Fails
<1> QED
  BY <1>1, SessionBegins, OneIsHeld, PTL DEF Spec

-----------------------------------------------------------------------------
(* The order of the records.  Programs of which only servers have calls    *)
(* that fail at once, and servers whose peers wait for each answer; a      *)
(* server says the last word of the handshake.                             *)
Orderly ==
  /\ FailsAtOnce \subseteq {"server"}
  /\ "server" \in Sides => PeerWaits /\ Flights["server"][Len(Flights["server"])] = "out"

IsRecord(u) == u # 0 /\ u # Bye
HoldsRecord(units) == \E i \in 1 .. Len(units) : IsRecord(units[i])

(* What a session waits for is what its pending call tells of, unless its  *)
(* handshake has failed.                                                   *)
Matches(op) ==
  CASE op = "connect" -> pending["send"] = "connect"
    [] op = "handshake" -> "handshake" \in {pending["send"], pending["recv"]} \/ Quiet
    [] op = "send" -> pending["send"] = "send"
    [] op = "recv" -> pending["recv"] = "recv"

Early == {"enter", "connect", "handshake"}

Matched ==
  /\ stack = << >> /\ step # "gone" => Matches(step)
  /\ stack # << >> /\ stack[1].at = "wait" /\ notify.ready = 0 => Matches(stack[1].op)
  /\ Len(stack) > 1 => side = "client" /\ step = "recv"
  /\ side = "client" /\ step = "recv" /\ stack # << >> => stack[1].op = "recv"
  /\ stack # << >> /\ stack[1].op \in {"connect", "handshake"} => step \in Early
  /\ pending["recv"] = "handshake" => recved_ /\ hs < Len(Flight)

(* As long as the handshake is not done no session is behind it; one that  *)
(* has failed is not done.                                                 *)
Shaken ==
  /\ refused => hs < Len(Flight)
  /\ hs < Len(Flight) =>
       /\ handled = << >>
       /\ stack = << >> => step \in {"connect", "handshake", "gone"}
       /\ stack # << >> => stack[1].op \in {"connect", "handshake"}
       /\ stack # << >> /\ stack[1] = At("wait", "handshake") /\ notify.ready = 1 => notify.error # 0

(* The peer has got no more than was made for it, and makes nothing of     *)
(* what comes behind a failure.                                            *)
Queued == IF refused THEN 0 ELSE bioout
Shaking == IF ~refused /\ pending["send"] = "handshake" THEN 1 ELSE 0
Flying == IF ~refused /\ pending["send"] \in {"handshake", "send"} THEN 1 ELSE 0
Due == IF stack # << >> /\ stack[1] = At("call", "send") THEN 1 ELSE 0

Counted ==
  /\ side = "client" /\ step \in Early => got + Queued + Shaking <= Count(hs, "out")
  /\ side = "client" /\ came > Ins => got > Outs
  /\ side = "server" => got + Queued + Flying + Due <= Count(hs, "out") + Len(handled)
  /\ side = "server" /\ came > Ins => got >= Outs + came - Ins - 1

(* The records on their way and in bio_in_ are those from the next one on, *)
(* in order; none is missing as long as the connection is not broken.      *)
Told == /\ stack # << >> /\ stack[1] = At("wait", "recv")
        /\ notify.ready = 1 /\ notify.error = 0 /\ notify.length # 0
NextRecord == Len(handled) + (IF Told THEN 2 ELSE 1)
Unread == bioin \o net

Ordered(units, lo, hi) ==
  /\ \A i, j \in 1 .. Len(units) : i < j /\ units[i] # 0 /\ units[j] # 0 => units[i] < units[j]
  /\ \A i \in 1 .. Len(units) : IsRecord(units[i]) =>
       /\ lo <= units[i] /\ units[i] <= hi
       /\ \A r \in Nat : lo <= r /\ r <= units[i] => \E j \in 1 .. Len(units) : units[j] = r
Whole(units, lo, hi) ==
  \A r \in Nat : lo <= r /\ r <= hi => \E j \in 1 .. Len(units) : units[j] = r

Arriving ==
  /\ InOrder
  /\ Told => notify.length = Len(handled) + 1
  /\ NextRecord > 1 => NextRecord <= came - Ins + 1
  /\ Ordered(Unread, NextRecord, came - Ins)
  /\ ~broken => Whole(Unread, NextRecord, came - Ins)
  /\ ~closed => \A i \in 1 .. Len(Unread) : Unread[i] # Bye
  /\ HoldsRecord(bioin) => side = "client" /\ step \in {"recv", "gone"}

OrderInv == Matched /\ Shaken /\ Counted /\ Arriving

-----------------------------------------------------------------------------
(* Units move from the network to bio_in_ and leave it at its front.       *)
LEMMA Joined ==
  ASSUME NEW a \in Seq(Nat), NEW b \in Seq(Nat)
  PROVE  \E c \in Seq(Nat) : /\ c = a \o b /\ Len(c) = Len(a) + Len(b)
                             /\ \A i \in 1 .. Len(a) : c[i] = a[i]
                             /\ \A i \in 1 .. Len(a) + Len(b) : i > Len(a) => c[i] = b[i - Len(a)]
<1>1. /\ a \o b \in Seq(Nat) /\ Len(a \o b) = Len(a) + Len(b)
      /\ \A i \in 1 .. Len(a) : (a \o b)[i] = a[i]
      /\ \A i \in 1 .. Len(a) + Len(b) : i > Len(a) => (a \o b)[i] = b[i - Len(a)]
  OBVIOUS
<1> QED
  BY <1>1

LEMMA Shortened ==
  ASSUME NEW u \in Seq(Nat), NEW d \in 0 .. Len(u)
  PROVE  \E v \in Seq(Nat) : /\ v = SubSeq(u, d + 1, Len(u)) /\ Len(v) = Len(u) - d
                             /\ \A i \in 1 .. Len(u) - d : i + d \in 1 .. Len(u) /\ v[i] = u[i + d]
<1>1. PICK n \in Nat : n = Len(u) /\ d \in 0 .. n
  OBVIOUS
<1>2. SubSeq(u, d + 1, n) \in Seq(Nat) /\ Len(SubSeq(u, d + 1, n)) = n - d
  BY <1>1
<1>3. ASSUME NEW i \in 1 .. n - d
      PROVE  i + d \in 1 .. n /\ SubSeq(u, d + 1, n)[i] = u[i + d]
  <2>1. i + d \in 1 .. n /\ i \in 1 .. n - (d + 1) + 1 /\ d + 1 + i - 1 = i + d
    BY <1>1
  <2> QED
    BY <1>1, <2>1
<1> QED
  BY <1>1, <1>2, <1>3

LEMMA SameUnits ==
  ASSUME NEW a \in Seq(Nat), NEW b \in Seq(Nat), Len(a) = Len(b), \A i \in 1 .. Len(a) : a[i] = b[i]
  PROVE  a = b
OBVIOUS

LEMMA ThreePieces ==
  ASSUME NEW m \in Nat, NEW n \in Nat, NEW k \in Nat, k <= n, NEW i \in Nat, 1 <= i, i <= m + n
  PROVE  /\ i <= m \/ (m < i /\ i <= m + k) \/ m + k < i
         /\ m + k < i => /\ i - (m + k) \in 1 .. n - k /\ i - (m + k) + k = i - m
                        /\ i \in 1 .. (m + k) + (n - k) /\ i \in 1 .. m + n /\ i > m
OBVIOUS

LEMMA SplitAnywhere ==
  ASSUME NEW a \in Seq(Nat), NEW b \in Seq(Nat), NEW k \in 0 .. Len(b)
  PROVE  (a \o SubSeq(b, 1, k)) \o SubSeq(b, k + 1, Len(b)) = a \o b
<1>1. PICK x \in Seq(Nat) : x = SubSeq(b, 1, k) /\ Len(x) = k /\ \A i \in 1 .. k : x[i] = b[i]
  <2>1. SubSeq(b, 1, k) \in Seq(Nat) /\ Len(SubSeq(b, 1, k)) = k /\ \A i \in 1 .. k : SubSeq(b, 1, k)[i] = b[i]
    OBVIOUS
  <2> QED
    BY <2>1
<1>2. PICK y \in Seq(Nat) : /\ y = SubSeq(b, k + 1, Len(b)) /\ Len(y) = Len(b) - k
                            /\ \A i \in 1 .. Len(b) - k : i + k \in 1 .. Len(b) /\ y[i] = b[i + k]
  BY Shortened
<1>j. PICK ax \in Seq(Nat) : /\ ax = a \o x /\ Len(ax) = Len(a) + Len(x)
                             /\ \A i \in 1 .. Len(a) : ax[i] = a[i]
                             /\ \A i \in 1 .. Len(a) + Len(x) : i > Len(a) => ax[i] = x[i - Len(a)]
  BY Joined
<1>3. /\ ax = a \o x /\ Len(ax) = Len(a) + k
      /\ \A i \in 1 .. Len(a) : ax[i] = a[i]
      /\ \A i \in 1 .. Len(a) + k : i > Len(a) => ax[i] = x[i - Len(a)]
  BY <1>1, <1>j
<1>k. PICK l \in Seq(Nat) : /\ l = ax \o y /\ Len(l) = Len(ax) + Len(y)
                            /\ \A i \in 1 .. Len(ax) : l[i] = ax[i]
                            /\ \A i \in 1 .. Len(ax) + Len(y) : i > Len(ax) => l[i] = y[i - Len(ax)]
  BY Joined
<1>5. PICK r \in Seq(Nat) : /\ r = a \o b /\ Len(r) = Len(a) + Len(b)
                            /\ \A i \in 1 .. Len(a) : r[i] = a[i]
                            /\ \A i \in 1 .. Len(a) + Len(b) : i > Len(a) => r[i] = b[i - Len(a)]
  BY Joined
<1>6. Len(a) \in Nat /\ Len(b) \in Nat /\ k \in Nat /\ k <= Len(b) /\ Len(ax) = Len(a) + k /\ Len(y) = Len(b) - k
  BY <1>2, <1>3
<1>7. Len(l) = Len(r) /\ Len(l) = Len(a) + Len(b)
  BY <1>5, <1>6, <1>k
<1>8. ASSUME NEW i \in 1 .. Len(l)
      PROVE  l[i] = r[i]
  <2>1. i \in Nat /\ 1 <= i /\ i <= Len(a) + Len(b)
    BY <1>6, <1>7
  <2>2. CASE i <= Len(a)
    <3>1. i \in 1 .. Len(a) /\ i \in 1 .. Len(ax)
      BY <1>6, <2>1, <2>2
    <3> QED
      BY <1>3, <1>5, <1>k, <3>1
  <2>3. CASE Len(a) < i /\ i <= Len(a) + k
    <3>1. i - Len(a) \in 1 .. k /\ i \in 1 .. Len(ax) /\ i \in 1 .. Len(a) + k /\ i \in 1 .. Len(a) + Len(b)
      BY <1>6, <2>1, <2>3
    <3>2. l[i] = ax[i] /\ ax[i] = x[i - Len(a)]
      BY <1>3, <1>k, <2>3, <3>1
    <3>3. x[i - Len(a)] = b[i - Len(a)]
      BY <1>1, <3>1
    <3>4. r[i] = b[i - Len(a)]
      BY <1>5, <2>3, <3>1
    <3> QED
      BY <3>2, <3>3, <3>4
  <2>4. CASE Len(a) + k < i
    <3>1. /\ i - Len(ax) \in 1 .. Len(b) - k /\ i - Len(ax) + k = i - Len(a)
          /\ i \in 1 .. Len(ax) + Len(y) /\ i > Len(ax) /\ i \in 1 .. Len(a) + Len(b) /\ i > Len(a)
      <4>1. PICK m \in Nat, n \in Nat, d \in Nat, e \in Nat :
              /\ m = Len(a) /\ n = Len(b) /\ d = Len(ax) /\ e = Len(y)
              /\ d = m + k /\ e = n - k
        BY <1>6
      <4>2. /\ i - d \in 1 .. n - k /\ i - d + k = i - m
            /\ i \in 1 .. d + e /\ i > d /\ i \in 1 .. m + n /\ i > m
        <5>1. k \in Nat /\ k <= n /\ i \in Nat /\ 1 <= i /\ i <= m + n /\ m + k < i
          BY <1>6, <2>1, <2>4, <4>1
        <5>2. /\ i - (m + k) \in 1 .. n - k /\ i - (m + k) + k = i - m
              /\ i \in 1 .. (m + k) + (n - k) /\ i \in 1 .. m + n /\ i > m
          BY <5>1, ThreePieces
        <5> QED
          BY <4>1, <5>1, <5>2
      <4> QED
        BY <4>1, <4>2
    <3>2. l[i] = y[i - Len(ax)]
      BY <1>k, <3>1
    <3>3. r[i] = b[i - Len(a)]
      BY <1>5, <3>1
    <3>4. y[i - Len(ax)] = b[i - Len(ax) + k]
      BY <1>2, <3>1
    <3>5. b[i - Len(ax) + k] = b[i - Len(a)]
      BY <3>1
    <3> QED
      BY <3>2, <3>3, <3>4, <3>5
  <2>5. i <= Len(a) \/ (Len(a) < i /\ i <= Len(a) + k) \/ Len(a) + k < i
    <3>1. PICK m \in Nat, n \in Nat : m = Len(a) /\ n = Len(b)
      BY <1>6
    <3>2. i <= m \/ (m < i /\ i <= m + k) \/ m + k < i
      BY <1>6, <2>1, <3>1, ThreePieces
    <3> QED
      BY <3>1, <3>2
  <2> QED
    BY <2>2, <2>3, <2>4, <2>5
<1>9. l = r
  BY <1>7, <1>8, SameUnits
<1> QED
  BY <1>1, <1>2, <1>3, <1>5, <1>9, <1>k

LEMMA FrontLeaves ==
  ASSUME NEW a \in Seq(Nat), NEW b \in Seq(Nat), NEW d \in 0 .. Len(a)
  PROVE  /\ SubSeq(a, d + 1, Len(a)) \o b = SubSeq(a \o b, d + 1, Len(a \o b))
         /\ d \in 0 .. Len(a \o b) /\ \A i \in 1 .. d : (a \o b)[i] = a[i]
<1>1. PICK c \in Seq(Nat) : /\ c = a \o b /\ Len(c) = Len(a) + Len(b)
                            /\ \A i \in 1 .. Len(a) : c[i] = a[i]
                            /\ \A i \in 1 .. Len(a) + Len(b) : i > Len(a) => c[i] = b[i - Len(a)]
  BY Joined
<1>2. Len(a) \in Nat /\ Len(b) \in Nat /\ d \in Nat /\ d <= Len(a) /\ d \in 0 .. Len(c)
  BY <1>1
<1>3. PICK x \in Seq(Nat) : /\ x = SubSeq(a, d + 1, Len(a)) /\ Len(x) = Len(a) - d
                            /\ \A i \in 1 .. Len(a) - d : i + d \in 1 .. Len(a) /\ x[i] = a[i + d]
  BY Shortened
<1>4. PICK y \in Seq(Nat) : /\ y = SubSeq(c, d + 1, Len(c)) /\ Len(y) = Len(c) - d
                            /\ \A i \in 1 .. Len(c) - d : i + d \in 1 .. Len(c) /\ y[i] = c[i + d]
  BY <1>2, Shortened
<1>j. PICK l \in Seq(Nat) : /\ l = x \o b /\ Len(l) = Len(x) + Len(b)
                            /\ \A i \in 1 .. Len(x) : l[i] = x[i]
                            /\ \A i \in 1 .. Len(x) + Len(b) : i > Len(x) => l[i] = b[i - Len(x)]
  BY Joined
<1>5. Len(x) = Len(a) - d /\ Len(l) = Len(a) - d + Len(b)
  BY <1>3, <1>j
<1>6. Len(l) = Len(y)
  BY <1>1, <1>2, <1>4, <1>5
<1>7. ASSUME NEW i \in 1 .. Len(l)
      PROVE  l[i] = y[i]
  <2>1. i \in Nat /\ 1 <= i /\ i <= Len(a) - d + Len(b) /\ y[i] = c[i + d]
    <3>1. i \in 1 .. Len(a) - d + Len(b) /\ Len(c) - d = Len(a) - d + Len(b)
      BY <1>1, <1>2, <1>5
    <3>2. y[i] = c[i + d]
      BY <1>4, <3>1
    <3> QED
      BY <1>2, <3>1, <3>2
  <2>2. CASE i <= Len(a) - d
    <3>1. i + d \in 1 .. Len(a) /\ i \in 1 .. Len(a) - d /\ i \in 1 .. Len(x)
      BY <1>2, <1>5, <2>1, <2>2
    <3> QED
      BY <1>1, <1>3, <1>j, <2>1, <3>1
  <2>3. CASE i > Len(a) - d
    <3>1. /\ i + d \in 1 .. Len(a) + Len(b) /\ i + d > Len(a) /\ i + d - Len(a) = i - Len(x)
          /\ i \in 1 .. Len(x) + Len(b) /\ i > Len(x)
      BY <1>2, <1>5, <2>1, <2>3
    <3>2. l[i] = b[i - Len(x)]
      BY <1>j, <3>1
    <3>3. c[i + d] = b[i + d - Len(a)]
      <4>1. PICK m \in 1 .. Len(a) + Len(b) : m = i + d /\ m > Len(a)
        BY <3>1
      <4>2. c[m] = b[m - Len(a)]
        BY <1>1, <4>1
      <4> QED
        BY <4>1, <4>2
    <3> QED
      BY <2>1, <3>1, <3>2, <3>3
  <2> QED
    BY <1>2, <2>1, <2>2, <2>3
<1>8. l = y
  BY <1>6, <1>7, SameUnits
<1>9. \A i \in 1 .. d : c[i] = a[i]
  BY <1>1, <1>2
<1> QED
  BY <1>1, <1>2, <1>3, <1>4, <1>8, <1>9, <1>j

(* No record leaves.                                                       *)
LEMMA BelowToo ==
  ASSUME NEW p \in Nat, NEW hi \in Int, p <= hi
  PROVE  \A r \in Nat : r <= p => r <= hi
OBVIOUS

LEMMA OrderedSkips ==
  ASSUME NEW u \in Seq(Nat), NEW lo \in Nat, lo >= 1, NEW hi \in Int, hi <= MaxRecords,
         Ordered(u, lo, hi), NEW d \in 0 .. Len(u), \A i \in 1 .. d : ~IsRecord(u[i])
  PROVE  LET v == SubSeq(u, d + 1, Len(u))
         IN  Ordered(v, lo, hi) /\ (Whole(u, lo, hi) => Whole(v, lo, hi))
<1>1. PICK v \in Seq(Nat) : /\ v = SubSeq(u, d + 1, Len(u)) /\ Len(v) = Len(u) - d
                            /\ \A i \in 1 .. Len(u) - d : i + d \in 1 .. Len(u) /\ v[i] = u[i + d]
  BY Shortened
<1>2. Len(v) = Len(u) - d /\ Len(u) \in Nat /\ \A i \in 1 .. Len(v) : i + d \in 1 .. Len(u) /\ v[i] = u[i + d]
  <2>1. Len(u) \in Nat
    OBVIOUS
  <2>2. PICK n \in Nat : n = Len(v)
    OBVIOUS
  <2>3. n = Len(u) - d
    BY <1>1, <2>2
  <2>4. \A i \in 1 .. n : i + d \in 1 .. Len(u) /\ v[i] = u[i + d]
    BY <1>1, <2>3
  <2> QED
    BY <2>1, <2>2, <2>3, <2>4
<1>3. ASSUME NEW r \in Nat, lo <= r, r <= hi, NEW j \in 1 .. Len(u), u[j] = r
      PROVE  \E i \in 1 .. Len(v) : v[i] = r
  <2>1. IsRecord(r)
    BY <1>3, BoundsAssumption DEF IsRecord, Bye
  <2>2. ~(j <= d)
    BY <1>3, <2>1
  <2>3. j - d \in 1 .. Len(v) /\ j - d + d = j
    BY <1>2, <2>2
  <2> QED
    BY <1>2, <1>3, <2>3
<1>4. \A i, j \in 1 .. Len(v) : i < j /\ v[i] # 0 /\ v[j] # 0 => v[i] < v[j]
  <2> SUFFICES ASSUME NEW i \in 1 .. Len(v), NEW j \in 1 .. Len(v), i < j, v[i] # 0, v[j] # 0
               PROVE  v[i] < v[j]
    OBVIOUS
  <2>1. i + d \in 1 .. Len(u) /\ j + d \in 1 .. Len(u) /\ i + d < j + d
    BY <1>2
  <2> QED
    BY <1>2, <2>1 DEF Ordered
<1>5. ASSUME NEW i \in 1 .. Len(v), IsRecord(v[i])
      PROVE  /\ lo <= v[i] /\ v[i] <= hi
             /\ \A r \in Nat : lo <= r /\ r <= v[i] => \E j \in 1 .. Len(v) : v[j] = r
  <2>1. i + d \in 1 .. Len(u) /\ v[i] = u[i + d] /\ v[i] \in Nat
    <3>1. i + d \in 1 .. Len(u) /\ v[i] = u[i + d]
      BY <1>2
    <3>2. v[i] \in Nat
      OBVIOUS
    <3> QED
      BY <3>1, <3>2
  <2>2. /\ lo <= v[i] /\ v[i] <= hi
        /\ \A r \in Nat : lo <= r /\ r <= v[i] => \E j \in 1 .. Len(u) : u[j] = r
    BY <1>5, <2>1 DEF Ordered
  <2>3. \A r \in Nat : r <= v[i] => r <= hi
    BY <2>1, <2>2, BelowToo
  <2> QED
    BY <1>3, <2>2, <2>3
<1>6. Whole(u, lo, hi) => Whole(v, lo, hi)
  BY <1>3 DEF Whole
<1> QED
  BY <1>1, <1>4, <1>5, <1>6 DEF Ordered

(* The first record leaves: it is the next one.                            *)
LEMMA OrderedTakes ==
  ASSUME NEW u \in Seq(Nat), NEW lo \in Nat, lo >= 1, NEW hi \in Int, hi <= MaxRecords,
         Ordered(u, lo, hi), NEW d \in 1 .. Len(u), IsRecord(u[d]), \A i \in 1 .. Len(u) : i < d => u[i] = 0
  PROVE  LET v == SubSeq(u, d + 1, Len(u))
         IN  u[d] = lo /\ lo <= hi /\ Ordered(v, lo + 1, hi) /\ (Whole(u, lo, hi) => Whole(v, lo + 1, hi))
<1>0. d \in 0 .. Len(u)
  OBVIOUS
<1>1. PICK v \in Seq(Nat) : /\ v = SubSeq(u, d + 1, Len(u)) /\ Len(v) = Len(u) - d
                            /\ \A i \in 1 .. Len(u) - d : i + d \in 1 .. Len(u) /\ v[i] = u[i + d]
  BY <1>0, Shortened
<1>2. Len(v) = Len(u) - d /\ Len(u) \in Nat /\ \A i \in 1 .. Len(v) : i + d \in 1 .. Len(u) /\ v[i] = u[i + d]
  BY <1>1
<1>3. /\ lo <= u[d] /\ u[d] <= hi /\ u[d] # 0
      /\ \A r \in Nat : lo <= r /\ r <= u[d] => \E j \in 1 .. Len(u) : u[j] = r
  BY DEF Ordered, IsRecord
<1>4. u[d] = lo
  <2>1. PICK j \in 1 .. Len(u) : u[j] = lo
    BY <1>3
  <2>2. ~(j < d)
    BY <2>1
  <2>3. ~(d < j)
    <3> SUFFICES ASSUME d < j
                 PROVE  FALSE
      OBVIOUS
    <3>1. u[d] < u[j]
      BY <1>3, <2>1 DEF Ordered
    <3>2. u[d] \in Nat
      OBVIOUS
    <3> QED
      BY <1>3, <2>1, <3>1, <3>2
  <2> QED
    BY <2>1, <2>2, <2>3
<1>5. ASSUME NEW r \in Nat, lo + 1 <= r, r <= hi, NEW j \in 1 .. Len(u), u[j] = r
      PROVE  \E i \in 1 .. Len(v) : v[i] = r
  <2>1. ~(j < d)
    BY <1>5
  <2>2. j # d
    BY <1>4, <1>5
  <2>3. j - d \in 1 .. Len(v) /\ j - d + d = j
    BY <1>2, <2>1, <2>2
  <2> QED
    BY <1>2, <1>5, <2>3
<1>6. \A i, j \in 1 .. Len(v) : i < j /\ v[i] # 0 /\ v[j] # 0 => v[i] < v[j]
  <2> SUFFICES ASSUME NEW i \in 1 .. Len(v), NEW j \in 1 .. Len(v), i < j, v[i] # 0, v[j] # 0
               PROVE  v[i] < v[j]
    OBVIOUS
  <2>1. i + d \in 1 .. Len(u) /\ j + d \in 1 .. Len(u) /\ i + d < j + d
    BY <1>2
  <2> QED
    BY <1>2, <2>1 DEF Ordered
<1>7. ASSUME NEW i \in 1 .. Len(v), IsRecord(v[i])
      PROVE  /\ lo + 1 <= v[i] /\ v[i] <= hi
             /\ \A r \in Nat : lo + 1 <= r /\ r <= v[i] => \E j \in 1 .. Len(v) : v[j] = r
  <2>1. i + d \in 1 .. Len(u) /\ v[i] = u[i + d] /\ v[i] \in Nat /\ d < i + d /\ v[i] # 0
    <3>1. i + d \in 1 .. Len(u) /\ v[i] = u[i + d] /\ d < i + d
      BY <1>2
    <3>2. v[i] \in Nat
      OBVIOUS
    <3> QED
      BY <1>7, <3>1, <3>2 DEF IsRecord
  <2>2. /\ v[i] <= hi
        /\ \A r \in Nat : lo <= r /\ r <= v[i] => \E j \in 1 .. Len(u) : u[j] = r
    BY <1>7, <2>1 DEF Ordered
  <2>3. u[d] < v[i]
    BY <1>3, <2>1 DEF Ordered
  <2>4. lo + 1 <= v[i]
    <3>1. PICK p \in Nat : p = v[i]
      BY <2>1
    <3>2. lo < p
      BY <1>4, <2>3, <3>1
    <3>3. lo + 1 <= p
      BY <3>2
    <3> QED
      BY <3>1, <3>3
  <2>5. \A r \in Nat : r <= v[i] => r <= hi
    BY <2>1, <2>2, BelowToo
  <2>6. \A r \in Nat : lo + 1 <= r => lo <= r
    OBVIOUS
  <2> QED
    BY <1>5, <2>2, <2>4, <2>5, <2>6
<1>8. Whole(u, lo, hi) => Whole(v, lo + 1, hi)
  <2>1. \A r \in Nat : lo + 1 <= r => lo <= r
    OBVIOUS
  <2> QED
    BY <1>5, <2>1 DEF Whole
<1>9. lo <= hi
  BY <1>3, <1>4
<1>10. Ordered(v, lo + 1, hi)
  BY <1>6, <1>7 DEF Ordered
<1> QED
  BY <1>1, <1>4, <1>8, <1>9, <1>10

(* A unit comes.                                                           *)
LEMMA Appended ==
  ASSUME NEW u \in Seq(Nat), NEW x \in Nat
  PROVE  /\ Append(u, x) \in Seq(Nat) /\ Len(Append(u, x)) = Len(u) + 1 /\ Append(u, x)[Len(u) + 1] = x
         /\ \A i \in 1 .. Len(u) + 1 : i # Len(u) + 1 => i \in 1 .. Len(u) /\ Append(u, x)[i] = u[i]
         /\ \A i \in 1 .. Len(u) : i \in 1 .. Len(u) + 1 /\ Append(u, x)[i] = u[i]
OBVIOUS

LEMMA AddedBehind ==
  ASSUME NEW b \in Seq(Nat), NEW n \in Seq(Nat), NEW x \in Nat
  PROVE  b \o (n \o <<x>>) = Append(b \o n, x)
OBVIOUS

LEMMA NoRecordBehind ==
  ASSUME NEW b \in Seq(Nat), NEW n \in Seq(Nat)
  PROVE  b \o Append(n, 0) = Append(b \o n, 0)
OBVIOUS

LEMMA OrderedGrows ==
  ASSUME NEW u \in Seq(Nat), NEW lo \in Nat, lo >= 1, NEW hi \in Int, NEW up \in Int, hi <= up, up <= MaxRecords,
         Ordered(u, lo, hi), NEW x \in Nat,
         \/ x = 0
         \/ x = Bye /\ \A i \in 1 .. Len(u) : u[i] # Bye
         \/ x = up /\ up = hi + 1 /\ lo <= up /\ Whole(u, lo, hi) /\ \A i \in 1 .. Len(u) : u[i] # Bye
  PROVE  Ordered(Append(u, x), lo, up)
<1>1. PICK v \in Seq(Nat) : v = Append(u, x)
  BY Appended
<1>2. /\ Len(v) = Len(u) + 1 /\ Len(u) \in Nat /\ v[Len(u) + 1] = x
      /\ \A i \in 1 .. Len(v) : i # Len(v) => i \in 1 .. Len(u) /\ v[i] = u[i]
      /\ \A i \in 1 .. Len(u) : i \in 1 .. Len(v) /\ v[i] = u[i]
  BY <1>1, Appended
<1>3. ASSUME NEW i \in 1 .. Len(u), u[i] # 0, x # 0
      PROVE  u[i] < x
  <2>1. u[i] # Bye
    BY <1>3
  <2>2. u[i] <= hi /\ u[i] \in Nat
    BY <1>3, <2>1 DEF Ordered, IsRecord
  <2> QED
    BY <1>3, <2>2, BoundsAssumption DEF Bye
<1>4. \A i, j \in 1 .. Len(v) : i < j /\ v[i] # 0 /\ v[j] # 0 => v[i] < v[j]
  <2> SUFFICES ASSUME NEW i \in 1 .. Len(v), NEW j \in 1 .. Len(v), i < j, v[i] # 0, v[j] # 0
               PROVE  v[i] < v[j]
    OBVIOUS
  <2>1. i # Len(v) /\ i \in 1 .. Len(u) /\ v[i] = u[i]
    <3>1. PICK m \in Nat : m = Len(v)
      BY <1>2
    <3>2. i # m
      BY <3>1
    <3> QED
      BY <1>2, <3>1, <3>2
  <2>2. CASE j = Len(v)
    BY <1>2, <1>3, <2>1, <2>2
  <2>3. CASE j # Len(v)
    BY <1>2, <2>1, <2>3 DEF Ordered
  <2> QED
    BY <2>2, <2>3
<1>5. ASSUME NEW i \in 1 .. Len(v), IsRecord(v[i])
      PROVE  /\ lo <= v[i] /\ v[i] <= up
             /\ \A r \in Nat : lo <= r /\ r <= v[i] => \E j \in 1 .. Len(v) : v[j] = r
  <2>1. CASE i # Len(v)
    <3>1. i \in 1 .. Len(u) /\ v[i] = u[i] /\ v[i] \in Nat
      <4>1. i \in 1 .. Len(u) /\ v[i] = u[i]
        BY <1>2, <2>1
      <4>2. u[i] \in Nat
        BY <4>1
      <4> QED
        BY <4>1, <4>2
    <3>2. /\ lo <= v[i] /\ v[i] <= hi
          /\ \A r \in Nat : lo <= r /\ r <= v[i] => \E j \in 1 .. Len(u) : u[j] = r
      BY <1>5, <3>1 DEF Ordered
    <3>3. v[i] <= up
      BY <3>1, <3>2
    <3>4. \A r \in Nat : lo <= r /\ r <= v[i] => \E j \in 1 .. Len(v) : v[j] = r
      BY <1>2, <3>2
    <3> QED
      BY <3>2, <3>3, <3>4
  <2>2. CASE i = Len(v)
    <3>1. v[i] = x /\ x = up /\ up = hi + 1 /\ lo <= up /\ Whole(u, lo, hi)
      BY <1>2, <1>5, <2>2 DEF IsRecord
    <3>2. ASSUME NEW r \in Nat, lo <= r, r <= v[i]
          PROVE  \E j \in 1 .. Len(v) : v[j] = r
      <4>1. CASE r = up
        BY <2>2, <3>1, <4>1
      <4>2. CASE r # up
        <5>1. r <= hi
          BY <3>1, <3>2, <4>2
        <5>2. \E j \in 1 .. Len(u) : u[j] = r
          BY <3>1, <3>2, <5>1 DEF Whole
        <5> QED
          BY <1>2, <5>2
      <4> QED
        BY <4>1, <4>2
    <3> QED
      BY <3>1, <3>2
  <2> QED
    BY <2>1, <2>2
<1> QED
  BY <1>1, <1>4, <1>5 DEF Ordered

LEMMA WholeGrows ==
  ASSUME NEW u \in Seq(Nat), NEW lo \in Nat, NEW hi \in Int, NEW up \in Int, Whole(u, lo, hi), NEW x \in Nat,
         \/ up = hi
         \/ up < lo
         \/ up = hi + 1 /\ x = up
  PROVE  Whole(Append(u, x), lo, up)
<1>1. PICK v \in Seq(Nat) : v = Append(u, x)
  BY Appended
<1>2. /\ Len(v) = Len(u) + 1 /\ Len(u) \in Nat /\ v[Len(u) + 1] = x
      /\ \A i \in 1 .. Len(u) : i \in 1 .. Len(v) /\ v[i] = u[i]
  BY <1>1, Appended
<1>3. ASSUME NEW r \in Nat, lo <= r, r <= up
      PROVE  \E j \in 1 .. Len(v) : v[j] = r
  <2>1. CASE r = x
    BY <1>2, <2>1
  <2>2. CASE r # x
    <3>1. r <= hi
      BY <1>3, <2>2
    <3>2. \E j \in 1 .. Len(u) : u[j] = r
      BY <1>3, <3>1 DEF Whole
    <3> QED
      BY <1>2, <3>2
  <2> QED
    BY <2>1, <2>2
<1> QED
  BY <1>1, <1>3 DEF Whole

(* The connection breaks: what is in bio_in_ remains.                      *)
LEMMA OrderedStays ==
  ASSUME NEW a \in Seq(Nat), NEW b \in Seq(Nat), NEW lo \in Nat, lo >= 1, NEW hi \in Int, Ordered(a \o b, lo, hi)
  PROVE  Ordered(a, lo, hi)
<1>1. PICK u \in Seq(Nat) : /\ u = a \o b /\ Len(u) = Len(a) + Len(b)
                            /\ \A i \in 1 .. Len(a) : u[i] = a[i]
  <2>1. /\ a \o b \in Seq(Nat) /\ Len(a \o b) = Len(a) + Len(b)
        /\ \A i \in 1 .. Len(a) : (a \o b)[i] = a[i]
    OBVIOUS
  <2> QED
    BY <2>1
<1>2. /\ Len(a) \in Nat /\ Len(u) \in Nat /\ Len(a) <= Len(u)
      /\ \A i \in 1 .. Len(a) : i \in 1 .. Len(u) /\ u[i] = a[i]
  BY <1>1
<1>3. \A i, j \in 1 .. Len(a) : i < j /\ a[i] # 0 /\ a[j] # 0 => a[i] < a[j]
  BY <1>1, <1>2 DEF Ordered
<1>4. ASSUME NEW i \in 1 .. Len(a), IsRecord(a[i]), NEW r \in Nat, lo <= r, r <= a[i]
      PROVE  \E j \in 1 .. Len(a) : a[j] = r
  <2>1. CASE r = a[i]
    BY <2>1
  <2>2. CASE r # a[i] /\ r # 0
    <3>1. PICK j \in 1 .. Len(u) : u[j] = r
      BY <1>1, <1>2, <1>4 DEF Ordered
    <3>2. a[i] \in Nat /\ a[i] # 0 /\ r < a[i]
      BY <1>4, <2>2 DEF IsRecord
    <3>3. i \in 1 .. Len(u) /\ u[i] = a[i]
      BY <1>2
    <3>4. ~(i < j)
      <4> SUFFICES ASSUME i < j
                   PROVE  FALSE
        OBVIOUS
      <4>1. u[i] < u[j]
        BY <1>1, <2>2, <3>1, <3>2, <3>3 DEF Ordered
      <4> QED
        BY <3>1, <3>2, <3>3, <4>1
    <3>5. j \in 1 .. Len(a)
      BY <3>4
    <3> QED
      BY <1>2, <3>1, <3>5
  <2>3. CASE r = 0
    BY <1>4, <2>3
  <2> QED
    BY <2>1, <2>2, <2>3
<1>5. \A i \in 1 .. Len(a) : IsRecord(a[i]) => lo <= a[i] /\ a[i] <= hi
  BY <1>1, <1>2 DEF Ordered
<1> QED
  BY <1>3, <1>4, <1>5 DEF Ordered

-----------------------------------------------------------------------------
LEMMA UnitsAreNumbers ==
  ASSUME SslTypes
  PROVE  /\ bioin \in Seq(Nat) /\ net \in Seq(Nat) /\ Unread \in Seq(Nat)
         /\ Ins \in Nat /\ Outs \in Nat /\ came - Ins \in Int /\ came - Ins <= MaxRecords
         /\ NextRecord \in Nat /\ NextRecord >= 1 /\ Len(handled) \in Nat
<1>1. Units \subseteq Nat
  BY BoundsAssumption DEF Units, Bye
<1>2. bioin \in Seq(Nat) /\ net \in Seq(Nat)
  <2>1. bioin \in Seq(Units) /\ net \in Seq(Units)
    BY DEF SslTypes
  <2> QED
    BY <2>1, BoundsAssumption DEF Units, Bye
<1>3. Unread \in Seq(Nat)
  BY <1>2 DEF Unread
<1>4. Len(Flight) \in 0 .. Len(Flight)
  BY FlightTyped DEF SslTypes
<1>5. Ins \in Nat /\ Outs \in Nat
  BY <1>4, Counts DEF SslTypes, Ins, Outs
<1>6. Len(handled) \in Nat
  BY DEF SslTypes
<1>7. NextRecord \in Nat /\ NextRecord >= 1
  BY <1>6 DEF NextRecord
<1> QED
  BY <1>2, <1>3, <1>5, <1>6, <1>7, BoundsAssumption DEF SslTypes

(* No unit moves.                                                          *)
LEMMA ArrivingStays ==
  ASSUME Arriving, UNCHANGED <<side, bioin, net, came, closed, broken>>, NextRecord' = NextRecord,
         InOrder', Told' => notify'.length = Len(handled') + 1,
         HoldsRecord(bioin) /\ side = "client" /\ step \in {"recv", "gone"} => step' \in {"recv", "gone"}
  PROVE  Arriving'
<1>1. Unread' = Unread /\ Ins' = Ins
  BY SameFlight DEF Unread
<1>2. Ordered(Unread, NextRecord, came - Ins)' /\ (~broken' => Whole(Unread, NextRecord, came - Ins)')
  BY <1>1 DEF Arriving, Ordered, Whole, IsRecord, Bye
<1> QED
  BY <1>1, <1>2 DEF Arriving, HoldsRecord, IsRecord, Bye

(* Units that hold no record leave.                                        *)
LEMMA ArrivingSkips ==
  ASSUME Arriving, SslTypes, UNCHANGED <<side, came, closed, broken, handled>>, ~Told, ~Told',
         NEW d \in 0 .. Len(Unread), \A i \in 1 .. d : ~IsRecord(Unread[i]),
         Unread' = SubSeq(Unread, d + 1, Len(Unread)),
         HoldsRecord(bioin') => side = "client" /\ step' \in {"recv", "gone"}
  PROVE  Arriving'
<1>1. /\ Unread \in Seq(Nat) /\ came - Ins \in Int /\ came - Ins <= MaxRecords
      /\ NextRecord \in Nat /\ NextRecord >= 1
  BY UnitsAreNumbers
<1>2. NextRecord' = NextRecord /\ Ins' = Ins
  BY SameFlight DEF NextRecord
<1>3. PICK u \in Seq(Nat), lo \in Nat, hi \in Int : u = Unread /\ lo = NextRecord /\ hi = came - Ins
  BY <1>1
<1>4. PICK v \in Seq(Nat) : /\ v = SubSeq(u, d + 1, Len(u)) /\ Len(v) = Len(u) - d
                            /\ \A i \in 1 .. Len(u) - d : i + d \in 1 .. Len(u) /\ v[i] = u[i + d]
  BY <1>3, Shortened
<1>5. Ordered(u, lo, hi) /\ (~broken => Whole(u, lo, hi))
  BY <1>3 DEF Arriving
<1>6. Ordered(v, lo, hi) /\ (~broken => Whole(v, lo, hi))
  BY <1>1, <1>3, <1>4, <1>5, OrderedSkips
<1>7. Unread' = v /\ NextRecord' = lo /\ came' - Ins' = hi /\ broken' = broken /\ closed' = closed
  BY <1>2, <1>3, <1>4
<1>8. Ordered(Unread, NextRecord, came - Ins)' /\ (~broken' => Whole(Unread, NextRecord, came - Ins)')
  <2>1. Ordered(Unread', NextRecord', came' - Ins')
    BY <1>6, <1>7
  <2>2. ~broken => Whole(Unread', NextRecord', came' - Ins')
    BY <1>6, <1>7
  <2> QED
    BY <1>7, <2>1, <2>2
<1>9. ~closed' => \A i \in 1 .. Len(Unread') : Unread'[i] # Bye
  <2>1. ~closed => \A i \in 1 .. Len(u) : u[i] # Bye
    BY <1>3 DEF Arriving
  <2>2. \A i \in 1 .. Len(v) : i + d \in 1 .. Len(u) /\ v[i] = u[i + d]
    BY <1>4
  <2>3. ~closed => \A i \in 1 .. Len(v) : v[i] # Bye
    BY <2>1, <2>2
  <2> QED
    BY <1>7, <2>3
<1>10. InOrder' /\ (NextRecord' > 1 => NextRecord' <= came' - Ins' + 1)
  BY <1>2 DEF Arriving, InOrder
<1> QED
  BY <1>8, <1>9, <1>10 DEF Arriving, HoldsRecord, IsRecord, Bye

(* The first record leaves, and the session is told of it.                 *)
LEMMA ArrivingTakes ==
  ASSUME Arriving, SslTypes, UNCHANGED <<side, came, closed, broken, handled>>, ~Told, Told',
         NEW d \in 1 .. Len(Unread), IsRecord(Unread[d]), \A i \in 1 .. Len(Unread) : i < d => Unread[i] = 0,
         Unread' = SubSeq(Unread, d + 1, Len(Unread)), notify'.length = Unread[d],
         HoldsRecord(bioin') => side = "client" /\ step' \in {"recv", "gone"}
  PROVE  Arriving'
<1>1. /\ Unread \in Seq(Nat) /\ came - Ins \in Int /\ came - Ins <= MaxRecords
      /\ NextRecord \in Nat /\ NextRecord >= 1 /\ Len(handled) \in Nat
  BY UnitsAreNumbers
<1>2. NextRecord' = NextRecord + 1 /\ Ins' = Ins /\ NextRecord = Len(handled) + 1
  BY <1>1, SameFlight DEF NextRecord
<1>3. PICK u \in Seq(Nat), lo \in Nat, hi \in Int : u = Unread /\ lo = NextRecord /\ hi = came - Ins
  BY <1>1
<1>0. d \in 0 .. Len(u) /\ d \in 1 .. Len(u) /\ IsRecord(u[d]) /\ \A i \in 1 .. Len(u) : i < d => u[i] = 0
  BY <1>3
<1>4. PICK v \in Seq(Nat) : /\ v = SubSeq(u, d + 1, Len(u)) /\ Len(v) = Len(u) - d
                            /\ \A i \in 1 .. Len(u) - d : i + d \in 1 .. Len(u) /\ v[i] = u[i + d]
  BY <1>0, Shortened
<1>5. Ordered(u, lo, hi) /\ (~broken => Whole(u, lo, hi))
  BY <1>3 DEF Arriving
<1>6. u[d] = lo /\ lo <= hi /\ Ordered(v, lo + 1, hi) /\ (~broken => Whole(v, lo + 1, hi))
  BY <1>0, <1>1, <1>3, <1>4, <1>5, OrderedTakes
<1>7. Unread' = v /\ NextRecord' = lo + 1 /\ came' - Ins' = hi /\ broken' = broken /\ closed' = closed
  BY <1>2, <1>3, <1>4
<1>8. Ordered(Unread, NextRecord, came - Ins)' /\ (~broken' => Whole(Unread, NextRecord, came - Ins)')
  <2>1. Ordered(Unread', NextRecord', came' - Ins')
    BY <1>6, <1>7
  <2>2. ~broken => Whole(Unread', NextRecord', came' - Ins')
    BY <1>6, <1>7
  <2> QED
    BY <1>7, <2>1, <2>2
<1>9. ~closed' => \A i \in 1 .. Len(Unread') : Unread'[i] # Bye
  <2>1. ~closed => \A i \in 1 .. Len(u) : u[i] # Bye
    BY <1>3 DEF Arriving
  <2>2. \A i \in 1 .. Len(v) : i + d \in 1 .. Len(u) /\ v[i] = u[i + d]
    BY <1>4
  <2>3. ~closed => \A i \in 1 .. Len(v) : v[i] # Bye
    BY <2>1, <2>2
  <2> QED
    BY <1>7, <2>3
<1>10. InOrder' /\ NextRecord' <= came' - Ins' + 1 /\ notify'.length = Len(handled') + 1
  BY <1>2, <1>3, <1>6, <1>7 DEF Arriving, InOrder
<1> QED
  BY <1>8, <1>9, <1>10 DEF Arriving, HoldsRecord, IsRecord, Bye

(* What the peer has got, and what is made for it.                         *)
LEMMA SameCount ==
  ASSUME side' = side
  PROVE  Count(hs, "out")' = Count(hs', "out") /\ Ins' = Ins /\ Outs' = Outs /\ Len(Flight)' = Len(Flight)
BY DEF Count, Flight, Ins, Outs

LEMMA CountTyped ==
  ASSUME SslTypes
  PROVE  Count(hs, "out") \in Nat /\ Shaking \in Nat /\ Flying \in Nat /\ Due \in Nat
         /\ Count(hs, "out") <= Outs /\ Outs \in Nat /\ Ins \in Nat
<1>1. hs \in 0 .. hs /\ hs \in 0 .. Len(Flight) /\ Len(Flight) \in 0 .. Len(Flight)
  BY FlightTyped DEF SslTypes
<1>2. Count(hs, "out") \in Nat /\ Count(hs, "out") <= Count(Len(Flight), "out") /\ Count(Len(Flight), "out") \in Nat
  BY <1>1, Counts DEF SslTypes
<1> QED
  BY <1>2, UnitsAreNumbers DEF Outs, Shaking, Flying, Due

LEMMA QueuedTyped ==
  ASSUME SslTypes
  PROVE  Queued \in Nat
BY DEF Queued, SslTypes

LEMMA QueuedStays ==
  ASSUME UNCHANGED <<bioout, refused>>
  PROVE  Queued' = Queued
BY DEF Queued

LEMMA HandledTyped ==
  ASSUME SslTypes, SslTypes'
  PROVE  Len(handled) \in Nat /\ Len(handled') \in Nat
<1>1. PICK h \in Seq(Units) : h = handled
  BY DEF SslTypes
<1>2. PICK k \in Seq(Units) : k = handled'
  <2>1. handled' \in Seq(Units)
    BY DEF SslTypes, Units, Bye
  <2> QED
    BY <2>1
<1>3. Len(h) \in Nat /\ Len(k) \in Nat
  OBVIOUS
<1> QED
  BY <1>1, <1>2, <1>3

LEMMA CountedKept ==
  ASSUME Counted, SslTypes, SslTypes', side' = side, came' = came, got <= got',
         side = "client" /\ step' \in Early =>
           step \in Early /\ got' + Queued' + Shaking' + Count(hs, "out") <= got + Queued + Shaking + Count(hs', "out"),
         side = "server" =>
           got' + Queued' + Flying' + Due' + Count(hs, "out") + Len(handled)
             <= got + Queued + Flying + Due + Count(hs', "out") + Len(handled')
  PROVE  Counted'
<1>1. Ins' = Ins /\ Outs' = Outs
  BY SameCount
<1>2. /\ Count(hs, "out") \in Nat /\ Shaking \in Nat /\ Flying \in Nat /\ Due \in Nat
      /\ Outs \in Nat /\ Ins \in Nat
  BY CountTyped
<1>3. /\ Count(hs', "out") \in Nat /\ Shaking' \in Nat /\ Flying' \in Nat /\ Due' \in Nat
  <2>1. hs' \in 0 .. Len(Flight) /\ hs' \in 0 .. hs'
    BY SameFlight, FlightTyped DEF SslTypes
  <2>2. Count(hs', "out") \in Nat
    BY <2>1, Counts DEF SslTypes
  <2> QED
    BY <2>2 DEF Shaking, Flying, Due
<1>4. got \in Nat /\ Queued \in Nat /\ got' \in Nat /\ Queued' \in Nat /\ came \in Nat
      /\ Len(handled) \in Nat /\ Len(handled') \in Nat
  <2>1. got \in Nat /\ Queued \in Nat /\ came \in Nat
    BY QueuedTyped DEF SslTypes
  <2>2. got' \in Nat /\ Queued' \in Nat
    BY DEF SslTypes, Queued
  <2>3. Len(handled) \in Nat /\ Len(handled') \in Nat
    BY HandledTyped
  <2> QED
    BY <2>1, <2>2, <2>3
<1>c. /\ side = "client" /\ step \in Early => got + Queued + Shaking <= Count(hs, "out")
      /\ side = "server" => got + Queued + Flying + Due <= Count(hs, "out") + Len(handled)
  BY DEF Counted
<1> HIDE DEF Counted
<1>5. side = "client" /\ step' \in Early => got' + Queued' + Shaking' <= Count(hs', "out")
  <2> SUFFICES ASSUME side = "client", step' \in Early
               PROVE  got' + Queued' + Shaking' <= Count(hs', "out")
    OBVIOUS
  <2>1. /\ got + Queued + Shaking <= Count(hs, "out")
        /\ got' + Queued' + Shaking' + Count(hs, "out") <= got + Queued + Shaking + Count(hs', "out")
    BY <1>c
  <2>2. PICK g \in Nat, b \in Nat, a \in Nat, c \in Nat, g1 \in Nat, b1 \in Nat, a1 \in Nat, c1 \in Nat :
          /\ g = got /\ b = Queued /\ a = Shaking /\ c = Count(hs, "out")
          /\ g1 = got' /\ b1 = Queued' /\ a1 = Shaking' /\ c1 = Count(hs', "out")
    BY <1>2, <1>3, <1>4
  <2>3. g + b + a <= c /\ g1 + b1 + a1 + c <= g + b + a + c1
    BY <2>1, <2>2
  <2>4. g1 + b1 + a1 <= c1
    BY <2>3
  <2> QED
    BY <2>2, <2>4
<1>6. side = "server" => got' + Queued' + Flying' + Due' <= Count(hs', "out") + Len(handled')
  <2> SUFFICES ASSUME side = "server"
               PROVE  got' + Queued' + Flying' + Due' <= Count(hs', "out") + Len(handled')
    OBVIOUS
  <2>1. /\ got + Queued + Flying + Due <= Count(hs, "out") + Len(handled)
        /\ got' + Queued' + Flying' + Due' + Count(hs, "out") + Len(handled)
             <= got + Queued + Flying + Due + Count(hs', "out") + Len(handled')
    BY <1>c
  <2>2. PICK g \in Nat, b \in Nat, a \in Nat, d \in Nat, c \in Nat, h \in Nat,
            g1 \in Nat, b1 \in Nat, a1 \in Nat, d1 \in Nat, c1 \in Nat, h1 \in Nat :
          /\ g = got /\ b = Queued /\ a = Flying /\ d = Due /\ c = Count(hs, "out") /\ h = Len(handled)
          /\ g1 = got' /\ b1 = Queued' /\ a1 = Flying' /\ d1 = Due' /\ c1 = Count(hs', "out") /\ h1 = Len(handled')
    BY <1>2, <1>3, <1>4
  <2>3. g + b + a + d <= c + h /\ g1 + b1 + a1 + d1 + c + h <= g + b + a + d + c1 + h1
    BY <2>1, <2>2
  <2>4. g1 + b1 + a1 + d1 <= c1 + h1
    BY <2>3
  <2> QED
    BY <2>2, <2>4
<1>7. /\ side = "client" /\ came > Ins => got' > Outs
      /\ side = "server" /\ came > Ins => got' >= Outs + came - Ins - 1
  BY <1>2, <1>4 DEF Counted
<1> QED
  BY <1>1, <1>5, <1>6, <1>7, SameCount DEF Counted

(* A step of the handshake takes units from the front, counts what it      *)
(* makes and waits only for what the handshake needs.                      *)
LEMMA HandshakeMoves ==
  ASSUME SslTypes, NEW p \in [{"recv", "send"} -> Callbacks], p["recv"] = "none", p["send"] = "none",
         NEW nf, NEW input \in Seq(Units), NEW st, ssl_handshake_work(p, nf, input, st),
         NEW units \in Seq(Units), units = bioin \o (IF recved_ THEN input ELSE << >>),
         refused => hs < Len(Flight)
  PROVE  /\ \E k \in 0 .. Len(units) : bioin' = SubSeq(units, k + 1, Len(units))
         /\ Queued' + Shaking' + Count(hs, "out") <= Queued + Count(hs', "out")
         /\ hs <= hs' /\ (refused' => hs' < Len(Flight))
         /\ pending'["recv"] = "handshake" => recved_' /\ hs' < Len(Flight)
         /\ pending'["recv"] \in {"none", "handshake"} /\ pending'["send"] \in {"none", "handshake"}
<1>2. /\ Furthest(units) \in hs .. Len(Flight) /\ hs \in 0 .. Len(Flight) /\ Len(Flight) \in Nat
      /\ Count(Furthest(units), "in") - Count(hs, "in") <= Cardinality({ i \in DOMAIN units : units[i] = 0 })
  BY FurthestFits, FlightTyped DEF SslTypes
<1>3. PICK n \in 0 .. Len(Flight), alert \in {0, 1} :
        /\ \/ GoesOn(units, n) /\ alert = 0 /\ refused' = FALSE
           \/ FailsAt(units, n, alert) /\ refused' = TRUE
        /\ hs' = n
        /\ bioin' = SubSeq(units, Count(n, "in") - Count(hs, "in") + 1, Len(units))
        /\ Answer(p, nf, st, n, bioout + Count(n, "out") - Count(hs, "out") + alert)
  BY DEF ssl_handshake_work
<1>n. /\ hs <= n /\ (~refused' => ~refused /\ alert = 0) /\ (refused' => n < Len(Flight))
      /\ n = hs \/ n <= Furthest(units)
  BY <1>2, <1>3 DEF GoesOn, FailsAt
<1>m. /\ Count(hs, "in") <= Count(n, "in") /\ Count(hs, "out") <= Count(n, "out")
      /\ Count(n, "in") \in Nat /\ Count(n, "out") \in Nat /\ Count(hs, "in") \in Nat /\ Count(hs, "out") \in Nat
  <2>1. hs \in 0 .. n
    BY <1>2, <1>n
  <2> QED
    BY <2>1, Counts DEF SslTypes
<1>4. Count(n, "in") - Count(hs, "in") <= Cardinality({ i \in DOMAIN units : units[i] = 0 })
  <2>z. PICK z \in Nat : z = Cardinality({ i \in DOMAIN units : units[i] = 0 })
    BY ZerosCounted
  <2>1. CASE n = hs
    <3>1. Count(n, "in") - Count(hs, "in") = 0
      BY <1>m, <2>1
    <3>2. 0 <= z
      OBVIOUS
    <3> QED
      BY <2>z, <3>1, <3>2
  <2>2. CASE n <= Furthest(units)
    <3>1. PICK f \in hs .. Len(Flight) : f = Furthest(units)
      BY <1>2
    <3>2. f \in 0 .. Len(Flight) /\ n \in 0 .. f
      BY <1>2, <2>2, <3>1
    <3>3. Count(f, "in") \in Nat /\ Count(n, "in") <= Count(f, "in")
      BY <3>2, Counts DEF SslTypes
    <3>4. Count(f, "in") - Count(hs, "in") <= z
      BY <1>2, <2>z, <3>1
    <3>5. PICK a \in Nat, b \in Nat, c \in Nat : a = Count(n, "in") /\ b = Count(f, "in") /\ c = Count(hs, "in")
      BY <1>m, <3>3
    <3>6. b - c <= z /\ a <= b
      BY <3>3, <3>4, <3>5
    <3>7. a - c <= z
      BY <3>6
    <3> QED
      BY <2>z, <3>5, <3>7
  <2> QED
    BY <1>n, <2>1, <2>2
<1>5. PICK out \in Nat : /\ out = bioout + Count(n, "out") - Count(hs, "out") + alert
                         /\ ~refused' => out + Count(hs, "out") = bioout + Count(n, "out")
  <2>1. PICK b \in Nat, c \in Nat, c1 \in Nat : b = bioout /\ c = Count(hs, "out") /\ c1 = Count(n, "out") /\ c <= c1
    BY <1>m DEF SslTypes
  <2>2. PICK a \in {0, 1} : a = alert
    OBVIOUS
  <2>3. b + c1 - c + a \in Nat /\ b + c1 - c + 0 + c = b + c1
    BY <2>1
  <2> QED
    BY <1>n, <2>1, <2>2, <2>3
<1>6. PICK k \in 0 .. Len(units) : k = Count(n, "in") - Count(hs, "in")
  <2>1. Len(units) \in Nat /\ DOMAIN units = 1 .. Len(units)
    OBVIOUS
  <2>2. IsFiniteSet(1 .. Len(units)) /\ Cardinality(1 .. Len(units)) = Len(units)
    <3>1. PICK m \in Nat : m = Len(units)
      BY <2>1
    <3>2. 1 \in Int /\ m \in Int
      OBVIOUS
    <3>3. IsFiniteSet(1 .. m) /\ Cardinality(1 .. m) = IF 1 > m THEN 0 ELSE m - 1 + 1
      BY <3>2, FS_Interval
    <3> QED
      BY <3>1, <3>3
  <2>3. Cardinality({ i \in DOMAIN units : units[i] = 0 }) <= Len(units)
        /\ Cardinality({ i \in DOMAIN units : units[i] = 0 }) \in Nat
    BY <2>1, <2>2, FS_Subset, FS_CardinalityType
  <2>5. Count(n, "in") - Count(hs, "in") \in 0 .. Len(units)
    <3>1. PICK z \in Nat : z = Cardinality({ i \in DOMAIN units : units[i] = 0 })
      BY <2>3
    <3>2. z <= Len(units) /\ Count(n, "in") - Count(hs, "in") <= z
      BY <1>4, <2>3, <3>1
    <3> QED
      BY <1>m, <2>1, <3>2
  <2> QED
    BY <2>5
<1>7. hs' = n /\ bioin' = SubSeq(units, k + 1, Len(units)) /\ Answer(p, nf, st, n, out)
  BY <1>3, <1>5, <1>6
<1>8. /\ pending'["recv"] = "handshake" => recved_' /\ n < Len(Flight)
      /\ pending'["recv"] \in {"none", "handshake"} /\ pending'["send"] \in {"none", "handshake"}
      /\ IF out > 0 THEN bioout' = out - 1 ELSE bioout' = 0 /\ pending'["send"] = "none"
  BY <1>7 DEF Answer, CallIo, OutLeft, Tell
<1>9. Queued' + Shaking' + Count(hs, "out") <= Queued + Count(n, "out")
  <2>1. CASE refused'
    <3>1. Queued' = 0 /\ Shaking' = 0 /\ Queued \in Nat
      BY <2>1 DEF Queued, Shaking, SslTypes
    <3> QED
      BY <1>m, <3>1
  <2>2. CASE ~refused'
    <3>1. Queued = bioout /\ Queued' = bioout' /\ bioout \in Nat /\ Shaking' \in {0, 1}
      BY <1>n, <2>2 DEF Queued, Shaking, SslTypes
    <3>2. PICK r \in Nat : r = bioout' + Shaking' /\ r <= out
      <4>1. CASE out > 0
        <5>1. PICK b \in Nat : b = bioout' /\ b = out - 1
          BY <1>8, <4>1
        <5>2. PICK a \in {0, 1} : a = Shaking'
          BY <3>1
        <5>3. b + a \in Nat /\ b + a <= out
          BY <5>1
        <5> QED
          BY <5>1, <5>2, <5>3
      <4>2. CASE out = 0
        <5>1. Shaking' = 0 /\ bioout' = 0
          BY <1>8, <4>2 DEF Shaking
        <5> QED
          BY <4>2, <5>1
      <4> QED
        BY <4>1, <4>2
    <3>3. PICK c \in Nat : c = Count(hs, "out")
      BY <1>m
    <3>4. r + c <= out + c
      BY <3>2
    <3> QED
      BY <1>5, <2>2, <3>1, <3>2, <3>3, <3>4
  <2> QED
    BY <2>1, <2>2
<1> QED
  BY <1>6, <1>7, <1>8, <1>9, <1>n

-----------------------------------------------------------------------------
(* Each action keeps the order.  First the calls that pend.                *)
LEMMA PendedOrders ==
  ASSUME SessionInv, Matched, Shaken, NEW op \in Calling, Calls(op), stack' = Behind(op), notify' = Reset,
         hs <= hs', hs' \in 0 .. Len(Flight), Matches(op)',
         pending'["recv"] = "handshake" => recved_' /\ hs' < Len(Flight),
         refused' => hs' < Len(Flight)
  PROVE  /\ Matched' /\ Shaken'
         /\ ~Told /\ ~Told' /\ Due' = 0 /\ (Due = 1 <=> op = "send") /\ Due \in {0, 1}
         /\ NextRecord' = NextRecord
<1>1. /\ Top("call", op) /\ stack # << >> /\ step # "gone" /\ stack[1] = At("call", op)
      /\ stack \in Seq(Acts) /\ UNCHANGED <<side, step, handled>>
  BY CallLeaves
<1>2. stack[1].at = "call" /\ stack[1].op = op /\ Len(stack) \in Nat
  BY <1>1, OnTop
<1>3. /\ stack' # << >> /\ Len(stack') = Len(stack) /\ stack'[1] = At("wait", op)
      /\ stack'[1].at = "wait" /\ stack'[1].op = op
  BY <1>1, BehindIt DEF At
<1>4. notify'.ready = 0
  BY DEF Reset, SessionInv, SslTypes, Result
<1>5. Matched'
  BY <1>1, <1>2, <1>3, SameFlight DEF Matched, Matches
<1>6. Shaken'
  <2>1. hs' < Len(Flight) => hs < Len(Flight)
    BY FlightTyped DEF SessionInv, SslTypes
  <2> QED
    BY <1>1, <1>2, <1>3, <1>4, <2>1, SameFlight DEF Shaken
<1>7. ~Told /\ ~Told'
  BY <1>1, <1>2, <1>4 DEF Told, At
<1>8. Due' = 0 /\ (Due = 1 <=> op = "send") /\ Due \in {0, 1}
  BY <1>1, <1>2, <1>3 DEF Due, At
<1> QED
  BY <1>1, <1>5, <1>6, <1>7, <1>8 DEF NextRecord

LEMMA NothingFlies ==
  ASSUME NoCall
  PROVE  Shaking = 0 /\ Flying = 0
BY DEF NoCall, Shaking, Flying

LEMMA ConnectOrders ==
  ASSUME SessionInv, SessionInv', OrderInv, io_async_connect
  PROVE  OrderInv'
<1>1. /\ "connect" \in Calling /\ Calls("connect")
      /\ pending' = [pending EXCEPT !["send"] = "connect"] /\ stack' = Behind("connect") /\ notify' = Reset
      /\ UNCHANGED <<hs, bioin, bioout, refused, recved_>>
  BY DEF io_async_connect, Calling, Pends, tls
<1>2. NoCall /\ UNCHANGED <<side, step, handled, net, came, closed, broken, got>>
  BY <1>1, CallLeaves
<1>3. pending'["send"] = "connect" /\ pending'["recv"] = "none"
  BY <1>1, <1>2 DEF NoCall, SessionInv, SslTypes
<1>4. Matches("connect")'
  BY <1>3 DEF Matches
<1>5. hs \in 0 .. Len(Flight) /\ hs <= hs
  BY FlightTyped DEF SessionInv, SslTypes
<1>r. refused' => hs' < Len(Flight)
  BY <1>1 DEF OrderInv, Shaken
<1>6. /\ Matched' /\ Shaken' /\ ~Told /\ ~Told' /\ Due' = 0 /\ Due = 0 /\ NextRecord' = NextRecord
  BY <1>1, <1>3, <1>4, <1>5, <1>r, PendedOrders DEF OrderInv
<1>7. Arriving'
  <2>1. InOrder'
    BY <1>2 DEF OrderInv, Arriving, InOrder
  <2> QED
    BY <1>1, <1>2, <1>6, <2>1, ArrivingStays DEF OrderInv
<1>8. Counted'
  <2>1. Shaking = 0 /\ Flying = 0 /\ Shaking' = 0 /\ Flying' = 0
    BY <1>2, <1>3, NothingFlies DEF Shaking, Flying
  <2>2. got <= got'
    BY <1>2 DEF SessionInv, SslTypes
  <2>q. Queued' = Queued /\ Queued \in Nat
    BY <1>1, QueuedStays, QueuedTyped DEF SessionInv
  <2>3. /\ got' + Queued' + Shaking' + Count(hs, "out") <= got + Queued + Shaking + Count(hs', "out")
        /\ got' + Queued' + Flying' + Due' + Count(hs, "out") + Len(handled)
             <= got + Queued + Flying + Due + Count(hs', "out") + Len(handled')
    BY <1>1, <1>2, <1>6, <2>1, <2>q, CountTyped DEF SessionInv, SslTypes
  <2> QED
    BY <1>2, <2>2, <2>3, CountedKept DEF SessionInv, OrderInv
<1> QED
  BY <1>6, <1>7, <1>8 DEF OrderInv

LEMMA SendOrders ==
  ASSUME SessionInv, SessionInv', OrderInv, ssl_async_send
  PROVE  OrderInv'
<1>1. /\ "send" \in Calling /\ Calls("send")
      /\ pending' = [pending EXCEPT !["send"] = "send"] /\ stack' = Behind("send") /\ notify' = Reset
      /\ UNCHANGED <<hs, bioin, refused, recved_>> /\ bioout' = OutLeft(bioout + 1)
  BY DEF ssl_async_send, Calling, Pends
<1>2. NoCall /\ UNCHANGED <<side, step, handled, net, came, closed, broken, got>>
  BY <1>1, CallLeaves
<1>3. pending'["send"] = "send" /\ pending'["recv"] = "none" /\ Queued' = Queued
  <2>1. bioout' = bioout
    BY <1>1 DEF SessionInv, SslTypes, OutLeft
  <2> QED
    BY <1>1, <1>2, <2>1, QueuedStays DEF NoCall, SessionInv, SslTypes
<1>r. ~refused /\ ~refused'
  <2>1. stack # << >> /\ stack[1].op = "send"
    BY <1>1, OnTop DEF Calls, SessionInv, SslTypes
  <2> QED
    BY <1>1, <2>1 DEF OrderInv, Shaken
<1>4. Matches("send")'
  BY <1>3 DEF Matches
<1>5. hs \in 0 .. Len(Flight) /\ hs <= hs
  BY FlightTyped DEF SessionInv, SslTypes
<1>6. /\ Matched' /\ Shaken' /\ ~Told /\ ~Told' /\ Due' = 0 /\ Due = 1 /\ NextRecord' = NextRecord
  BY <1>1, <1>3, <1>4, <1>5, <1>r, PendedOrders DEF OrderInv
<1>7. Arriving'
  <2>1. InOrder'
    BY <1>2 DEF OrderInv, Arriving, InOrder
  <2> QED
    BY <1>1, <1>2, <1>6, <2>1, ArrivingStays DEF OrderInv
<1>8. Counted'
  <2>1. Shaking = 0 /\ Flying = 0 /\ Shaking' = 0 /\ Flying' = 1
    BY <1>2, <1>3, <1>r, NothingFlies DEF Shaking, Flying
  <2>2. got <= got'
    BY <1>2 DEF SessionInv, SslTypes
  <2>3. /\ got' + Queued' + Shaking' + Count(hs, "out") <= got + Queued + Shaking + Count(hs', "out")
        /\ got' + Queued' + Flying' + Due' + Count(hs, "out") + Len(handled)
             <= got + Queued + Flying + Due + Count(hs', "out") + Len(handled')
    <3>1. hs' = hs /\ got' = got /\ Queued' = Queued /\ handled' = handled
      BY <1>1, <1>2, <1>3
    <3>2. Count(hs', "out") = Count(hs, "out") /\ Len(handled') = Len(handled)
      BY <3>1
    <3>3. PICK g \in Nat, b \in Nat, c \in Nat, h \in Nat :
            g = got /\ b = Queued /\ c = Count(hs, "out") /\ h = Len(handled)
      <4>1. got \in Nat /\ Queued \in Nat /\ Len(handled) \in Nat
        BY QueuedTyped DEF SessionInv, SslTypes
      <4>2. Count(hs, "out") \in Nat
        BY CountTyped DEF SessionInv
      <4> QED
        BY <4>1, <4>2
    <3>4. g + b + 0 + c <= g + b + 0 + c /\ g + b + 1 + 0 + c + h <= g + b + 0 + 1 + c + h
      OBVIOUS
    <3> QED
      BY <1>6, <2>1, <3>1, <3>2, <3>3, <3>4
  <2> QED
    BY <1>2, <2>2, <2>3, CountedKept DEF SessionInv, OrderInv
<1> QED
  BY <1>6, <1>7, <1>8 DEF OrderInv

(* A part of bio_in_ leaves.                                               *)
LEMMA ShortHoldsNone ==
  ASSUME NEW u \in Seq(Nat), NEW d \in 0 .. Len(u), NEW v, v = SubSeq(u, d + 1, Len(u)), HoldsRecord(v)
  PROVE  HoldsRecord(u)
<1>1. /\ v \in Seq(Nat) /\ Len(v) = Len(u) - d
      /\ \A i \in 1 .. Len(u) - d : i + d \in 1 .. Len(u) /\ v[i] = u[i + d]
  BY Shortened
<1>2. PICK i \in 1 .. Len(u) - d : IsRecord(v[i])
  BY <1>1 DEF HoldsRecord
<1> QED
  BY <1>1, <1>2 DEF HoldsRecord

LEMMA FrontOfUnread ==
  ASSUME SslTypes, NEW units \in Seq(Nat), net' \in Seq(Nat), units \o net' = Unread,
         NEW d \in 0 .. Len(units), bioin' = SubSeq(units, d + 1, Len(units))
  PROVE  /\ d \in 0 .. Len(Unread) /\ Unread' = SubSeq(Unread, d + 1, Len(Unread))
         /\ Len(units) <= Len(Unread) /\ \A i \in 1 .. Len(units) : i \in 1 .. Len(Unread) /\ Unread[i] = units[i]
<1>1. PICK n \in Seq(Nat) : n = net'
  OBVIOUS
<1>2. /\ SubSeq(units, d + 1, Len(units)) \o n = SubSeq(units \o n, d + 1, Len(units \o n))
      /\ d \in 0 .. Len(units \o n)
  BY FrontLeaves
<1>3. Len(units) <= Len(units \o n) /\ \A i \in 1 .. Len(units) : i \in 1 .. Len(units \o n) /\ (units \o n)[i] = units[i]
  OBVIOUS
<1>4. units \o n = Unread /\ Unread' = SubSeq(units, d + 1, Len(units)) \o n
  BY <1>1 DEF Unread
<1> QED
  BY <1>2, <1>3, <1>4

(* A step of the handshake, when no record is there to be taken.           *)
LEMMA HandshakeArrives ==
  ASSUME SslTypes, Arriving, NEW p \in [{"recv", "send"} -> Callbacks], p["recv"] = "none", p["send"] = "none",
         NEW nf, NEW input \in Seq(Units), NEW st, ssl_handshake_work(p, nf, input, st),
         NEW units \in Seq(Units), units = bioin \o (IF recved_ THEN input ELSE << >>),
         units \o net' = Unread, net' \in Seq(Nat), ~HoldsRecord(units), refused => hs < Len(Flight),
         UNCHANGED <<side, came, closed, broken, handled>>, ~Told, ~Told'
  PROVE  Arriving'
<1>1. units \in Seq(Nat)
  BY BoundsAssumption DEF Units, Bye
<1>2. PICK k \in 0 .. Len(units) : bioin' = SubSeq(units, k + 1, Len(units))
  BY HandshakeMoves
<1>3. /\ k \in 0 .. Len(Unread) /\ Unread' = SubSeq(Unread, k + 1, Len(Unread))
      /\ \A i \in 1 .. Len(units) : Unread[i] = units[i]
  BY <1>1, <1>2, FrontOfUnread
<1>4. ~HoldsRecord(bioin')
  BY <1>1, <1>2, ShortHoldsNone
<1>5. \A i \in 1 .. k : ~IsRecord(Unread[i])
  <2>1. \A i \in 1 .. k : i \in 1 .. Len(units)
    OBVIOUS
  <2> QED
    BY <1>3, <2>1 DEF HoldsRecord
<1> QED
  BY <1>3, <1>4, <1>5, ArrivingSkips

LEMMA HandshakeOrders ==
  ASSUME SessionInv, SessionInv', OrderInv, ssl_async_handshake
  PROVE  OrderInv'
<1>1. /\ "handshake" \in Calling /\ Calls("handshake")
      /\ ssl_handshake_work(pending, Reset, << >>, Behind("handshake"))
  BY DEF ssl_async_handshake, Calling
<1>2. /\ Top("call", "handshake") /\ stack # << >> /\ stack[1] = At("call", "handshake")
      /\ NoCall /\ UNCHANGED <<side, step, handled, net, came, closed, broken, got>>
  BY <1>1, CallLeaves
<1>3. Fresh /\ ~Fails
  BY <1>2 DEF SessionInv, Begun, Beginnings, Fails
<1>r. refused => hs < Len(Flight)
  BY DEF OrderInv, Shaken
<1>4. /\ << >> \in Seq(Units) /\ pending["recv"] = "none" /\ pending["send"] = "none"
      /\ pending \in [{"recv", "send"} -> Callbacks] /\ SslTypes
  BY <1>2 DEF NoCall, SessionInv, SslTypes
<1>5. hs' \in 0 .. Len(Flight) /\ (Started(Reset, Behind("handshake")) \/ Failed(Behind("handshake")))
  BY <1>1, <1>3, <1>4, HandshakeWorks
<1>6. stack' = Behind("handshake") /\ notify' = Reset /\ Held'
  BY <1>3, <1>5 DEF Started, Failed
<1>7. PICK units \in Seq(Units) : units = bioin \o (IF recved_ THEN << >> ELSE << >>) /\ units = << >>
  <2>1. << >> \o << >> = << >>
    OBVIOUS
  <2> QED
    BY <1>3, <1>4, <2>1 DEF Fresh
<1>8. /\ Queued' + Shaking' + Count(hs, "out") <= Queued + Count(hs', "out")
      /\ hs <= hs' /\ (refused' => hs' < Len(Flight))
      /\ pending'["recv"] = "handshake" => recved_' /\ hs' < Len(Flight)
      /\ pending'["recv"] \in {"none", "handshake"} /\ pending'["send"] \in {"none", "handshake"}
  BY <1>1, <1>4, <1>7, <1>r, HandshakeMoves
<1>9. Matches("handshake")'
  BY <1>6, <1>8 DEF Matches, Held, OneCall
<1>10. Matched' /\ Shaken' /\ ~Told /\ ~Told' /\ Due' = 0 /\ Due = 0
  BY <1>1, <1>5, <1>6, <1>8, <1>9, PendedOrders DEF OrderInv
<1>11. Arriving'
  <2>1. units \o net' = Unread /\ net' \in Seq(Nat)
    <3>1. net \in Seq(Nat)
      BY <1>4, UnitsAreNumbers
    <3> QED
      BY <1>2, <1>3, <1>7, <3>1 DEF Unread, Fresh
  <2>2. ~HoldsRecord(units)
    BY <1>7 DEF HoldsRecord
  <2> QED
    BY <1>1, <1>2, <1>4, <1>7, <1>10, <1>r, <2>1, <2>2, HandshakeArrives DEF OrderInv
<1>12. Counted'
  <2>1. Shaking = 0 /\ Flying = 0 /\ Flying' = Shaking'
    BY <1>2, <1>8, NothingFlies DEF Shaking, Flying
  <2>2. got <= got'
    BY <1>2 DEF SessionInv, SslTypes
  <2>3. PICK g \in Nat, b \in Nat, c \in Nat, h \in Nat, b1 \in Nat, a1 \in {0, 1}, c1 \in Nat :
          /\ g = got /\ b = Queued /\ c = Count(hs, "out") /\ h = Len(handled)
          /\ b1 = Queued' /\ a1 = Shaking' /\ c1 = Count(hs', "out")
    <3>1. Shaking' \in {0, 1}
      BY DEF Shaking
    <3>2. got \in Nat /\ Queued \in Nat /\ Queued' \in Nat /\ Len(handled) \in Nat
      BY DEF SessionInv, SslTypes, Queued
    <3>3. Count(hs, "out") \in Nat
      BY <1>4, CountTyped
    <3>4. Count(hs', "out") \in Nat
      <4>1. side \in Sides /\ hs' \in Nat
        BY DEF SessionInv, SslTypes
      <4>2. hs' \in 0 .. Len(Flight)
        BY <1>5
      <4> QED
        BY <1>5, <4>1, <4>2, Counts, FlightTyped
    <3> QED
      BY <3>1, <3>2, <3>3, <3>4
  <2>4. b1 + a1 + c <= b + c1
    BY <1>8, <2>3
  <2>5. g + b1 + a1 + c <= g + b + 0 + c1 /\ g + b1 + a1 + 0 + c + h <= g + b + 0 + 0 + c1 + h
    BY <2>4
  <2>6. /\ got' + Queued' + Shaking' + Count(hs, "out") <= got + Queued + Shaking + Count(hs', "out")
        /\ got' + Queued' + Flying' + Due' + Count(hs, "out") + Len(handled)
             <= got + Queued + Flying + Due + Count(hs', "out") + Len(handled')
    BY <1>2, <1>10, <2>1, <2>3, <2>5
  <2> QED
    BY <1>2, <2>2, <2>6, CountedKept DEF SessionInv, OrderInv
<1> QED
  BY <1>10, <1>11, <1>12 DEF OrderInv

(* What SSL_read leaves when it finds no record.                           *)
LEMMA RestSkips ==
  ASSUME NEW units \in Seq(Nat), ~HasRecord(units)
  PROVE  \E d \in 0 .. Len(units) : /\ RestAfter(units) = SubSeq(units, d + 1, Len(units))
                                    /\ \A i \in 1 .. d : ~IsRecord(units[i])
<1>1. PICK k \in 0 .. Len(units) : k = Record(units)
  BY RecordIsFirst
<1>2. /\ k = 0 => \A i \in 1 .. Len(units) : units[i] = 0
      /\ k # 0 => \A i \in 1 .. Len(units) : i < k => units[i] = 0
  BY <1>1, RecordIsFirst
<1>3. CASE k = 0
  <2>1. RestAfter(units) = << >> /\ SubSeq(units, Len(units) + 1, Len(units)) = << >>
    BY <1>1, <1>3 DEF RestAfter
  <2>2. Len(units) \in 0 .. Len(units) /\ \A i \in 1 .. Len(units) : ~IsRecord(units[i])
    BY <1>2, <1>3 DEF IsRecord
  <2> QED
    BY <2>1, <2>2
<1>4. CASE k # 0
  <2>0. k - 1 + 1 = k /\ k - 1 \in 0 .. Len(units)
    BY <1>4
  <2>1. RestAfter(units) = SubSeq(units, k, Len(units))
    BY <1>1, <1>4 DEF RestAfter
  <2>2. \A i \in 1 .. k - 1 : i \in 1 .. Len(units) /\ i < k
    BY <1>4
  <2>3. \A i \in 1 .. k - 1 : ~IsRecord(units[i])
    BY <1>2, <1>4, <2>2 DEF IsRecord
  <2> QED
    BY <2>0, <2>1, <2>3
<1> QED
  BY <1>3, <1>4

(* And when it finds one.                                                  *)
LEMMA RestTakes ==
  ASSUME NEW units \in Seq(Nat), HasRecord(units)
  PROVE  /\ Record(units) \in 1 .. Len(units) /\ IsRecord(units[Record(units)])
         /\ \A i \in 1 .. Len(units) : i < Record(units) => units[i] = 0
         /\ RestAfter(units) = SubSeq(units, Record(units) + 1, Len(units))
         /\ HoldsRecord(units)
<1>1. Record(units) \in 1 .. Len(units) /\ units[Record(units)] # 0 /\ units[Record(units)] # Bye
  BY RecordIsFirst DEF HasRecord
<1> QED
  BY <1>1, RecordIsFirst DEF RestAfter, HoldsRecord, IsRecord

LEMMA RecvOrders ==
  ASSUME SessionInv, SessionInv', OrderInv, ssl_async_recv
  PROVE  OrderInv'
<1>1. "recv" \in Calling /\ Calls("recv") /\ bioin' = RestAfter(bioin) /\ UNCHANGED <<hs, bioout, refused, recved_>>
  BY DEF ssl_async_recv, Calling
<1>2. /\ Top("call", "recv") /\ stack # << >> /\ stack[1] = At("call", "recv") /\ step # "gone"
      /\ NoCall /\ UNCHANGED <<side, step, handled, net, came, closed, broken, got>>
      /\ stack \in Seq(Acts) /\ Behind("recv") \in Seq(Acts)
  BY <1>1, CallLeaves
<1>3. bioin \in Seq(Nat) /\ net \in Seq(Nat) /\ SslTypes /\ Len(bioin) \in Nat
  BY UnitsAreNumbers DEF SessionInv
<1>4. hs \in 0 .. Len(Flight) /\ hs <= hs /\ got <= got'
  BY <1>2, FlightTyped DEF SessionInv, SslTypes
<1>5. stack[1].at = "call" /\ stack[1].op = "recv" /\ ~Told /\ Due = 0 /\ Len(stack) \in Nat /\ Len(stack) >= 1
  BY <1>1, <1>2, OnTop DEF Told, Due, At
<1>r. (refused' => hs' < Len(Flight)) /\ Queued' = Queued /\ Queued \in Nat
  BY <1>1, <1>3, QueuedStays, QueuedTyped DEF OrderInv, Shaken
<1>6. CASE HasRecord(bioin) /\ Tell(Behind("recv"), 0, bioin[Record(bioin)]) /\ UNCHANGED pending
  <2>1. PICK d \in 1 .. Len(bioin) : d = Record(bioin)
    BY <1>3, <1>6, RestTakes
  <2>2. /\ IsRecord(bioin[d]) /\ HoldsRecord(bioin)
        /\ \A i \in 1 .. Len(bioin) : i < d => bioin[i] = 0
        /\ bioin' = SubSeq(bioin, d + 1, Len(bioin))
    BY <1>1, <1>3, <1>6, <2>1, RestTakes
  <2>3. side = "client" /\ step = "recv"
    BY <1>2, <2>2 DEF OrderInv, Arriving
  <2>4. Entry = At("wait", "recv") /\ Entry \in Acts
    BY <2>3 DEF Entry, At, Acts, Calling
  <2>5. /\ stack' = <<Entry>> \o Behind("recv")
        /\ notify'.ready = 1 /\ notify'.error = 0 /\ notify'.length = bioin[d] /\ bioin[d] # 0
    BY <1>6, <2>1, <2>2 DEF Tell, IsRecord
  <2>6. stack' # << >> /\ stack'[1] = At("wait", "recv")
    BY <1>2, <2>4, <2>5, Entered
  <2>7. stack'[1].at = "wait" /\ stack'[1].op = "recv"
    BY <2>6 DEF At
  <2>8. Told' /\ Due' = 0
    BY <2>5, <2>6, <2>7 DEF Told, Due, At
  <2>9. Matched'
    BY <1>1, <1>2, <1>6, <2>3, <2>5, <2>6, <2>7, SameFlight DEF OrderInv, Matched, NoCall
  <2>10. Shaken'
    BY <1>1, <1>2, <1>5, SameFlight DEF OrderInv, Shaken
  <2>11. Arriving'
    <3>1. bioin \o net' = Unread /\ d \in 0 .. Len(bioin) /\ net' \in Seq(Nat)
      BY <1>2, <1>3 DEF Unread
    <3>2. /\ Unread' = SubSeq(Unread, d + 1, Len(Unread)) /\ Len(bioin) <= Len(Unread)
          /\ \A i \in 1 .. Len(bioin) : i \in 1 .. Len(Unread) /\ Unread[i] = bioin[i]
      BY <1>3, <2>2, <3>1, FrontOfUnread
    <3>3. d \in 1 .. Len(Unread) /\ Unread[d] = bioin[d]
      BY <3>2
    <3>4. \A i \in 1 .. Len(Unread) : i < d => Unread[i] = 0
      <4>1. \A i \in 1 .. Len(Unread) : i < d => i \in 1 .. Len(bioin)
        BY <1>3
      <4> QED
        BY <2>2, <3>2, <4>1
    <3> QED
      BY <1>2, <1>3, <1>5, <2>2, <2>3, <2>5, <2>8, <3>2, <3>3, <3>4, ArrivingTakes DEF OrderInv
  <2>12. Counted'
    <3>1. step' \notin Early /\ side # "server"
      BY <1>2, <2>3 DEF Early
    <3> QED
      BY <1>2, <1>4, <3>1, CountedKept DEF SessionInv, OrderInv
  <2> QED
    BY <2>9, <2>10, <2>11, <2>12 DEF OrderInv
<1>7. CASE ~HasRecord(bioin) /\ Pends("recv", "recv", "recv")
  <2>1. pending' = [pending EXCEPT !["recv"] = "recv"] /\ stack' = Behind("recv") /\ notify' = Reset
    BY <1>7 DEF Pends
  <2>2. pending'["recv"] = "recv" /\ pending'["send"] = "none"
    BY <1>2, <2>1 DEF NoCall, SessionInv, SslTypes
  <2>3. Matches("recv")'
    BY <2>2 DEF Matches
  <2>4. Matched' /\ Shaken' /\ ~Told' /\ Due' = 0
    BY <1>1, <1>4, <1>r, <2>1, <2>2, <2>3, PendedOrders DEF OrderInv
  <2>5. PICK d \in 0 .. Len(bioin) : /\ bioin' = SubSeq(bioin, d + 1, Len(bioin))
                                     /\ \A i \in 1 .. d : ~IsRecord(bioin[i])
    <3>1. \E d \in 0 .. Len(bioin) : /\ RestAfter(bioin) = SubSeq(bioin, d + 1, Len(bioin))
                                     /\ \A i \in 1 .. d : ~IsRecord(bioin[i])
      BY <1>3, <1>7, RestSkips
    <3> QED
      BY <1>1, <3>1
  <2>6. Arriving'
    <3>1. bioin \o net' = Unread /\ net' \in Seq(Nat)
      BY <1>2, <1>3 DEF Unread
    <3>2. /\ d \in 0 .. Len(Unread) /\ Unread' = SubSeq(Unread, d + 1, Len(Unread))
          /\ \A i \in 1 .. Len(bioin) : Unread[i] = bioin[i]
      BY <1>3, <2>5, <3>1, FrontOfUnread
    <3>3. \A i \in 1 .. d : i \in 1 .. Len(bioin)
      BY <1>3
    <3>4. \A i \in 1 .. d : ~IsRecord(Unread[i])
      BY <2>5, <3>2, <3>3
    <3>5. HoldsRecord(bioin') => side = "client" /\ step' \in {"recv", "gone"}
      BY <1>2, <1>3, <2>5, ShortHoldsNone DEF OrderInv, Arriving
    <3> QED
      BY <1>2, <1>3, <1>5, <2>4, <3>2, <3>4, <3>5, ArrivingSkips DEF OrderInv
  <2>7. Counted'
    <3>1. Shaking = 0 /\ Flying = 0 /\ Shaking' = 0 /\ Flying' = 0
      BY <1>2, <2>2, NothingFlies DEF Shaking, Flying
    <3>2. /\ got' + Queued' + Shaking' + Count(hs, "out") <= got + Queued + Shaking + Count(hs', "out")
          /\ got' + Queued' + Flying' + Due' + Count(hs, "out") + Len(handled)
               <= got + Queued + Flying + Due + Count(hs', "out") + Len(handled')
      BY <1>1, <1>2, <1>3, <1>5, <1>r, <2>4, <3>1, CountTyped DEF SslTypes
    <3> QED
      BY <1>2, <1>4, <3>2, CountedKept DEF SessionInv, OrderInv
  <2> QED
    BY <2>4, <2>6, <2>7 DEF OrderInv
<1> QED
  BY <1>6, <1>7 DEF ssl_async_recv

(* A call fails at once: only a server's, which has one activation.        *)
LEMMA FailsAlone ==
  ASSUME SessionInv, Matched, FailsAtOnce \subseteq {"server"}, NEW op \in {"recv", "send"}, CallFails(op)
  PROVE  side = "server" /\ Len(stack) <= 1
<1>1. side = "server"
  BY DEF CallFails, Fails
<1>2. Len(stack) \in Nat
  BY DEF SessionInv, SslTypes
<1> QED
  BY <1>1, <1>2 DEF Matched

LEMMA FailureOrders ==
  ASSUME SessionInv, SessionInv', OrderInv, FailsAtOnce \subseteq {"server"}, NEW op \in {"recv", "send"}, CallFails(op)
  PROVE  OrderInv'
<1>1. /\ op \in Calling /\ Top("call", op) /\ step' = "gone" /\ stack' = Tail(stack)
      /\ bioin' = (IF op = "recv" THEN RestAfter(bioin) ELSE bioin)
      /\ bioout' = (IF op = "send" THEN OutLeft(bioout + 1) ELSE bioout)
      /\ op = "recv" => ~HasRecord(bioin)
      /\ UNCHANGED <<side, hs, refused, pending, recved_, handled, net, came, closed, broken, got>>
  BY DEF Calling, CallFails, Clean, peer
<1>2. side = "server" /\ Len(stack) <= 1
  BY FailsAlone DEF OrderInv
<1>3. stack # << >> /\ stack[1] = At("call", op) /\ stack[1].at = "call" /\ Len(stack) \in Nat /\ Len(stack) >= 1 /\ step # "gone"
  BY <1>1, OnTop DEF SessionInv, SslTypes
<1>s. Len(stack) = 1
  <2>1. PICK n \in Nat : n = Len(stack) /\ n >= 1
    BY <1>3
  <2>2. n <= 1
    BY <1>2, <2>1
  <2> QED
    BY <2>1, <2>2
<1>4. stack' = << >> /\ Len(stack') = 0
  BY <1>1, <1>3, <1>s, LeavesIt
<1>5. NoCall /\ NoCall'
  BY <1>1, <1>3 DEF SessionInv, Stacked, NoCall
<1>6. ~Told /\ ~Told' /\ Due \in Nat /\ Due' = 0
  BY <1>3, <1>4 DEF Told, Due, At
<1>7. Matched'
  BY <1>1, <1>2, <1>4, <1>5, SameFlight DEF Matched, NoCall
<1>8. Shaken'
  BY <1>1, <1>4, SameFlight DEF OrderInv, Shaken
<1>9. bioin \in Seq(Nat) /\ net \in Seq(Nat) /\ SslTypes /\ Len(bioin) \in Nat
  BY UnitsAreNumbers DEF SessionInv
<1>10. PICK d \in 0 .. Len(bioin) : /\ bioin' = SubSeq(bioin, d + 1, Len(bioin))
                                    /\ \A i \in 1 .. d : ~IsRecord(bioin[i])
  <2>1. CASE op = "recv"
    <3>1. \E d \in 0 .. Len(bioin) : /\ RestAfter(bioin) = SubSeq(bioin, d + 1, Len(bioin))
                                     /\ \A i \in 1 .. d : ~IsRecord(bioin[i])
      BY <1>1, <1>9, <2>1, RestSkips
    <3> QED
      BY <1>1, <2>1, <3>1
  <2>2. CASE op # "recv"
    <3>1. bioin' = bioin /\ bioin = SubSeq(bioin, 0 + 1, Len(bioin)) /\ 0 \in 0 .. Len(bioin)
      BY <1>1, <1>9, <2>2
    <3>2. \A i \in 1 .. 0 : ~IsRecord(bioin[i])
      OBVIOUS
    <3> QED
      BY <3>1, <3>2
  <2> QED
    BY <2>1, <2>2
<1>11. Arriving'
  <2>1. bioin \o net' = Unread /\ net' \in Seq(Nat)
    BY <1>1, <1>9 DEF Unread
  <2>2. /\ d \in 0 .. Len(Unread) /\ Unread' = SubSeq(Unread, d + 1, Len(Unread))
        /\ \A i \in 1 .. Len(bioin) : Unread[i] = bioin[i]
    BY <1>9, <1>10, <2>1, FrontOfUnread
  <2>3. \A i \in 1 .. d : i \in 1 .. Len(bioin)
    BY <1>9
  <2>4. \A i \in 1 .. d : ~IsRecord(Unread[i])
    BY <1>10, <2>2, <2>3
  <2>5. HoldsRecord(bioin') => side = "client" /\ step' \in {"recv", "gone"}
    BY <1>1, <1>9, <1>10, ShortHoldsNone DEF OrderInv, Arriving
  <2> QED
    BY <1>1, <1>6, <1>9, <2>2, <2>4, <2>5, ArrivingSkips DEF OrderInv
<1>12. Counted'
  <2>1. Shaking = 0 /\ Flying = 0 /\ Shaking' = 0 /\ Flying' = 0
    BY <1>1, <1>5, NothingFlies DEF Shaking, Flying
  <2>2. hs' = hs /\ got' = got /\ handled' = handled /\ Queued' = Queued /\ got <= got' /\ Queued \in Nat
    <3>1. bioout' = bioout /\ got <= got'
      BY <1>1 DEF SessionInv, SslTypes, OutLeft
    <3> QED
      BY <1>1, <1>9, <3>1, QueuedStays, QueuedTyped
  <2>3. got' + Queued' + Flying' + Due' + Count(hs, "out") + Len(handled)
             <= got + Queued + Flying + Due + Count(hs', "out") + Len(handled')
    BY <1>6, <1>9, <2>1, <2>2, CountTyped DEF SslTypes
  <2> QED
    BY <1>1, <1>2, <2>2, <2>3, CountedKept DEF SessionInv, OrderInv
<1> QED
  BY <1>7, <1>8, <1>11, <1>12 DEF OrderInv

LEMMA YieldOrders ==
  ASSUME SessionInv, SessionInv', OrderInv, NEW op \in Calling, Yield(op)
  PROVE  OrderInv'
<1>1. /\ Top("wait", op) /\ notify.ready = 0 /\ step' = op /\ stack' = Tail(stack)
      /\ UNCHANGED <<side, hs, bioin, bioout, refused, pending, recved_, notify, handled, net, came, closed, broken, got>>
  BY DEF Yield, ctx, tls, peer
<1>2. /\ stack # << >> /\ stack[1] = At("wait", op) /\ stack[1].at = "wait" /\ stack[1].op = op /\ step # "gone"
      /\ Len(stack) \in Nat /\ Len(stack) >= 1
  BY <1>1, OnTop DEF SessionInv, SslTypes
<1>3. /\ stack' = << >> <=> Len(stack) = 1
      /\ stack' # << >> => stack'[1] = At("wait", "recv") /\ Len(stack) > 1
  BY <1>1, <1>2, LeavesIt
<1>4. Len(stack) > 1 => side = "client" /\ step = "recv" /\ op = "recv"
  BY <1>2 DEF OrderInv, Matched
<1>5. Matches(op)
  BY <1>1, <1>2 DEF OrderInv, Matched
<1>6. stack' # << >> => stack'[1].at = "wait" /\ stack'[1].op = "recv"
  BY <1>3 DEF At
<1>7. Len(stack') > 1 => Len(stack) > 1
  BY <1>3
<1>8. Matched'
  <2>1. Matches(op)'
    BY <1>1, <1>5 DEF Matches, Quiet, NoCall
  <2>2. /\ stack' = << >> => Matches(step)'
        /\ stack' # << >> => Matches(stack[1].op)'
    BY <1>1, <1>3, <1>4, <1>6, <2>1 DEF Matches
  <2>3. /\ Len(stack') > 1 => side' = "client" /\ step' = "recv"
        /\ stack' # << >> => stack'[1].op = "recv"
    BY <1>1, <1>4, <1>6, <1>7
  <2>4. pending'["recv"] = "handshake" => recved_' /\ hs' < Len(Flight)'
    BY <1>1, SameFlight DEF OrderInv, Matched
  <2> QED
    BY <2>2, <2>3, <2>4 DEF Matched
<1>9. Shaken'
  <2>1. hs < Len(Flight) => handled = << >> /\ op \in {"connect", "handshake"}
    BY <1>2 DEF OrderInv, Shaken
  <2>2. refused' => hs' < Len(Flight)'
    BY <1>1, SameFlight DEF OrderInv, Shaken
  <2> QED
    BY <1>1, <1>3, <1>4, <2>1, <2>2, SameFlight DEF Shaken
<1>10. ~Told /\ ~Told' /\ Due = 0 /\ Due' = 0
  BY <1>1, <1>2, <1>3, <1>6 DEF Told, Due, At
<1>11. Arriving'
  <2>1. NextRecord' = NextRecord /\ InOrder'
    BY <1>1, <1>10 DEF NextRecord, InOrder, OrderInv, Arriving
  <2>2. HoldsRecord(bioin) /\ side = "client" /\ step \in {"recv", "gone"} => step' \in {"recv", "gone"}
    BY <1>1, <1>2 DEF OrderInv, Matched
  <2> QED
    BY <1>1, <1>10, <2>1, <2>2, ArrivingStays DEF OrderInv
<1>12. Counted'
  <2>1. step' \in Early => step \in Early
    BY <1>1, <1>2 DEF Early, Calling, OrderInv, Matched
  <2>2. Shaking' = Shaking /\ Flying' = Flying /\ hs' = hs /\ got' = got /\ Queued' = Queued /\ handled' = handled
    BY <1>1, QueuedStays DEF Shaking, Flying
  <2>3. /\ got <= got' /\ got' + Queued' + Shaking' + Count(hs, "out") <= got + Queued + Shaking + Count(hs', "out")
        /\ got' + Queued' + Flying' + Due' + Count(hs, "out") + Len(handled)
             <= got + Queued + Flying + Due + Count(hs', "out") + Len(handled')
    <3>1. got \in Nat /\ Queued \in Nat /\ Len(handled) \in Nat
      BY QueuedTyped DEF SessionInv, SslTypes
    <3>2. Shaking \in Nat /\ Flying \in Nat /\ Count(hs, "out") \in Nat
      BY CountTyped DEF SessionInv
    <3> QED
      BY <1>10, <2>2, <3>1, <3>2
  <2> QED
    BY <1>1, <2>1, <2>3, CountedKept DEF SessionInv, OrderInv
<1> QED
  BY <1>8, <1>9, <1>11, <1>12 DEF OrderInv

LEMMA GoOnOrders ==
  ASSUME SessionInv, SessionInv', OrderInv, NEW op \in Calling, GoOn(op)
  PROVE  OrderInv'
<1>1. /\ Top("wait", op) /\ notify.ready = 1
      /\ UNCHANGED <<side, hs, bioin, bioout, refused, pending, recved_, notify, net, came, closed, broken, got>>
  BY DEF GoOn, ctx, tls, peer
<1>2. /\ stack # << >> /\ stack[1] = At("wait", op) /\ stack[1].at = "wait" /\ stack[1].op = op /\ step # "gone"
      /\ Len(stack) \in Nat /\ Len(stack) >= 1 /\ stack \in Seq(Acts)
  BY <1>1, OnTop DEF SessionInv, SslTypes
<1>3. NoCall /\ NoCall'
  BY <1>1, <1>2 DEF SessionInv, Stacked, NoCall
<1>4. Shaking = 0 /\ Flying = 0 /\ Shaking' = 0 /\ Flying' = 0 /\ Due = 0
  BY <1>2, <1>3, NothingFlies DEF Shaking, Flying, NoCall, Due, At
<1>5. /\ got \in Nat /\ Queued \in Nat /\ Len(handled) \in Nat /\ Count(hs, "out") \in Nat
      /\ hs' = hs /\ got' = got /\ Queued' = Queued
  BY <1>1, CountTyped, QueuedTyped, QueuedStays DEF SessionInv, SslTypes
<1>6. CASE (notify.error # 0 \/ AtEnd(op)) /\ Clean /\ UNCHANGED handled
  <2>1. Len(stack) = 1
    <3>1. Len(stack) > 1 => notify.error = 0 /\ notify.length # 0
      BY <1>1, <1>2 DEF SessionInv, Stacked
    <3>2. ~(notify.error = 0 /\ notify.length # 0)
      BY <1>6 DEF AtEnd
    <3>3. ~(Len(stack) > 1)
      BY <3>1, <3>2
    <3>4. PICK n \in Nat : n = Len(stack) /\ n >= 1
      BY <1>2
    <3>5. ~(n > 1)
      BY <3>3, <3>4
    <3>6. n = 1
      BY <3>4, <3>5
    <3> QED
      BY <3>4, <3>6
  <2>2. stack' = << >> /\ step' = "gone" /\ handled' = handled /\ Len(stack') = 0
    BY <1>2, <1>6, <2>1, LeavesIt DEF Clean
  <2>3. ~Told /\ ~Told' /\ Due' = 0
    BY <1>6, <2>2 DEF Told, Due, At, AtEnd
  <2>4. Matched'
    BY <1>3, <2>2 DEF Matched, NoCall
  <2>5. Shaken'
    BY <1>1, <2>2, SameFlight DEF OrderInv, Shaken
  <2>6. Arriving'
    <3>1. NextRecord' = NextRecord /\ InOrder'
      BY <2>2, <2>3 DEF NextRecord, InOrder, OrderInv, Arriving
    <3> QED
      BY <1>1, <2>2, <2>3, <3>1, ArrivingStays DEF OrderInv
  <2>7. Counted'
    <3>1. step' \notin Early /\ got <= got'
      BY <1>5, <2>2 DEF Early
    <3>2. got' + Queued' + Flying' + Due' + Count(hs, "out") + Len(handled)
            <= got + Queued + Flying + Due + Count(hs', "out") + Len(handled')
      BY <1>4, <1>5, <2>2, <2>3
    <3> QED
      BY <1>1, <3>1, <3>2, CountedKept DEF SessionInv, OrderInv
  <2> QED
    BY <2>4, <2>5, <2>6, <2>7 DEF OrderInv
<1>7. CASE /\ notify.error = 0 /\ ~AtEnd(op) /\ stack' = <<At("call", NextOp(op))>> \o Tail(stack) /\ step' = step
           /\ handled' = IF op = "recv" THEN Append(handled, notify.length) ELSE handled
  <2>1. PICK next \in Calling : /\ next = NextOp(op) /\ next # "connect"
                                /\ next = "handshake" <=> op = "connect"
                                /\ side = "client" /\ op = "recv" => next = "recv"
                                /\ side # "client" /\ next = "send" => op = "recv"
    BY DEF NextOp, Calling
  <2>2. /\ stack' # << >> /\ Len(stack') = Len(stack) /\ stack'[1] = At("call", next)
        /\ \A i \in DOMAIN stack' : i # 1 => i \in DOMAIN stack /\ stack'[i] = stack[i]
    <3>1. At("call", next) \in Acts
      BY DEF At, Acts
    <3> QED
      BY <1>2, <1>7, <2>1, <3>1, Moved
  <2>3. stack'[1].at = "call" /\ stack'[1].op = next /\ ~Told' /\ Due' = IF next = "send" THEN 1 ELSE 0
    BY <2>2 DEF At, Told, Due
  <2>4. Matched'
    <3>1. side' = "client" /\ step' = "recv" => stack'[1].op = "recv"
      BY <1>1, <1>2, <1>7, <2>1, <2>3 DEF OrderInv, Matched
    <3>2. stack'[1].op \in {"connect", "handshake"} => step' \in Early
      BY <1>2, <1>7, <2>1, <2>3 DEF OrderInv, Matched
    <3>3. Len(stack') > 1 => side' = "client" /\ step' = "recv"
      BY <1>1, <1>7, <2>2 DEF OrderInv, Matched
    <3> QED
      BY <1>3, <2>2, <2>3, <3>1, <3>2, <3>3 DEF Matched, NoCall
  <2>5. Shaken'
    <3>1. hs < Len(Flight) => handled = << >> /\ op = "connect"
      BY <1>1, <1>2, <1>7 DEF OrderInv, Shaken
    <3>2. hs' < Len(Flight)' => handled' = << >> /\ stack' # << >> /\ stack'[1].op = "handshake" /\ stack'[1].at = "call"
      BY <1>1, <1>7, <2>1, <2>2, <2>3, <3>1, SameFlight
    <3>3. refused' => hs' < Len(Flight)'
      BY <1>1, SameFlight DEF OrderInv, Shaken
    <3> QED
      BY <3>2, <3>3 DEF Shaken, At
  <2>6. CASE op = "recv"
    <3>1. Told
      BY <1>1, <1>2, <1>7, <2>6 DEF Told, AtEnd
    <3>2. PICK n \in Nat : n = Len(handled) /\ notify.length = n + 1
      BY <1>5, <3>1 DEF OrderInv, Arriving
    <3>3. /\ Len(handled') = n + 1 /\ DOMAIN handled' = 1 .. n + 1 /\ handled'[n + 1] = n + 1
          /\ \A i \in 1 .. n : handled'[i] = handled[i]
      <4>1. handled \in Seq(Units) /\ handled' = Append(handled, n + 1)
        BY <1>7, <2>6, <3>2 DEF SessionInv, SslTypes
      <4>2. n + 1 \in Units
        BY <3>2 DEF SessionInv, SslTypes, Result, Units
      <4> HIDE DEF Units
      <4> QED
        BY <3>2, <4>1, <4>2
    <3>4. InOrder'
      <4>1. \A i \in 1 .. n : handled[i] = i
        <5>1. DOMAIN handled = 1 .. n
          BY <3>2 DEF SessionInv, SslTypes
        <5> QED
          BY <5>1 DEF OrderInv, Arriving, InOrder
      <4>2. ASSUME NEW i \in 1 .. n + 1
            PROVE  handled'[i] = i
        <5>1. i = n + 1 \/ i \in 1 .. n
          OBVIOUS
        <5> QED
          BY <3>3, <4>1, <5>1
      <4> QED
        BY <3>3, <4>2 DEF InOrder
    <3>5. NextRecord' = NextRecord
      BY <2>3, <3>1, <3>2, <3>3 DEF NextRecord
    <3>6. Arriving'
      BY <1>1, <1>7, <2>3, <3>4, <3>5, ArrivingStays DEF OrderInv
    <3>7. Counted'
      <4>1. got <= got' /\ Due' \in {0, 1}
        BY <1>5, <2>3
      <4>2. got' + Queued' + Shaking' + Count(hs, "out") <= got + Queued + Shaking + Count(hs', "out")
        BY <1>4, <1>5
      <4>3. got' + Queued' + Flying' + Due' + Count(hs, "out") + Len(handled)
              <= got + Queued + Flying + Due + Count(hs', "out") + Len(handled')
        <5>1. PICK x \in {0, 1} : x = Due'
          BY <4>1
        <5>2. /\ got' + Queued' + Flying' + Due' + Count(hs, "out") + Len(handled)
                   = got + Queued + 0 + x + Count(hs, "out") + n
              /\ got + Queued + Flying + Due + Count(hs', "out") + Len(handled')
                   = got + Queued + 0 + 0 + Count(hs, "out") + (n + 1)
          BY <1>4, <1>5, <3>2, <3>3, <5>1
        <5> QED
          BY <1>5, <3>2, <5>1, <5>2
      <4> QED
        BY <1>1, <1>7, <4>1, <4>2, <4>3, CountedKept DEF SessionInv, OrderInv
    <3> QED
      BY <2>4, <2>5, <3>6, <3>7 DEF OrderInv
  <2>7. CASE op # "recv"
    <3>1. ~Told /\ handled' = handled
      BY <1>2, <1>7, <2>7 DEF Told, At
    <3>2. NextRecord' = NextRecord /\ InOrder'
      BY <2>3, <3>1 DEF NextRecord, InOrder, OrderInv, Arriving
    <3>3. Arriving'
      BY <1>1, <1>7, <2>3, <3>2, ArrivingStays DEF OrderInv
    <3>4. Counted'
      <4>1. got <= got' /\ (side = "server" => Due' = 0)
        BY <1>5, <2>1, <2>3, <2>7
      <4>2. got' + Queued' + Shaking' + Count(hs, "out") <= got + Queued + Shaking + Count(hs', "out")
        BY <1>4, <1>5
      <4>3. side = "server" => got' + Queued' + Flying' + Due' + Count(hs, "out") + Len(handled)
              <= got + Queued + Flying + Due + Count(hs', "out") + Len(handled')
        BY <1>4, <1>5, <3>1, <4>1
      <4> QED
        BY <1>1, <1>7, <4>1, <4>2, <4>3, CountedKept DEF SessionInv, OrderInv
    <3> QED
      BY <2>4, <2>5, <3>3, <3>4 DEF OrderInv
  <2> QED
    BY <2>6, <2>7
<1> QED
  BY <1>6, <1>7 DEF GoOn

-----------------------------------------------------------------------------
(* The completions.  A session is called back by what it waits for.        *)
LEMMA Awaited ==
  ASSUME SessionInv, Matched, NEW dir \in {"recv", "send"}, Completes(dir)
  PROVE  /\ step = pending[dir] /\ \A other \in {"recv", "send"} : other # dir => pending[other] = "none"
         /\ stack = << >> /\ UNCHANGED <<side, step, handled, came, closed, broken>>
         /\ Without(dir) \in [{"recv", "send"} -> Callbacks]
         /\ Without(dir)["recv"] = "none" /\ Without(dir)["send"] = "none"
         /\ ~Told /\ Due = 0
<1>1. /\ stack = << >> /\ step \notin {"gone", "enter"} /\ step \in Calling
      /\ UNCHANGED <<side, step, handled, came, closed, broken>>
      /\ Without(dir) \in [{"recv", "send"} -> Callbacks]
      /\ Without(dir)["recv"] = "none" /\ Without(dir)["send"] = "none"
  BY OneServed
<1>2. OneCall /\ pending[dir] # "none"
  BY <1>1 DEF SessionInv, Stacked, Completes, Held, Quiet, NoCall
<1>3. \A other \in {"recv", "send"} : other # dir => pending[other] = "none"
  BY <1>2 DEF OneCall
<1>4. Matches(step)
  BY <1>1 DEF Matched
<1>5. step = pending[dir]
  BY <1>1, <1>2, <1>3, <1>4 DEF Matches, Quiet, NoCall, Calling
<1>6. ~Told /\ Due = 0
  BY <1>1 DEF Told, Due
<1> QED
  BY <1>1, <1>3, <1>5, <1>6

(* When the last flight goes out, all are made with the handshake done.    *)
LEMMA LastWord ==
  ASSUME side \in Sides, hs \in 0 .. Len(Flight), hs < Len(Flight), Flight[Len(Flight)] = "out"
  PROVE  Count(hs, "out") < Outs
<1>1. PICK n \in Nat : n = Len(Flight)
  BY FlightTyped
<1>2. PICK h \in Nat : h = hs /\ h < n
  BY <1>1
<1> DEFINE C(m) == { i \in 1 .. m : Flight[i] = "out" }
<1>3. ASSUME NEW m \in Nat
      PROVE  IsFiniteSet(C(m))
  <2>1. IsFiniteSet(1 .. m)
    BY FS_Interval
  <2>2. C(m) \subseteq 1 .. m
    OBVIOUS
  <2> QED
    BY <2>1, <2>2, FS_Subset
<1>4. n \in C(n) /\ C(h) \subseteq C(n) \ {n}
  BY <1>1, <1>2
<1>5. IsFiniteSet(C(n) \ {n}) /\ Cardinality(C(n) \ {n}) = Cardinality(C(n)) - 1
  BY <1>3, <1>4, FS_RemoveElement
<1>6. Cardinality(C(h)) <= Cardinality(C(n) \ {n}) /\ Cardinality(C(h)) \in Nat /\ Cardinality(C(n)) \in Nat
  BY <1>3, <1>4, <1>5, FS_Subset, FS_CardinalityType
<1>7. Count(hs, "out") = Cardinality(C(h)) /\ Outs = Cardinality(C(n))
  BY <1>1, <1>2 DEF Count, Outs
<1> HIDE DEF C
<1> QED
  BY <1>5, <1>6, <1>7

(* While a handshake waits for the peer no record has been sent.           *)
LEMMA NoRecordYet ==
  ASSUME SessionInv, OrderInv, Orderly, Completes("recv"), pending["recv"] = "handshake"
  PROVE  ~HoldsRecord(Unread)
<1>1. step = "handshake" /\ ~Told /\ Due = 0 /\ pending["send"] = "none" /\ hs < Len(Flight) /\ step \in Early
  BY Awaited DEF OrderInv, Matched, Early
<1>2. handled = << >> /\ Len(handled) = 0
  BY <1>1 DEF OrderInv, Shaken
<1>3. /\ got \in Nat /\ Queued \in Nat /\ came \in Nat /\ side \in Sides /\ hs \in 0 .. Len(Flight) /\ SslTypes
  BY QueuedTyped DEF SessionInv, SslTypes
<1>4. /\ Count(hs, "out") \in Nat /\ Count(hs, "out") <= Outs /\ Outs \in Nat /\ Ins \in Nat
      /\ Shaking = 0 /\ Flying = 0
  BY <1>1, <1>3, CountTyped DEF Shaking, Flying
<1>5. came <= Ins
  <2> SUFFICES ASSUME came > Ins
               PROVE  FALSE
    BY <1>3, <1>4
  <2>1. CASE side = "client"
    <3>1. got + Queued + 0 <= Count(hs, "out") /\ got > Outs
      BY <1>1, <1>4, <2>1 DEF OrderInv, Counted
    <3> QED
      BY <1>3, <1>4, <3>1
  <2>2. CASE side = "server"
    <3>1. got + Queued + 0 + 0 <= Count(hs, "out") + 0 /\ got >= Outs + came - Ins - 1
      BY <1>1, <1>2, <1>4, <2>2 DEF OrderInv, Counted
    <3>2. Flight[Len(Flight)] = "out"
      BY <1>3, <2>2 DEF Orderly, Flight
    <3>3. Count(hs, "out") < Outs
      BY <1>1, <1>3, <3>2, LastWord
    <3> QED
      BY <1>3, <1>4, <3>1, <3>3
  <2> QED
    BY <1>3, <2>1, <2>2, SidesAssumption
<1>6. /\ Unread \in Seq(Nat) /\ NextRecord \in Nat /\ NextRecord >= 1 /\ came - Ins <= 0
  BY <1>3, <1>4, <1>5, UnitsAreNumbers
<1>7. ASSUME NEW i \in 1 .. Len(Unread), IsRecord(Unread[i])
      PROVE  FALSE
  <2>1. NextRecord <= Unread[i] /\ Unread[i] <= came - Ins
    BY <1>7 DEF OrderInv, Arriving, Ordered
  <2>2. Unread[i] \in Nat
    BY <1>6
  <2>3. PICK u \in Nat, n \in Nat, m \in Int : u = Unread[i] /\ n = NextRecord /\ m = came - Ins
    BY <1>3, <1>4, <1>6, <2>2
  <2> QED
    BY <1>6, <2>1, <2>3
<1> QED
  BY <1>7 DEF HoldsRecord

(* A step of the handshake that a callback makes.                          *)
LEMMA ShakenOrders ==
  ASSUME SessionInv, SessionInv', OrderInv, NEW dir \in {"recv", "send"}, Completes(dir), pending[dir] = "handshake",
         NEW input \in Seq(Units), ssl_handshake_work(Without(dir), notify, input, << >>),
         NEW units \in Seq(Units), units = bioin \o (IF recved_ THEN input ELSE << >>),
         units \o net' = Unread, net' \in Seq(Nat), ~HoldsRecord(units),
         got <= got', got' <= got + Shaking
  PROVE  OrderInv'
<1>1. /\ step = "handshake" /\ \A other \in {"recv", "send"} : other # dir => pending[other] = "none"
      /\ stack = << >> /\ UNCHANGED <<side, step, handled, came, closed, broken>>
      /\ Without(dir) \in [{"recv", "send"} -> Callbacks]
      /\ Without(dir)["recv"] = "none" /\ Without(dir)["send"] = "none" /\ ~Told /\ Due = 0
  BY Awaited DEF OrderInv
<1>2. SslTypes /\ SslTypes'
  BY DEF SessionInv
<1>r. refused => hs < Len(Flight)
  BY DEF OrderInv, Shaken
<1>3. /\ hs' \in 0 .. Len(Flight)
      /\ Started(notify, << >>) \/ Failed(<< >>) \/ Done(<< >>)
  BY <1>1, <1>2, HandshakeWorks
<1>4. /\ Queued' + Shaking' + Count(hs, "out") <= Queued + Count(hs', "out")
      /\ hs <= hs' /\ (refused' => hs' < Len(Flight))
      /\ pending'["recv"] = "handshake" => recved_' /\ hs' < Len(Flight)
      /\ pending'["recv"] \in {"none", "handshake"} /\ pending'["send"] \in {"none", "handshake"}
  BY <1>1, <1>2, <1>r, HandshakeMoves
<1>5. Entry = At("wait", "handshake") /\ Entry \in Acts
  BY <1>1 DEF Entry, At, Acts, Calling
<1>6. \/ stack' = << >> /\ Held'
      \/ /\ stack' = <<Entry>> \o << >> /\ NoCall' /\ notify'.ready = 1
         /\ notify'.error # 0 \/ hs' = Len(Flight)
         /\ notify'.length = 0
  BY <1>3 DEF Started, Failed, Done, Tell
<1>7. stack' = <<Entry>> \o << >> =>
        /\ stack' # << >> /\ Len(stack') = 1 /\ stack'[1] = At("wait", "handshake")
        /\ stack'[1].at = "wait" /\ stack'[1].op = "handshake"
  <2>1. <<Entry>> \o << >> = <<Entry>>
    BY <1>5
  <2> QED
    BY <1>5, <2>1 DEF At
<1>8. stack' = << >> => Len(stack') = 0
  OBVIOUS
<1>9. Matched'
  <2>1. CASE stack' = << >> /\ Held'
    <3>1. Matches("handshake")'
      BY <1>4, <2>1 DEF Matches, Held, OneCall
    <3> QED
      BY <1>1, <1>4, <1>8, <2>1, <3>1, SameFlight DEF Matched
  <2>2. CASE stack' = <<Entry>> \o << >> /\ notify'.ready = 1
    BY <1>1, <1>4, <1>7, <2>2, SameFlight DEF Matched, Early
  <2> QED
    BY <1>6, <2>1, <2>2
<1>10. Shaken'
  <2>1. hs' < Len(Flight) => hs < Len(Flight)
    <3>1. PICK l \in Nat : l = Len(Flight)
      BY <1>2, FlightTyped DEF SslTypes
    <3>2. PICK h \in Nat, h1 \in Nat : h = hs /\ h1 = hs' /\ h <= h1
      BY <1>2, <1>3, <1>4, <3>1 DEF SslTypes
    <3>3. h1 < l => h < l
      BY <3>2
    <3> QED
      BY <3>1, <3>2, <3>3
  <2>2. refused' => hs' < Len(Flight)'
    BY <1>1, <1>4, SameFlight
  <2>3. hs' < Len(Flight) => handled' = << >>
    BY <1>1, <2>1 DEF OrderInv, Shaken
  <2> QED
    BY <1>1, <1>3, <1>6, <1>7, <2>1, <2>2, <2>3, SameFlight, FlightTyped DEF Shaken, SslTypes
<1>11. ~Told' /\ Due' = 0
  BY <1>6, <1>7 DEF Told, Due, At
<1>12. Arriving'
  BY <1>1, <1>2, <1>r, <1>11, HandshakeArrives DEF OrderInv
<1>13. Counted'
  <2>1. Flying = Shaking /\ Flying' = Shaking' /\ Shaking \in {0, 1} /\ Shaking' \in {0, 1}
    BY <1>1, <1>4 DEF Shaking, Flying
  <2>2. PICK g \in Nat, g1 \in Nat, a \in {0, 1}, b \in Nat, c \in Nat, h \in Nat, b1 \in Nat, a1 \in {0, 1}, c1 \in Nat :
          /\ g = got /\ a = Shaking /\ b = Queued /\ c = Count(hs, "out") /\ h = Len(handled)
          /\ g1 = got' /\ b1 = Queued' /\ a1 = Shaking' /\ c1 = Count(hs', "out")
    <3>1. got \in Nat /\ got' \in Nat /\ Queued \in Nat /\ Queued' \in Nat /\ Len(handled) \in Nat
      BY <1>2 DEF SslTypes, Queued
    <3>2. Count(hs, "out") \in Nat
      BY <1>2, CountTyped
    <3>3. Count(hs', "out") \in Nat
      <4>1. hs' \in 0 .. hs' /\ side \in Sides
        BY <1>2, <1>3, FlightTyped DEF SslTypes
      <4> QED
        BY <1>2, <1>3, <4>1, Counts DEF SslTypes
    <3> QED
      BY <2>1, <3>1, <3>2, <3>3
  <2>3. b1 + a1 + c <= b + c1 /\ g1 <= g + a
    BY <1>4, <2>2
  <2>4. g1 + b1 + a1 + c <= g + b + a + c1 /\ g1 + b1 + a1 + 0 + c + h <= g + b + a + 0 + c1 + h
    BY <2>3
  <2>5. /\ got' + Queued' + Shaking' + Count(hs, "out") <= got + Queued + Shaking + Count(hs', "out")
        /\ got' + Queued' + Flying' + Due' + Count(hs, "out") + Len(handled)
             <= got + Queued + Flying + Due + Count(hs', "out") + Len(handled')
    BY <1>1, <1>11, <2>1, <2>2, <2>4
  <2> QED
    BY <1>1, <1>2, <2>5, CountedKept DEF OrderInv
<1> QED
  BY <1>9, <1>10, <1>12, <1>13 DEF OrderInv

(* What a receive takes from the network comes behind bio_in_.             *)
LEMMA InputTaken ==
  ASSUME SessionInv, RecvCompletes
  PROVE  \E error \in 0 .. 1, input \in Seq(Units) :
           /\ Received(error, input) /\ (error # 0 => input = << >>)
           /\ net' \in Seq(Nat) /\ (bioin \o input) \o net' = Unread
<1>1. net \in Seq(Units) /\ << >> \in Seq(Units) /\ 0 \in 0 .. 1 /\ 1 \in 0 .. 1
  BY DEF SessionInv, SslTypes
<1>2. bioin \in Seq(Nat) /\ net \in Seq(Nat)
  BY UnitsAreNumbers DEF SessionInv
<1>3. bioin \o << >> = bioin
  BY <1>2
<1>4. CASE \E k \in 1 .. Min({Len(net), RecvMax}) :
             Received(0, SubSeq(net, 1, k)) /\ net' = SubSeq(net, k + 1, Len(net))
  <2>1. PICK k \in 1 .. Min({Len(net), RecvMax}) :
             Received(0, SubSeq(net, 1, k)) /\ net' = SubSeq(net, k + 1, Len(net))
    BY <1>4
  <2>2. Len(net) \in Nat /\ RecvMax \in Nat
    BY <1>1, BoundsAssumption
  <2>3. Min({Len(net), RecvMax}) \in Nat /\ Min({Len(net), RecvMax}) <= Len(net)
    <3> DEFINE S == {Len(net), RecvMax}
    <3>1. S \in SUBSET Nat /\ S # {} /\ Len(net) \in S
      BY <2>2
    <3> HIDE DEF S
    <3>2. Min(S) \in S /\ \A y \in S : Min(S) <= y
      BY <3>1, LeastExists
    <3>3. Min(S) \in Nat /\ Min(S) <= Len(net)
      BY <3>1, <3>2
    <3> QED
      BY <3>3 DEF S
  <2>4. k \in 0 .. Len(net)
    BY <2>2, <2>3
  <2>5. SubSeq(net, 1, k) \in Seq(Units)
    <3> HIDE DEF Units
    <3> QED
      BY <1>1, <2>2, <2>4
  <2>6. SubSeq(net, k + 1, Len(net)) \in Seq(Nat)
    BY <1>2, <2>2, <2>4
  <2>7. (bioin \o SubSeq(net, 1, k)) \o SubSeq(net, k + 1, Len(net)) = Unread
    BY <1>2, <2>4, SplitAnywhere DEF Unread
  <2> QED
    BY <1>1, <2>1, <2>5, <2>6, <2>7
<1>5. CASE Received(0, << >>) /\ UNCHANGED net
  BY <1>1, <1>2, <1>3, <1>5 DEF Unread
<1>6. CASE Received(1, << >>) /\ UNCHANGED net
  BY <1>1, <1>2, <1>3, <1>6 DEF Unread
<1> QED
  BY <1>4, <1>5, <1>6 DEF RecvCompletes

(* Behind the alert that closes there is no record.                        *)
LEMMA NoneBehindBye ==
  ASSUME NEW u \in Seq(Nat), NEW lo \in Nat, NEW hi \in Int, hi <= MaxRecords, Ordered(u, lo, hi),
         NEW d \in 1 .. Len(u), u[d] = Bye
  PROVE  \A i \in 1 .. Len(u) : i >= d => ~IsRecord(u[i])
<1> SUFFICES ASSUME NEW i \in 1 .. Len(u), i >= d, IsRecord(u[i])
             PROVE  FALSE
  OBVIOUS
<1>1. u[i] \in Nat /\ u[i] # 0 /\ u[i] # Bye /\ Bye # 0 /\ MaxRecords \in Nat
  BY BoundsAssumption DEF IsRecord, Bye
<1>2. u[i] <= hi
  BY DEF Ordered
<1>3. d < i
  BY <1>1
<1>4. u[d] < u[i]
  BY <1>1, <1>3 DEF Ordered
<1> QED
  BY <1>1, <1>2, <1>4 DEF Bye

(* A server's peer has sent one request that is not answered, at most.     *)
LEMMA OneUnanswered ==
  ASSUME SessionInv, OrderInv, side = "server", ~Told
  PROVE  \A i \in 1 .. Len(Unread) : IsRecord(Unread[i]) => Unread[i] = NextRecord
<1>1. /\ got \in Nat /\ Queued \in Nat /\ came \in Nat /\ SslTypes
  BY QueuedTyped DEF SessionInv, SslTypes
<1>2. /\ Count(hs, "out") \in Nat /\ Count(hs, "out") <= Outs /\ Outs \in Nat /\ Ins \in Nat
      /\ Flying \in Nat /\ Due \in Nat
  BY <1>1, CountTyped
<1>3. Unread \in Seq(Nat) /\ NextRecord \in Nat /\ NextRecord >= 1 /\ NextRecord = Len(handled) + 1 /\ Len(handled) \in Nat
  BY <1>1, UnitsAreNumbers DEF NextRecord
<1>4. came - Ins <= NextRecord
  <2>1. CASE came <= Ins
    BY <1>1, <1>2, <1>3, <2>1
  <2>2. CASE came > Ins
    <3>1. got + Queued + Flying + Due <= Count(hs, "out") + Len(handled) /\ got >= Outs + came - Ins - 1
      BY <2>2 DEF OrderInv, Counted
    <3> QED
      BY <1>1, <1>2, <1>3, <3>1
  <2> QED
    BY <1>1, <1>2, <2>1, <2>2
<1>5. ASSUME NEW i \in 1 .. Len(Unread), IsRecord(Unread[i])
      PROVE  Unread[i] = NextRecord
  <2>1. NextRecord <= Unread[i] /\ Unread[i] <= came - Ins
    BY <1>5 DEF OrderInv, Arriving, Ordered
  <2>2. PICK x \in Nat, n \in Nat, m \in Int : x = Unread[i] /\ n = NextRecord /\ m = came - Ins
    BY <1>1, <1>2, <1>3
  <2>3. x = n
    BY <1>4, <2>1, <2>2
  <2> QED
    BY <2>2, <2>3
<1> QED
  BY <1>5

LEMMA RestHoldsNone ==
  ASSUME SessionInv, OrderInv, NEW units \in Seq(Nat), net' \in Seq(Nat), units \o net' = Unread, ~HasRecord(units)
  PROVE  ~HoldsRecord(RestAfter(units))
<1>1. PICK k \in 0 .. Len(units) : k = Record(units)
  BY RecordIsFirst
<1>2. CASE k = 0
  <2>1. RestAfter(units) = << >>
    BY <1>1, <1>2 DEF RestAfter
  <2> QED
    BY <2>1 DEF HoldsRecord
<1>3. CASE k # 0
  <2>1. k - 1 + 1 = k /\ k - 1 \in 0 .. Len(units) /\ k \in 1 .. Len(units) /\ Len(units) \in Nat
    BY <1>3
  <2>2. units[k] = Bye /\ RestAfter(units) = SubSeq(units, k, Len(units))
    BY <1>1, <1>3 DEF HasRecord, RestAfter
  <2>3. PICK v \in Seq(Nat) : /\ v = SubSeq(units, (k - 1) + 1, Len(units)) /\ Len(v) = Len(units) - (k - 1)
                              /\ \A i \in 1 .. Len(units) - (k - 1) : i + (k - 1) \in 1 .. Len(units) /\ v[i] = units[i + (k - 1)]
    BY <2>1, Shortened
  <2>4. RestAfter(units) = v
    BY <2>1, <2>2, <2>3
  <2>5. PICK u \in Seq(Nat) : /\ u = Unread /\ Len(u) \in Nat
                              /\ \A i \in 1 .. Len(units) : i \in 1 .. Len(u) /\ u[i] = units[i]
    <3>1. PICK n \in Seq(Nat) : n = net'
      OBVIOUS
    <3>2. /\ units \o n \in Seq(Nat) /\ Len(units \o n) \in Nat
          /\ \A i \in 1 .. Len(units) : i \in 1 .. Len(units \o n) /\ (units \o n)[i] = units[i]
      OBVIOUS
    <3> QED
      BY <3>1, <3>2
  <2>6. PICK lo \in Nat, hi \in Int : hi <= MaxRecords /\ Ordered(u, lo, hi)
    BY <2>5, UnitsAreNumbers DEF SessionInv, OrderInv, Arriving
  <2>7. \A i \in 1 .. Len(u) : i >= k => ~IsRecord(u[i])
    BY <2>1, <2>2, <2>5, <2>6, NoneBehindBye
  <2>8. ASSUME NEW i \in 1 .. Len(v)
        PROVE  ~IsRecord(v[i])
    <3>1. i + (k - 1) \in 1 .. Len(units) /\ v[i] = units[i + (k - 1)] /\ i + (k - 1) >= k
      BY <2>1, <2>3
    <3> QED
      BY <2>5, <2>7, <3>1
  <2> QED
    BY <2>4, <2>8 DEF HoldsRecord
<1> QED
  BY <1>2, <1>3

LEMMA OnrecvOrders ==
  ASSUME SessionInv, SessionInv', OrderInv, Completes("recv"), pending["recv"] = "recv",
         NEW error \in 0 .. 1, NEW input \in Seq(Units), ssl_async_onrecv(Without("recv"), error, input),
         error # 0 => input = << >>, net' \in Seq(Nat), (bioin \o input) \o net' = Unread, got' = got
  PROVE  OrderInv'
<1>1. /\ step = "recv" /\ pending["send"] = "none"
      /\ stack = << >> /\ UNCHANGED <<side, step, handled, came, closed, broken>>
      /\ Without("recv") \in [{"recv", "send"} -> Callbacks]
      /\ Without("recv")["recv"] = "none" /\ Without("recv")["send"] = "none" /\ ~Told /\ Due = 0
  BY Awaited DEF OrderInv
<1>2. SslTypes /\ SslTypes' /\ bioin \in Seq(Nat)
  BY UnitsAreNumbers DEF SessionInv
<1>3. PICK units \in Seq(Nat) : units = bioin \o input /\ (input = << >> => units = bioin) /\ units \o net' = Unread
  <2>1. bioin \o input \in Seq(Nat) /\ (input = << >> => bioin \o input = bioin)
    <3>1. input \in Seq(Nat)
      BY BoundsAssumption DEF Units, Bye
    <3> QED
      BY <1>2, <3>1
  <2> QED
    BY <2>1
<1>4. UNCHANGED <<hs, bioout, refused, recved_>> /\ ~(hs < Len(Flight))
  BY <1>1 DEF ssl_async_onrecv, OrderInv, Shaken
<1>5. Entry = At("wait", "recv") /\ Entry \in Acts
  BY <1>1 DEF Entry, At, Acts, Calling
<1>6. stack' = <<Entry>> \o << >> =>
        /\ stack' # << >> /\ Len(stack') = 1 /\ stack'[1] = At("wait", "recv")
        /\ stack'[1].at = "wait" /\ stack'[1].op = "recv"
  <2>1. <<Entry>> \o << >> = <<Entry>>
    BY <1>5
  <2> QED
    BY <1>5, <2>1 DEF At
<1>7. stack' = << >> => Len(stack') = 0
  OBVIOUS
<1>8. \/ /\ HasRecord(units) /\ bioin' = RestAfter(units) /\ pending' = Without("recv")
         /\ Tell(<< >>, 0, units[Record(units)])
      \/ /\ \/ input = << >> /\ bioin' = bioin
            \/ ~HasRecord(units) /\ bioin' = RestAfter(units)
         /\ \/ pending' = Without("recv") /\ Tell(<< >>, error, 0)
            \/ pending' = Without("recv") /\ Tell(<< >>, 0, 0)
            \/ pending' = Without("recv") /\ Tell(<< >>, -1, 0)
            \/ CallIo(Without("recv"), notify, "recv", "recv", << >>)
  BY <1>3 DEF ssl_async_onrecv, Ended
<1>t. ASSUME NEW e, NEW l, Tell(<< >>, e, l)
      PROVE  notify'.ready = 1 /\ notify'.error = e /\ notify'.length = l /\ stack' = <<Entry>> \o << >>
  BY <1>t DEF Tell
<1>c. CallIo(Without("recv"), notify, "recv", "recv", << >>) =>
        \/ stack' = << >> /\ pending' = [Without("recv") EXCEPT !["recv"] = "recv"]
        \/ pending' = Without("recv") /\ Tell(<< >>, 1, 0)
  BY DEF CallIo
<1>9. /\ \/ stack' = <<Entry>> \o << >> /\ notify'.ready = 1 /\ pending' = Without("recv")
         \/ stack' = << >> /\ pending' = [Without("recv") EXCEPT !["recv"] = "recv"]
      /\ \/ /\ HasRecord(units) /\ bioin' = RestAfter(units) /\ stack' = <<Entry>> \o << >>
            /\ notify'.ready = 1 /\ notify'.error = 0 /\ notify'.length = units[Record(units)]
         \/ /\ \/ input = << >> /\ bioin' = bioin
               \/ ~HasRecord(units) /\ bioin' = RestAfter(units)
            /\ stack' = << >> \/ notify'.length = 0
  <2>1. CASE /\ HasRecord(units) /\ bioin' = RestAfter(units) /\ pending' = Without("recv")
             /\ Tell(<< >>, 0, units[Record(units)])
    BY <1>t, <2>1
  <2>2. ASSUME \/ pending' = Without("recv") /\ Tell(<< >>, error, 0)
               \/ pending' = Without("recv") /\ Tell(<< >>, 0, 0)
               \/ pending' = Without("recv") /\ Tell(<< >>, -1, 0)
               \/ CallIo(Without("recv"), notify, "recv", "recv", << >>)
        PROVE  \/ /\ stack' = <<Entry>> \o << >> /\ notify'.ready = 1 /\ pending' = Without("recv")
                  /\ notify'.length = 0
               \/ stack' = << >> /\ pending' = [Without("recv") EXCEPT !["recv"] = "recv"]
    <3>1. CASE pending' = Without("recv") /\ \E e : Tell(<< >>, e, 0)
      BY <1>t, <3>1
    <3> QED
      BY <1>c, <2>2, <3>1
  <2>3. CASE /\ \/ input = << >> /\ bioin' = bioin
                \/ ~HasRecord(units) /\ bioin' = RestAfter(units)
             /\ \/ pending' = Without("recv") /\ Tell(<< >>, error, 0)
                \/ pending' = Without("recv") /\ Tell(<< >>, 0, 0)
                \/ pending' = Without("recv") /\ Tell(<< >>, -1, 0)
                \/ CallIo(Without("recv"), notify, "recv", "recv", << >>)
    <3>1. \/ /\ stack' = <<Entry>> \o << >> /\ notify'.ready = 1 /\ pending' = Without("recv")
             /\ notify'.length = 0
          \/ stack' = << >> /\ pending' = [Without("recv") EXCEPT !["recv"] = "recv"]
      BY <2>2, <2>3
    <3>2. \/ input = << >> /\ bioin' = bioin
          \/ ~HasRecord(units) /\ bioin' = RestAfter(units)
      BY <2>3
    <3> QED
      BY <3>1, <3>2
  <2> QED
    BY <1>8, <2>1, <2>3
<1>10. /\ pending'["recv"] \in {"none", "recv"} /\ pending'["send"] = "none"
       /\ stack' = << >> => pending'["recv"] = "recv"
  BY <1>1, <1>9, <1>6
<1>11. Matched'
  <2>1. CASE stack' = << >>
    <3>1. Matches("recv")'
      BY <1>10, <2>1 DEF Matches
    <3> QED
      BY <1>1, <1>7, <1>10, <2>1, <3>1 DEF Matched
  <2>2. CASE stack' = <<Entry>> \o << >> /\ notify'.ready = 1
    BY <1>1, <1>6, <1>10, <2>2 DEF Matched
  <2> QED
    BY <1>9, <2>1, <2>2
<1>12. Shaken'
  BY <1>1, <1>4, SameFlight DEF OrderInv, Shaken
<1>13. Due' = 0
  BY <1>6, <1>9 DEF Due, At
<1>14. Counted'
  <2>1. Flying = 0 /\ Flying' = 0 /\ step' \notin Early
    BY <1>1, <1>10 DEF OneCall, Flying, Early, OrderInv
  <2>2. got <= got' /\ got \in Nat /\ Queued \in Nat /\ Len(handled) \in Nat /\ Count(hs, "out") \in Nat
    BY <1>2, CountTyped, QueuedTyped DEF SslTypes
  <2>3. got' + Queued' + Flying' + Due' + Count(hs, "out") + Len(handled)
          <= got + Queued + Flying + Due + Count(hs', "out") + Len(handled')
    BY <1>1, <1>4, <1>13, <2>1, <2>2, QueuedStays
  <2> QED
    BY <1>1, <1>2, <2>1, <2>2, <2>3, CountedKept DEF OrderInv
<1>15. CASE /\ HasRecord(units) /\ bioin' = RestAfter(units) /\ stack' = <<Entry>> \o << >>
            /\ notify'.ready = 1 /\ notify'.error = 0 /\ notify'.length = units[Record(units)]
  <2>1. PICK d \in 1 .. Len(units) : /\ d = Record(units) /\ IsRecord(units[d])
                                     /\ \A i \in 1 .. Len(units) : i < d => units[i] = 0
                                     /\ bioin' = SubSeq(units, d + 1, Len(units))
    BY <1>15, RestTakes
  <2>2. Told'
    BY <1>6, <1>15, <2>1 DEF Told, IsRecord
  <2>3. /\ d \in 0 .. Len(Unread) /\ Unread' = SubSeq(Unread, d + 1, Len(Unread))
        /\ Len(units) <= Len(Unread) /\ \A i \in 1 .. Len(units) : i \in 1 .. Len(Unread) /\ Unread[i] = units[i]
    <3>1. d \in 0 .. Len(units)
      OBVIOUS
    <3> QED
      BY <1>2, <1>3, <2>1, <3>1, FrontOfUnread
  <2>4. d \in 1 .. Len(Unread) /\ Unread[d] = units[d]
    BY <2>3
  <2>5. \A i \in 1 .. Len(Unread) : i < d => Unread[i] = 0
    <3>1. \A i \in 1 .. Len(Unread) : i < d => i \in 1 .. Len(units)
      OBVIOUS
    <3> QED
      BY <2>1, <2>3, <3>1
  <2>6. HoldsRecord(bioin') => side = "client"
    <3> SUFFICES ASSUME side = "server"
                 PROVE  ~HoldsRecord(bioin')
      BY <1>2, SidesAssumption DEF SslTypes
    <3>1. PICK v \in Seq(Nat) : /\ v = bioin' /\ Len(v) = Len(units) - d
                                /\ \A i \in 1 .. Len(units) - d : i + d \in 1 .. Len(units) /\ v[i] = units[i + d]
      <4>1. d \in 0 .. Len(units)
        OBVIOUS
      <4> QED
        BY <2>1, <4>1, Shortened
    <3>2. \A i \in 1 .. Len(Unread) : IsRecord(Unread[i]) => Unread[i] = NextRecord
      BY <1>1, OneUnanswered
    <3>3. ASSUME NEW i \in 1 .. Len(v), IsRecord(v[i])
          PROVE  FALSE
      <4>1. PICK j \in 1 .. Len(units) : j = i + d /\ v[i] = units[j] /\ d < j
        <5>1. i + d \in 1 .. Len(units) /\ v[i] = units[i + d] /\ d < i + d
          BY <3>1
        <5> QED
          BY <5>1
      <4>2. units[j] = NextRecord /\ units[d] = NextRecord
        BY <2>1, <2>3, <3>2, <3>3, <4>1
      <4>3. j \in 1 .. Len(Unread) /\ Unread[j] = units[j] /\ NextRecord # 0
        <5>1. NextRecord # 0
          BY <1>2, UnitsAreNumbers
        <5> QED
          BY <2>3, <5>1
      <4>4. Unread[d] < Unread[j]
        BY <2>4, <4>1, <4>2, <4>3 DEF OrderInv, Arriving, Ordered
      <4>5. NextRecord \in Nat
        BY <1>2, UnitsAreNumbers
      <4> QED
        BY <2>4, <4>2, <4>3, <4>4, <4>5
    <3> QED
      BY <3>1, <3>3 DEF HoldsRecord
  <2>7. Arriving'
    BY <1>1, <1>2, <1>15, <2>1, <2>2, <2>3, <2>4, <2>5, <2>6, ArrivingTakes DEF OrderInv
  <2> QED
    BY <1>11, <1>12, <1>14, <2>7 DEF OrderInv
<1>16. CASE /\ \/ input = << >> /\ bioin' = bioin
               \/ ~HasRecord(units) /\ bioin' = RestAfter(units)
            /\ stack' = << >> \/ notify'.length = 0
  <2>1. ~Told'
    BY <1>16 DEF Told
  <2>2. PICK d \in 0 .. Len(units) : /\ bioin' = SubSeq(units, d + 1, Len(units))
                                     /\ \A i \in 1 .. d : ~IsRecord(units[i])
    <3>1. CASE input = << >> /\ bioin' = bioin
      <4>1. units = SubSeq(units, 0 + 1, Len(units)) /\ 0 \in 0 .. Len(units) /\ \A i \in 1 .. 0 : ~IsRecord(units[i])
        OBVIOUS
      <4> QED
        BY <1>3, <3>1, <4>1
    <3>2. CASE ~HasRecord(units) /\ bioin' = RestAfter(units)
      BY <3>2, RestSkips
    <3> QED
      BY <1>16, <3>1, <3>2
  <2>3. /\ d \in 0 .. Len(Unread) /\ Unread' = SubSeq(Unread, d + 1, Len(Unread))
        /\ \A i \in 1 .. Len(units) : Unread[i] = units[i]
    BY <1>2, <1>3, <2>2, FrontOfUnread
  <2>4. \A i \in 1 .. d : ~IsRecord(Unread[i])
    <3>1. \A i \in 1 .. d : i \in 1 .. Len(units)
      OBVIOUS
    <3> QED
      BY <2>2, <2>3, <3>1
  <2>5. HoldsRecord(bioin') => side = "client"
    <3>1. CASE bioin' = bioin
      BY <3>1 DEF OrderInv, Arriving
    <3>2. CASE ~HasRecord(units) /\ bioin' = RestAfter(units)
      BY <1>3, <3>2, RestHoldsNone
    <3> QED
      BY <1>16, <3>1, <3>2
  <2>6. Arriving'
    BY <1>1, <1>2, <2>1, <2>3, <2>4, <2>5, ArrivingSkips DEF OrderInv
  <2> QED
    BY <1>11, <1>12, <1>14, <2>6 DEF OrderInv
<1> QED
  BY <1>9, <1>15, <1>16

LEMMA ReceivedOrders ==
  ASSUME SessionInv, SessionInv', OrderInv, Orderly, RecvCompletes
  PROVE  OrderInv'
<1>1. Completes("recv") /\ got' = got
  BY DEF RecvCompletes
<1>2. PICK error \in 0 .. 1, input \in Seq(Units) :
           /\ Received(error, input) /\ (error # 0 => input = << >>)
           /\ net' \in Seq(Nat) /\ (bioin \o input) \o net' = Unread
  BY InputTaken
<1>3. CASE pending["recv"] = "handshake" /\ ssl_handshake_work(Without("recv"), notify, input, << >>)
  <2>1. recved_ /\ got <= got' /\ got' <= got + Shaking
    <3>1. got \in Nat /\ Shaking \in Nat
      BY CountTyped DEF SessionInv, SslTypes
    <3> QED
      BY <1>1, <1>3, <3>1 DEF OrderInv, Matched
  <2>2. PICK units \in Seq(Units) : units = bioin \o (IF recved_ THEN input ELSE << >>) /\ units = bioin \o input
    <3>1. bioin \in Seq(Units)
      BY DEF SessionInv, SslTypes
    <3> HIDE DEF Units
    <3>2. bioin \o input \in Seq(Units)
      BY <3>1
    <3> QED
      BY <2>1, <3>2
  <2>3. ~HoldsRecord(units)
    <3>1. PICK n \in Seq(Nat) : n = net' /\ units \o n = Unread
      BY <1>2, <2>2
    <3>2. units \in Seq(Nat)
      BY BoundsAssumption DEF Units, Bye
    <3>3. \A i \in 1 .. Len(units) : i \in 1 .. Len(units \o n) /\ (units \o n)[i] = units[i]
      BY <3>2
    <3>4. ~HoldsRecord(Unread)
      BY <1>1, <1>3, NoRecordYet
    <3> QED
      BY <3>1, <3>3, <3>4 DEF HoldsRecord
  <2> QED
    BY <1>1, <1>2, <1>3, <2>1, <2>2, <2>3, ShakenOrders
<1>4. CASE pending["recv"] = "recv" /\ ssl_async_onrecv(Without("recv"), error, input)
  BY <1>1, <1>2, <1>4, OnrecvOrders
<1> QED
  BY <1>2, <1>3, <1>4 DEF Received

(* The session is told of its connect or its send.                         *)
LEMMA ToldOrders ==
  ASSUME SessionInv, SessionInv', OrderInv, Completes("send"), pending["send"] \in {"connect", "send"},
         pending' = Without("send"), stack' = <<Entry>> \o << >>, notify'.ready = 1,
         UNCHANGED <<hs, bioin, bioout, refused, recved_, net>>,
         got <= got', got' <= got + Flying
  PROVE  OrderInv'
<1>1. /\ step = pending["send"] /\ pending["recv"] = "none"
      /\ stack = << >> /\ UNCHANGED <<side, step, handled, came, closed, broken>>
      /\ Without("send")["recv"] = "none" /\ Without("send")["send"] = "none" /\ ~Told /\ Due = 0
  BY Awaited DEF OrderInv
<1>2. SslTypes /\ SslTypes'
  BY DEF SessionInv
<1>3. Entry = At("wait", step) /\ Entry \in Acts /\ step \in {"connect", "send"}
  BY <1>1 DEF Entry, At, Acts, Calling
<1>4. /\ stack' # << >> /\ Len(stack') = 1 /\ stack'[1] = At("wait", step)
      /\ stack'[1].at = "wait" /\ stack'[1].op = step
  <2>1. <<Entry>> \o << >> = <<Entry>>
    BY <1>3
  <2> QED
    BY <1>3, <2>1 DEF At
<1>5. NoCall'
  BY <1>1 DEF NoCall
<1>6. Matched'
  BY <1>1, <1>3, <1>4, <1>5 DEF Matched, NoCall, Early
<1>7. Shaken'
  <2>1. hs < Len(Flight) => handled = << >> /\ step = "connect"
    BY <1>1, <1>3 DEF OrderInv, Shaken
  <2>2. refused' => hs' < Len(Flight)'
    BY <1>1, SameFlight DEF OrderInv, Shaken
  <2> QED
    BY <1>1, <1>4, <2>1, <2>2, SameFlight DEF Shaken, At
<1>8. ~Told' /\ Due' = 0
  BY <1>3, <1>4 DEF Told, Due, At
<1>9. Arriving'
  <2>1. NextRecord' = NextRecord /\ InOrder'
    BY <1>1, <1>8 DEF NextRecord, InOrder, OrderInv, Arriving
  <2> QED
    BY <1>1, <1>8, <2>1, ArrivingStays DEF OrderInv
<1>10. Counted'
  <2>1. /\ Flying' = 0 /\ Shaking' = 0 /\ Shaking = 0 /\ (step = "connect" => Flying = 0) /\ Flying \in {0, 1}
    BY <1>1, <1>3, <1>5 DEF Flying, Shaking, NoCall
  <2>2. PICK g \in Nat, g1 \in Nat, a \in {0, 1}, b \in Nat, c \in Nat, h \in Nat :
          g = got /\ g1 = got' /\ a = Flying /\ b = Queued /\ c = Count(hs, "out") /\ h = Len(handled)
    <3>1. got \in Nat /\ got' \in Nat /\ Queued \in Nat /\ Len(handled) \in Nat
      BY <1>2, QueuedTyped DEF SslTypes
    <3>2. Count(hs, "out") \in Nat
      BY <1>2, CountTyped
    <3> QED
      BY <2>1, <3>1, <3>2
  <2>3. g1 <= g + a
    BY <2>2
  <2>4. g1 + b + 0 + 0 + c + h <= g + b + a + 0 + c + h /\ (a = 0 => g1 + b + 0 + c <= g + b + 0 + c)
    BY <2>3
  <2>5. got' + Queued' + Flying' + Due' + Count(hs, "out") + Len(handled)
          <= got + Queued + Flying + Due + Count(hs', "out") + Len(handled')
    BY <1>1, <1>8, <2>1, <2>2, <2>4, QueuedStays
  <2>6. step' \in Early => step \in Early /\ got' + Queued' + Shaking' + Count(hs, "out") <= got + Queued + Shaking + Count(hs', "out")
    <3>1. step' \in Early => step \in Early /\ a = 0
      BY <1>1, <1>3, <2>1, <2>2 DEF Early
    <3> QED
      BY <2>1, <2>2, <2>4, <3>1, QueuedStays
  <2> QED
    BY <1>1, <1>2, <2>5, <2>6, CountedKept DEF OrderInv
<1> QED
  BY <1>6, <1>7, <1>9, <1>10 DEF OrderInv

LEMMA SentOrders ==
  ASSUME SessionInv, SessionInv', OrderInv, SendCompletes
  PROVE  OrderInv'
<1>1. Completes("send") /\ net' = net /\ got \in Nat /\ net \in Seq(Nat) /\ bioin \in Seq(Nat)
  BY UnitsAreNumbers DEF SendCompletes, SessionInv, SslTypes
<1>2. CASE /\ pending["send"] = "connect" /\ pending' = Without("send")
           /\ \E error \in {0, 1} : Tell(<< >>, error, 0)
           /\ UNCHANGED <<tls, recved_, got>>
  <2>1. stack' = <<Entry>> \o << >> /\ notify'.ready = 1 /\ Flying = 0
    BY <1>2 DEF Tell, Flying
  <2> QED
    BY <1>1, <1>2, <2>1, ToldOrders DEF tls
<1>3. CASE /\ pending["send"] = "send" /\ pending' = Without("send") /\ Tell(<< >>, 0, 1)
           /\ got' = (IF broken THEN got ELSE got + 1)
           /\ UNCHANGED <<tls, recved_>>
  <2>0. ~refused
    <3>1. step = "send" /\ stack = << >>
      BY <1>1, <1>3, Awaited DEF OrderInv
    <3> QED
      BY <3>1 DEF OrderInv, Shaken
  <2>1. stack' = <<Entry>> \o << >> /\ notify'.ready = 1 /\ Flying = 1
    BY <1>3, <2>0 DEF Tell, Flying
  <2>2. got <= got' /\ got' <= got + Flying
    BY <1>1, <1>3, <2>1
  <2> QED
    BY <1>1, <1>3, <2>1, <2>2, ToldOrders DEF tls
<1>4. CASE /\ pending["send"] = "handshake" /\ ssl_handshake_work(Without("send"), notify, << >>, << >>)
           /\ got' = (IF broken \/ refused THEN got ELSE got + 1)
  <2>1. got <= got' /\ got' <= got + Shaking
    <3>1. Shaking = IF refused THEN 0 ELSE 1
      BY <1>4 DEF Shaking
    <3> QED
      BY <1>1, <1>4, <3>1
  <2>2. << >> \in Seq(Units) /\ bioin \in Seq(Units)
    BY DEF SessionInv, SslTypes
  <2>3. PICK units \in Seq(Units) : units = bioin \o (IF recved_ THEN << >> ELSE << >>) /\ units = bioin
    <3>1. bioin \o << >> = bioin
      BY <1>1
    <3> QED
      BY <2>2, <3>1
  <2>4. units \o net' = Unread /\ net' \in Seq(Nat)
    BY <1>1, <2>3 DEF Unread
  <2>5. ~HoldsRecord(units)
    <3>1. step = "handshake"
      BY <1>1, <1>4, Awaited DEF OrderInv
    <3> QED
      BY <2>3, <3>1 DEF OrderInv, Arriving
  <2> QED
    BY <1>1, <1>4, <2>1, <2>2, <2>3, <2>4, <2>5, ShakenOrders
<1> QED
  BY <1>2, <1>3, <1>4 DEF SendCompletes

-----------------------------------------------------------------------------
(* The peer.  A unit comes, behind those that are on their way.            *)
LEMMA ArrivingGrows ==
  ASSUME Arriving, SslTypes, SslTypes', UNCHANGED <<side, bioin, step, stack, notify, handled, broken>>,
         NEW w \in Seq(Nat), Ordered(w, NextRecord, came - Ins), ~broken => Whole(w, NextRecord, came - Ins),
         ~closed => \A i \in 1 .. Len(w) : w[i] # Bye,
         NEW x \in Nat, Unread' = Append(w, x), came <= came',
         \/ x = 0 /\ closed' = closed /\ (came' = came \/ came' <= Ins)
         \/ x = Bye /\ ~closed /\ closed' /\ came' = came
         \/ x = came' - Ins /\ came' = came + 1 /\ closed' = closed /\ ~closed /\ ~broken /\ NextRecord <= came' - Ins
  PROVE  Arriving'
<1>1. /\ came - Ins \in Int /\ came - Ins <= MaxRecords /\ Ins \in Nat /\ came \in Nat /\ came' \in Nat
      /\ NextRecord \in Nat /\ NextRecord >= 1
  BY UnitsAreNumbers DEF SslTypes
<1>2. NextRecord' = NextRecord /\ Ins' = Ins /\ Told' = Told
  BY SameFlight DEF NextRecord, Told
<1>3. PICK lo \in Nat, c \in Nat, n \in Nat, c1 \in Nat : lo = NextRecord /\ c = came /\ n = Ins /\ c1 = came' /\ lo >= 1
  BY <1>1
<1>4. PICK hi \in Int, up \in Int : hi = came - Ins /\ up = came' - Ins /\ hi = c - n /\ up = c1 - n
  <2>1. came - Ins = c - n /\ came' - Ins = c1 - n
    BY <1>3
  <2>2. c - n \in Int /\ c1 - n \in Int
    OBVIOUS
  <2> QED
    BY <2>1, <2>2
<1>r. lo >= 1 /\ hi = c - n /\ up = c1 - n
  BY <1>3, <1>4
<1>5. c <= c1 /\ hi <= up
  <2>1. c <= c1
    BY <1>3
  <2> QED
    BY <1>r, <2>1
<1>6. up <= MaxRecords
  <2>1. came' <= Ins + MaxRecords
    BY <1>2 DEF SslTypes
  <2>2. PICK m \in Nat : m = MaxRecords
    BY BoundsAssumption
  <2>3. c1 <= n + m
    BY <1>3, <2>1, <2>2
  <2>4. up <= m
    BY <1>r, <2>3
  <2> QED
    BY <2>2, <2>4
<1>7. Ordered(w, lo, hi) /\ (~broken => Whole(w, lo, hi))
  BY <1>3, <1>4
<1>8. \/ x = 0 /\ closed' = closed /\ (up = hi \/ up < lo)
      \/ x = Bye /\ ~closed /\ closed' /\ up = hi
      \/ x = up /\ up = hi + 1 /\ closed' = closed /\ ~closed /\ ~broken /\ lo <= up
  <2>1. c1 = c => up = hi
    BY <1>r
  <2>2. c1 <= n => up < lo
    BY <1>r
  <2>3. c1 = c + 1 => up = hi + 1
    BY <1>r
  <2> QED
    BY <1>3, <1>4, <2>1, <2>2, <2>3
<1>9. Ordered(Append(w, x), lo, up)
  BY <1>3, <1>5, <1>6, <1>7, <1>8, OrderedGrows
<1>10. ~broken => Whole(Append(w, x), lo, up)
  <2>1. \/ up = hi
        \/ up < lo
        \/ up = hi + 1 /\ x = up
    BY <1>8
  <2> QED
    BY <1>7, <2>1, WholeGrows
<1>11. PICK v \in Seq(Nat) : /\ v = Append(w, x) /\ Len(v) = Len(w) + 1 /\ v[Len(w) + 1] = x
                             /\ \A i \in 1 .. Len(w) + 1 : i # Len(w) + 1 => i \in 1 .. Len(w) /\ v[i] = w[i]
  <2>1. /\ Append(w, x) \in Seq(Nat) /\ Len(Append(w, x)) = Len(w) + 1 /\ Append(w, x)[Len(w) + 1] = x
        /\ \A i \in 1 .. Len(w) + 1 : i # Len(w) + 1 => i \in 1 .. Len(w) /\ Append(w, x)[i] = w[i]
    BY Appended
  <2> QED
    BY <2>1
<1>12. ~closed' => \A i \in 1 .. Len(v) : v[i] # Bye
  <2>1. ~closed' => x # Bye
    BY <1>6, <1>8, BoundsAssumption DEF Bye
  <2>2. ~closed' => ~closed
    BY <1>8
  <2> QED
    BY <1>11, <2>1, <2>2
<1>13. Ordered(Unread, NextRecord, came - Ins)' /\ (~broken' => Whole(Unread, NextRecord, came - Ins)')
  <2>1. Unread' = Append(w, x) /\ NextRecord' = lo /\ came' - Ins' = up
    BY <1>2, <1>3, <1>4
  <2>2. Ordered(Unread', NextRecord', came' - Ins')
    BY <1>9, <2>1
  <2>3. ~broken => Whole(Unread', NextRecord', came' - Ins')
    BY <1>10, <2>1
  <2> QED
    BY <2>2, <2>3
<1>14. NextRecord' > 1 => NextRecord' <= came' - Ins' + 1
  <2>1. lo > 1 => lo <= hi + 1
    BY <1>3, <1>4 DEF Arriving
  <2>2. lo > 1 => lo <= up + 1
    BY <1>5, <2>1
  <2> QED
    BY <1>2, <1>3, <1>4, <2>2
<1>15. ~closed' => \A i \in 1 .. Len(Unread') : Unread'[i] # Bye
  BY <1>11, <1>12
<1>16. InOrder' /\ (Told' => notify'.length = Len(handled') + 1)
  BY <1>2 DEF Arriving, InOrder
<1>17. HoldsRecord(bioin') => side' = "client" /\ step' \in {"recv", "gone"}
  BY DEF Arriving
<1> QED
  BY <1>13, <1>14, <1>15, <1>16, <1>17 DEF Arriving, HoldsRecord, IsRecord, Bye

(* What the peer's steps leave alone.                                      *)
LEMMA PeerLeaves ==
  ASSUME UNCHANGED <<side, ctx, session, got>>, Matched, Shaken
  PROVE  Matched' /\ Shaken' /\ UNCHANGED <<side, hs, bioin, bioout, refused, step, stack, notify, handled, got, pending>>
<1>1. UNCHANGED <<side, hs, bioin, bioout, refused, pending, recved_, notify, step, stack, handled, got>>
  BY DEF ctx, tls, session
<1>2. Matched' /\ Shaken'
  BY <1>1, SameFlight DEF Matched, Matches, Shaken, Quiet, NoCall
<1> QED
  BY <1>1, <1>2

LEMMA PeerCounts ==
  ASSUME Counted, UNCHANGED <<side, hs, bioout, refused, step, stack, handled, got, pending>>,
         side = "client" /\ came' > Ins => got > Outs,
         side = "server" /\ came' > Ins => got >= Outs + came' - Ins - 1
  PROVE  Counted'
BY SameCount, QueuedStays DEF Counted, Shaking, Flying, Due

LEMMA PeerShakesOrders ==
  ASSUME SessionInv, SessionInv', OrderInv, PeerShakes
  PROVE  OrderInv'
<1>1. /\ came < Ins /\ came' = came + 1 /\ net' = Append(net, 0) /\ closed' = closed
      /\ UNCHANGED <<side, ctx, session, got, broken>>
  BY DEF PeerShakes, Goes
<1>2. Matched' /\ Shaken' /\ UNCHANGED <<side, hs, bioin, bioout, refused, step, stack, notify, handled, got, pending>>
  BY <1>1, PeerLeaves DEF OrderInv
<1>3. SslTypes /\ SslTypes' /\ came \in Nat
  BY DEF SessionInv, SslTypes
<1>4. bioin \in Seq(Nat) /\ net \in Seq(Nat) /\ Unread \in Seq(Nat) /\ Ins \in Nat
  BY <1>3, UnitsAreNumbers
<1>5. Unread' = Append(Unread, 0)
  BY <1>1, <1>2, <1>4 DEF Unread
<1>6. came' <= Ins /\ came <= came' /\ ~(came' > Ins)
  BY <1>1, <1>3, <1>4
<1>7. Arriving'
  <2>1. PICK w \in Seq(Nat) : w = Unread
    BY <1>4
  <2>2. /\ Ordered(w, NextRecord, came - Ins) /\ (~broken => Whole(w, NextRecord, came - Ins))
        /\ ~closed => \A i \in 1 .. Len(w) : w[i] # Bye
    BY <2>1 DEF OrderInv, Arriving
  <2>3. Unread' = Append(w, 0) /\ 0 \in Nat
    BY <1>5, <2>1
  <2> QED
    BY <1>1, <1>2, <1>3, <1>6, <2>2, <2>3, ArrivingGrows DEF OrderInv
<1>8. Counted'
  BY <1>2, <1>6, PeerCounts DEF OrderInv
<1> QED
  BY <1>2, <1>7, <1>8 DEF OrderInv

LEMMA PeerSendsOrders ==
  ASSUME SessionInv, SessionInv', OrderInv, Orderly, PeerSends
  PROVE  OrderInv'
<1>1. /\ came \in Ins .. Ins + MaxRecords - 1 /\ came' = came + 1 /\ closed' = closed /\ ~closed /\ ~broken
      /\ MaySend(came + 1 - Ins)
      /\ \E part \in {<< >>, <<0>>} : net' = net \o part \o <<came + 1 - Ins>>
      /\ UNCHANGED <<side, ctx, session, got, broken>>
  BY DEF PeerSends, Goes
<1>2. Matched' /\ Shaken' /\ UNCHANGED <<side, hs, bioin, bioout, refused, step, stack, notify, handled, got, pending>>
  BY <1>1, PeerLeaves DEF OrderInv
<1>3. SslTypes /\ SslTypes' /\ came \in Nat /\ side \in Sides /\ got \in Nat
  BY DEF SessionInv, SslTypes
<1>4. /\ bioin \in Seq(Nat) /\ net \in Seq(Nat) /\ Unread \in Seq(Nat) /\ Ins \in Nat /\ Outs \in Nat
      /\ NextRecord \in Nat /\ NextRecord >= 1 /\ came - Ins \in Int /\ came - Ins <= MaxRecords
  BY <1>3, UnitsAreNumbers
<1>5. PICK r \in Nat : r = came + 1 - Ins /\ r >= 1 /\ r = (came + 1) - Ins
  BY <1>1, <1>3, <1>4
<1>6. PICK u \in Seq(Nat), lo \in Nat, hi \in Int : u = Unread /\ lo = NextRecord /\ hi = came - Ins /\ lo >= 1 /\ hi <= MaxRecords
  BY <1>4
<1>7. /\ Ordered(u, lo, hi) /\ Whole(u, lo, hi) /\ \A i \in 1 .. Len(u) : u[i] # Bye
  BY <1>1, <1>6 DEF OrderInv, Arriving
<1>8. PICK w \in Seq(Nat) : /\ Unread' = Append(w, r)
                            /\ Ordered(w, lo, hi) /\ Whole(w, lo, hi) /\ \A i \in 1 .. Len(w) : w[i] # Bye
  <2>1. CASE net' = net \o << >> \o <<r>>
    <3>1. Unread' = Append(u, r)
      <4>1. bioin \o (net \o << >> \o <<r>>) = Append(bioin \o net, r)
        <5>1. net \o << >> = net
          BY <1>4
        <5>2. bioin \o (net \o <<r>>) = Append(bioin \o net, r)
          BY <1>4, AddedBehind
        <5> QED
          BY <5>1, <5>2
      <4> QED
        BY <1>2, <1>6, <2>1, <4>1 DEF Unread
    <3> QED
      BY <1>7, <3>1
  <2>2. CASE net' = net \o <<0>> \o <<r>>
    <3>1. PICK w \in Seq(Nat) : w = Append(u, 0)
      BY Appended
    <3>2. Unread' = Append(w, r)
      <4>1. bioin \o (net \o <<0>> \o <<r>>) = Append(Append(bioin \o net, 0), r)
        <5>1. net \o <<0>> = Append(net, 0) /\ Append(net, 0) \in Seq(Nat)
          BY <1>4
        <5>2. PICK m \in Seq(Nat) : m = Append(net, 0)
          BY <5>1
        <5>3. m \o <<r>> = Append(m, r) /\ bioin \o Append(m, r) = Append(bioin \o m, r)
          BY <1>4
        <5>4. bioin \o Append(net, 0) = Append(bioin \o net, 0)
          BY <1>4, NoRecordBehind
        <5> QED
          BY <5>1, <5>2, <5>3, <5>4
      <4> QED
        BY <1>2, <1>6, <2>2, <3>1, <4>1 DEF Unread
    <3>3. Ordered(w, lo, hi) /\ Whole(w, lo, hi)
      <4>1. PICK x \in Nat : x = 0 /\ hi <= hi
        OBVIOUS
      <4>2. Ordered(Append(u, x), lo, hi)
        BY <1>6, <1>7, <4>1, OrderedGrows
      <4>3. Whole(Append(u, x), lo, hi)
        BY <1>7, WholeGrows
      <4> QED
        BY <3>1, <4>1, <4>2, <4>3
    <3>4. \A i \in 1 .. Len(w) : w[i] # Bye
      <4>1. /\ Len(w) = Len(u) + 1 /\ w[Len(u) + 1] = 0
            /\ \A i \in 1 .. Len(u) + 1 : i # Len(u) + 1 => i \in 1 .. Len(u) /\ w[i] = u[i]
        BY <3>1, Appended
      <4>2. 0 # Bye
        BY BoundsAssumption DEF Bye
      <4> QED
        BY <1>7, <4>1, <4>2
    <3> QED
      BY <3>2, <3>3, <3>4
  <2> QED
    BY <1>1, <1>5, <2>1, <2>2
<1>9. NextRecord <= came' - Ins /\ r = came' - Ins /\ came <= came'
  <2>1. lo > 1 => lo <= hi + 1
    BY <1>6 DEF OrderInv, Arriving
  <2>2. r = hi + 1
    BY <1>3, <1>4, <1>5, <1>6
  <2>3. lo <= r
    BY <1>5, <1>6, <2>1, <2>2
  <2>4. came' - Ins = r /\ came <= came'
    BY <1>1, <1>3, <1>4, <1>5
  <2> QED
    BY <1>6, <2>3, <2>4
<1>10. Arriving'
  <2>1. Ordered(w, NextRecord, came - Ins) /\ Whole(w, NextRecord, came - Ins)
    BY <1>6, <1>8
  <2> QED
    BY <1>1, <1>2, <1>3, <1>8, <1>9, <2>1, ArrivingGrows DEF OrderInv
<1>11. Counted'
  <2>1. side = "client" => got > Outs
    BY <1>1 DEF MaySend
  <2>2. side = "server" => got >= Outs + came' - Ins - 1
    <3> SUFFICES ASSUME side = "server"
                 PROVE  got >= Outs + came' - Ins - 1
      OBVIOUS
    <3>1. PeerWaits
      BY <1>3 DEF Orderly
    <3>2. got >= Outs + r - 1
      BY <1>1, <1>5, <3>1 DEF MaySend
    <3> QED
      BY <1>1, <1>3, <1>4, <1>5, <3>2
  <2> QED
    BY <1>2, <2>1, <2>2, PeerCounts DEF OrderInv
<1> QED
  BY <1>2, <1>10, <1>11 DEF OrderInv

LEMMA PeerClosesOrders ==
  ASSUME SessionInv, SessionInv', OrderInv, PeerCloses
  PROVE  OrderInv'
<1>1. /\ ~closed /\ closed' /\ came' = came
      /\ net' = net \o << >> \/ net' = net \o <<Bye>>
      /\ UNCHANGED <<side, ctx, session, got, broken>>
  BY DEF PeerCloses, Goes
<1>2. Matched' /\ Shaken' /\ UNCHANGED <<side, hs, bioin, bioout, refused, step, stack, notify, handled, got, pending>>
  BY <1>1, PeerLeaves DEF OrderInv
<1>3. SslTypes /\ SslTypes' /\ came \in Nat /\ Bye \in Nat
  BY BoundsAssumption DEF SessionInv, SslTypes, Bye
<1>4. bioin \in Seq(Nat) /\ net \in Seq(Nat) /\ Unread \in Seq(Nat) /\ Ins' = Ins
  BY <1>1, <1>3, UnitsAreNumbers, SameFlight
<1>5. Counted'
  <2>1. /\ side = "client" /\ came' > Ins => got > Outs
        /\ side = "server" /\ came' > Ins => got >= Outs + came' - Ins - 1
    BY <1>1 DEF OrderInv, Counted
  <2> QED
    BY <1>2, <2>1, PeerCounts DEF OrderInv
<1>6. CASE net' = net \o <<Bye>>
  <2>1. PICK w \in Seq(Nat) : w = Unread
    BY <1>4
  <2>2. /\ Ordered(w, NextRecord, came - Ins) /\ (~broken => Whole(w, NextRecord, came - Ins))
        /\ ~closed => \A i \in 1 .. Len(w) : w[i] # Bye
    BY <2>1 DEF OrderInv, Arriving
  <2>3. Unread' = Append(w, Bye)
    <3>1. PICK x \in Nat : x = Bye
      BY <1>3
    <3>2. bioin \o (net \o <<x>>) = Append(bioin \o net, x)
      BY <1>4, AddedBehind
    <3> QED
      BY <1>2, <1>6, <2>1, <3>1, <3>2 DEF Unread
  <2>4. came <= came'
    BY <1>1, <1>3
  <2>5. Arriving'
    BY <1>1, <1>2, <1>3, <2>2, <2>3, <2>4, ArrivingGrows DEF OrderInv
  <2> QED
    BY <1>2, <1>5, <2>5 DEF OrderInv
<1>7. CASE net' = net \o << >>
  <2>1. Unread' = Unread /\ NextRecord' = NextRecord /\ Told' = Told
    BY <1>2, <1>4, <1>7 DEF Unread, NextRecord, Told
  <2>2. Ordered(Unread, NextRecord, came - Ins)' /\ (~broken' => Whole(Unread, NextRecord, came - Ins)')
    BY <1>1, <1>4, <2>1 DEF OrderInv, Arriving, Ordered, Whole, IsRecord, Bye
  <2>3. Arriving'
    BY <1>1, <1>2, <1>4, <2>1, <2>2 DEF OrderInv, Arriving, InOrder, HoldsRecord, IsRecord, Bye
  <2> QED
    BY <1>2, <1>5, <2>3 DEF OrderInv
<1> QED
  BY <1>1, <1>6, <1>7

LEMMA BreaksOrders ==
  ASSUME SessionInv, SessionInv', OrderInv, Breaks
  PROVE  OrderInv'
<1>1. /\ broken' /\ net' = << >> /\ UNCHANGED <<side, ctx, session, came, got, closed>>
  BY DEF Breaks
<1>2. Matched' /\ Shaken' /\ UNCHANGED <<side, hs, bioin, bioout, refused, step, stack, notify, handled, got, pending>>
  BY <1>1, PeerLeaves DEF OrderInv
<1>3. SslTypes /\ came \in Nat
  BY DEF SessionInv, SslTypes
<1>4. /\ bioin \in Seq(Nat) /\ net \in Seq(Nat) /\ Unread \in Seq(Nat) /\ Ins' = Ins
      /\ NextRecord \in Nat /\ NextRecord >= 1 /\ came - Ins \in Int
  BY <1>1, <1>3, UnitsAreNumbers, SameFlight
<1>5. Counted'
  BY <1>1, <1>2, PeerCounts DEF OrderInv, Counted
<1>6. Unread' = bioin /\ NextRecord' = NextRecord /\ Told' = Told
  BY <1>1, <1>2, <1>4 DEF Unread, NextRecord, Told
<1>7. PICK a \in Seq(Nat), b \in Seq(Nat), lo \in Nat, hi \in Int :
        a = bioin /\ b = net /\ a \o b = Unread /\ lo = NextRecord /\ hi = came - Ins /\ lo >= 1
  BY <1>4 DEF Unread
<1>8. Ordered(a, lo, hi)
  <2>1. Ordered(a \o b, lo, hi)
    BY <1>7 DEF OrderInv, Arriving
  <2> QED
    BY <1>7, <2>1, OrderedStays
<1>9. Ordered(Unread, NextRecord, came - Ins)'
  <2>1. Ordered(Unread', NextRecord', came' - Ins')
    BY <1>1, <1>4, <1>6, <1>7, <1>8
  <2> QED
    BY <2>1
<1>10. ~closed' => \A i \in 1 .. Len(Unread') : Unread'[i] # Bye
  <2>1. /\ \A i \in 1 .. Len(a) : i \in 1 .. Len(a \o b) /\ (a \o b)[i] = a[i]
    OBVIOUS
  <2>2. ~closed => \A i \in 1 .. Len(a \o b) : (a \o b)[i] # Bye
    BY <1>7 DEF OrderInv, Arriving
  <2> QED
    BY <1>1, <1>6, <1>7, <2>1, <2>2
<1>11. Arriving'
  BY <1>1, <1>2, <1>4, <1>6, <1>9, <1>10 DEF OrderInv, Arriving, InOrder, HoldsRecord, IsRecord, Bye
<1> QED
  BY <1>2, <1>5, <1>11 DEF OrderInv

-----------------------------------------------------------------------------
LEMMA OrderBegins ==
  ASSUME Init
  PROVE  OrderInv
<1>1. SslTypes
  BY SessionBegins DEF SessionInv
<1>2. FirstOp \in {"connect", "handshake"} /\ At("call", FirstOp) \in Acts
  BY DEF FirstOp, At, Acts, Calling
<1>3. /\ stack # << >> /\ Len(stack) = 1 /\ stack[1] = At("call", FirstOp)
      /\ stack[1].at = "call" /\ stack[1].op = FirstOp
  BY <1>2 DEF Init, At
<1>4. /\ pending["recv"] = "none" /\ pending["send"] = "none" /\ step = "enter"
      /\ handled = << >> /\ bioin = << >> /\ net = << >> /\ Queued = 0 /\ ~refused /\ got = 0 /\ came = 0
  BY DEF Init, Queued
<1>5. Matched
  BY <1>2, <1>3, <1>4 DEF Matched, Early
<1>6. Shaken
  BY <1>2, <1>3, <1>4 DEF Shaken, At
<1>7. Ins \in Nat /\ Outs \in Nat /\ Count(hs, "out") \in Nat
  BY <1>1, CountTyped
<1>8. Counted
  <2>1. Shaking = 0 /\ Flying = 0 /\ Due = 0 /\ Len(handled) = 0
    BY <1>2, <1>3, <1>4 DEF Shaking, Flying, Due, At
  <2>2. ~(came > Ins)
    BY <1>4, <1>7
  <2> QED
    BY <1>4, <1>7, <2>1, <2>2 DEF Counted
<1>9. Arriving
  <2>1. ~Told /\ Len(handled) = 0 /\ NextRecord = 1
    BY <1>3, <1>4 DEF Told, At, NextRecord
  <2>2. Unread = << >> /\ Len(Unread) = 0
    <3>1. << >> \o << >> = << >>
      OBVIOUS
    <3> QED
      BY <1>4, <3>1 DEF Unread
  <2>3. Ordered(Unread, NextRecord, came - Ins)
    BY <2>2 DEF Ordered
  <2>4. Whole(Unread, NextRecord, came - Ins)
    <3>1. came - Ins <= 0
      BY <1>4, <1>7
    <3> QED
      BY <1>4, <1>7, <2>1, <3>1 DEF Whole
  <2>5. ~HoldsRecord(bioin) /\ InOrder
    BY <1>4 DEF HoldsRecord, InOrder
  <2> QED
    BY <2>1, <2>2, <2>3, <2>4, <2>5 DEF Arriving
<1> QED
  BY <1>5, <1>6, <1>8, <1>9 DEF OrderInv

LEMMA OrderKeeps ==
  ASSUME Orderly, SessionInv, OrderInv, [Next]_vars
  PROVE  SessionInv' /\ OrderInv'
<1>1. FailsAtOnce \subseteq {"server"}
  BY DEF Orderly
<1>2. \A op \in {"recv", "send"} : CallFails(op) => Len(stack) <= 1
  BY <1>1, FailsAlone DEF OrderInv
<1>3. SessionInv'
  BY <1>2, SessionKeeps
<1>4. CASE Runs
  <2>1. \A op \in {"connect", "handshake", "recv", "send"} : op \in Calling
    BY DEF Calling
  <2>2. ASSUME NEW op \in {"recv", "send"}, CallFails(op)
        PROVE  OrderInv'
    BY <1>1, <1>3, <2>2, FailureOrders
  <2>3. ASSUME NEW op \in {"connect", "handshake", "recv", "send"}, Yield(op) \/ GoOn(op)
        PROVE  OrderInv'
    BY <1>3, <2>1, <2>3, YieldOrders, GoOnOrders
  <2> QED
    BY <1>3, <1>4, <2>2, <2>3, ConnectOrders, HandshakeOrders, RecvOrders, SendOrders DEF Runs
<1>5. CASE UNCHANGED vars
  <2>1. /\ UNCHANGED <<side, ctx, session, got>>
        /\ UNCHANGED <<side, bioin, net, came, closed, broken>>
        /\ UNCHANGED <<stack, step, notify, handled>>
    BY <1>5 DEF vars, ctx, tls, session, peer
  <2>2. Matched' /\ Shaken' /\ UNCHANGED <<side, hs, bioin, bioout, refused, step, stack, notify, handled, got, pending>>
    BY <2>1, PeerLeaves DEF OrderInv
  <2>3. Counted'
    BY <2>1, <2>2, SameFlight, PeerCounts DEF OrderInv, Counted
  <2>4. NextRecord' = NextRecord /\ InOrder' /\ (Told' => notify'.length = Len(handled') + 1)
    BY <2>1 DEF NextRecord, Told, InOrder, OrderInv, Arriving
  <2>5. Arriving'
    BY <2>1, <2>4, ArrivingStays DEF OrderInv
  <2> QED
    BY <1>3, <2>2, <2>3, <2>5 DEF OrderInv
<1>6. CASE RecvCompletes
  BY <1>3, <1>6, ReceivedOrders
<1>7. CASE SendCompletes
  BY <1>3, <1>7, SentOrders
<1>8. CASE PeerShakes \/ PeerSends \/ PeerCloses \/ Breaks
  BY <1>3, <1>8, PeerShakesOrders, PeerSendsOrders, PeerClosesOrders, BreaksOrders
<1>9. \/ Runs \/ RecvCompletes \/ SendCompletes
      \/ PeerShakes \/ PeerSends \/ PeerCloses \/ Breaks
      \/ UNCHANGED vars
  BY DEF Next
<1> QED
  BY <1>4, <1>5, <1>6, <1>7, <1>8, <1>9

(* The records are handled once each and in the order they were sent: by   *)
(* every client whose calls pend, however its activations are nested, and  *)
(* by every server whose peer waits for its answers, whether its own calls *)
(* pend or fail at once.                                                   *)
THEOREM HandlesInOrder ==
  ASSUME Orderly
  PROVE  Spec => []InOrder
<1>1. Init => SessionInv /\ OrderInv
  BY SessionBegins, OrderBegins
<1>2. SessionInv /\ OrderInv /\ [Next]_vars => (SessionInv /\ OrderInv)'
  BY OrderKeeps
<1>3. SessionInv /\ OrderInv => InOrder
  BY DEF OrderInv, Arriving
<1> QED
  BY <1>1, <1>2, <1>3, PTL DEF Spec

(* Of the same programs: between two callbacks a session waits for one io  *)
(* call, or for none when its handshake has failed, and when it is gone    *)
(* nothing is pending and nothing runs on, also where the calls of a       *)
(* server fail at once.  Clients whose calls fail at once are not Orderly: *)
(* the failure is told inside of ssl_async_handshake and the context in    *)
(* use is freed.                                                           *)
THEOREM WaitsForOneCallOrFails ==
  ASSUME Orderly
  PROVE  Spec => []HeldByOneCall
<1>1. Init => SessionInv /\ OrderInv
  BY SessionBegins, OrderBegins
<1>2. SessionInv /\ OrderInv /\ [Next]_vars => (SessionInv /\ OrderInv)'
  BY OrderKeeps
<1>3. SessionInv /\ OrderInv => HeldByOneCall
  BY OneIsHeld
<1> QED
  BY <1>1, <1>2, <1>3, PTL DEF Spec

=============================================================================
