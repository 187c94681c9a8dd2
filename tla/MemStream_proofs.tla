-------------------------- MODULE MemStream_proofs --------------------------
(***************************************************************************)
(* Proofs about MemStream: the positions stay in the memory whatever the   *)
(* client does, and until a full stream accepts a write the ring is a      *)
(* first-in first-out queue of Size bytes.                                 *)
(***************************************************************************)
EXTENDS MemStream, SequenceTheorems, TLAPS

(* A chunk is a non-empty sequence of bytes.                               *)
LEMMA ChunkIsSequence ==
  ASSUME NEW buf \in Chunks
  PROVE  /\ buf \in Seq(Bytes)
         /\ Len(buf) \in Nat \ {0}
         /\ buf \in [1 .. Len(buf) -> Bytes]
<1>1. PICK n \in 1 .. MaxChunk : buf \in [1 .. n -> Bytes]
  BY DEF Chunks
<1>2. n \in Nat \ {0}
  BY ChunkAssumption
<1>3. buf \in Seq(Bytes) /\ Len(buf) = n
  BY <1>1, <1>2
<1> QED
  BY <1>1, <1>2, <1>3

-----------------------------------------------------------------------------
(* Type correctness, of any client.                                        *)

LEMMA WriteStaysInside ==
  ASSUME TypeOK, NEW n \in Nat \ {0}, n <= FreeLeft + FreeRight
  PROVE  AfterWrite(n) \in 0 .. Size
BY SizeAssumption DEF TypeOK, FreeLeft, FreeRight, AfterWrite

LEMMA ReadStaysInside ==
  ASSUME TypeOK, NEW n \in Nat
  PROVE  AfterRead(n) \in 0 .. Size
BY SizeAssumption DEF TypeOK, UsedLeft, UsedRight, AfterRead, CopiedLeft, Least

LEMMA StoredIsMemory ==
  ASSUME TypeOK, NEW buf \in Chunks
  PROVE  Stored(buf) \in [0 .. Size - 1 -> Bytes]
<1>1. buf \in [1 .. Len(buf) -> Bytes]
  BY ChunkIsSequence
<1>2. ASSUME NEW i \in 0 .. Size - 1
      PROVE  (IF \E k \in 1 .. Len(buf) : WriteSlot(k) = i
                THEN buf[CHOOSE k \in 1 .. Len(buf) : WriteSlot(k) = i]
                ELSE mem[i]) \in Bytes
  <2>1. CASE \E k \in 1 .. Len(buf) : WriteSlot(k) = i
    <3>1. (CHOOSE k \in 1 .. Len(buf) : WriteSlot(k) = i) \in 1 .. Len(buf)
      BY <2>1
    <3> QED
      BY <1>1, <2>1, <3>1
  <2>2. CASE ~ \E k \in 1 .. Len(buf) : WriteSlot(k) = i
    BY <2>2 DEF TypeOK
  <2> QED
    BY <2>1, <2>2
<1> QED
  BY <1>2 DEF Stored

LEMMA TypeOKInductive ==
  ASSUME TypeOK, [Next]_vars
  PROVE  TypeOK'
<1>1. CASE UNCHANGED vars
  BY <1>1 DEF TypeOK, vars
<1>2. ASSUME NEW buf \in Chunks, WriteRejected(buf)
      PROVE  TypeOK'
  BY <1>2 DEF WriteRejected, TypeOK
<1>3. ASSUME NEW buf \in Chunks, WriteAccepted(buf)
      PROVE  TypeOK'
  <2>1. Len(buf) \in Nat \ {0} /\ buf \in [1 .. Len(buf) -> Bytes]
    BY ChunkIsSequence
  <2>2. mem' \in [0 .. Size - 1 -> Bytes]
    BY <1>3, <2>1, StoredIsMemory DEF WriteAccepted
  <2>3. poswrite' \in 0 .. Size
    BY <1>3, <2>1, WriteStaysInside DEF WriteAccepted
  <2>4. datalen' \in Nat /\ ret' \in Nat /\ posread' = posread
    BY <1>3, <2>1 DEF WriteAccepted, TypeOK
  <2>5. overfilled' \in BOOLEAN
    BY <1>3 DEF WriteAccepted, TypeOK
  <2> QED
    BY <2>2, <2>3, <2>4, <2>5 DEF TypeOK
<1>4. CASE ReadNothing
  BY <1>4 DEF ReadNothing, TypeOK
<1>5. ASSUME NEW n \in 1 .. MaxChunk, ReadSome(n)
      PROVE  TypeOK'
  <2>1. Least(n, datalen) \in Nat /\ Least(n, datalen) <= datalen
    BY ChunkAssumption DEF Least, TypeOK
  <2>2. posread' \in 0 .. Size
    BY <1>5, <2>1, ReadStaysInside DEF ReadSome
  <2>3. /\ datalen' \in Nat /\ ret' \in Nat /\ mem' = mem /\ poswrite' = poswrite
        /\ overfilled' = overfilled
    BY <1>5, <2>1 DEF ReadSome, TypeOK
  <2> QED
    BY <2>2, <2>3 DEF TypeOK
<1> QED
  BY <1>1, <1>2, <1>3, <1>4, <1>5
     DEF Next, memory_stream_write, memory_stream_read

(* No call of any client moves a position out of the memory: memcpy gets   *)
(* only addresses from mem to memend (memstream.c lines 78-104, 108-137).  *)
THEOREM PositionsStayInside == Spec => []TypeOK
<1>1. Init => TypeOK
  <2>1. Init => overfilled \in BOOLEAN
    BY DEF Init
  <2> QED
    BY <2>1, SizeAssumption DEF Init, TypeOK
<1> QED
  BY <1>1, TypeOKInductive, PTL DEF Spec

-----------------------------------------------------------------------------
(* The count and the positions, until a full stream accepts a write.       *)

RInv == TypeOK /\ Spans

(* While the stream is not full, the free bytes are what the count leaves. *)
LEMMA FreeIsRest ==
  ASSUME RInv, datalen < Size
  PROVE  FreeLeft + FreeRight = Size - datalen
BY SizeAssumption DEF RInv, TypeOK, Spans, FreeLeft, FreeRight

LEMMA UsedIsCount ==
  ASSUME RInv, datalen # 0
  PROVE  UsedLeft + UsedRight = datalen
BY SizeAssumption DEF RInv, TypeOK, Spans, UsedLeft, UsedRight

(* What a step overfills stays so, and only an accepted write overfills.   *)
LEMMA OverfilledStays ==
  ASSUME TypeOK, [Next]_vars, ~overfilled'
  PROVE  ~overfilled /\ (\A buf \in Chunks : WriteAccepted(buf) => datalen < Size)
<1>1. ~overfilled
  BY DEF Next, vars, memory_stream_write, memory_stream_read, WriteRejected, WriteAccepted, ReadNothing, ReadSome
<1>2. ASSUME NEW buf \in Chunks, WriteAccepted(buf)
      PROVE  datalen < Size
  <2>1. ~ (datalen >= Size) /\ datalen \in Nat
    BY <1>2 DEF WriteAccepted, TypeOK
  <2> QED
    BY <2>1, SizeAssumption
<1> QED
  BY <1>1, <1>2

LEMMA SpansInductive ==
  ASSUME RInv, [Next]_vars, ~overfilled'
  PROVE  Spans'
<1>1. CASE UNCHANGED vars
  BY <1>1 DEF RInv, Spans, vars
<1>2. ASSUME NEW buf \in Chunks, memory_stream_write(buf), WriteRejected(buf)
      PROVE  Spans'
  BY <1>2 DEF WriteRejected, RInv, Spans
<1>3. ASSUME NEW buf \in Chunks, memory_stream_write(buf), WriteAccepted(buf)
      PROVE  Spans'
  <2> DEFINE n == Len(buf)
  <2>1. n \in Nat \ {0}
    BY ChunkIsSequence
  <2>2. datalen < Size
    BY <1>3, OverfilledStays DEF RInv
  <2>3. n <= Size - datalen
    BY <1>3, <2>2, FreeIsRest DEF WriteAccepted
  <2>4. poswrite' = AfterWrite(n) /\ datalen' = datalen + n /\ posread' = posread
    BY <1>3 DEF WriteAccepted
  <2> HIDE DEF n
  <2> QED
    BY <2>1, <2>2, <2>3, <2>4, SizeAssumption
       DEF RInv, TypeOK, Spans, AfterWrite, FreeRight
<1>4. CASE ReadNothing
  BY <1>4 DEF ReadNothing, RInv, Spans
<1>5. ASSUME NEW n \in 1 .. MaxChunk, ReadSome(n)
      PROVE  Spans'
  <2> DEFINE r == Least(n, datalen)
  <2>1. r \in Nat /\ r <= datalen
    BY ChunkAssumption DEF Least, RInv, TypeOK
  <2>2. posread' = AfterRead(r) /\ datalen' = datalen - r /\ poswrite' = poswrite
        /\ datalen # 0
    BY <1>5 DEF ReadSome
  <2> HIDE DEF r
  <2> QED
    BY <2>1, <2>2, SizeAssumption
       DEF RInv, TypeOK, Spans, AfterRead, UsedRight, UsedLeft, CopiedLeft, Least
<1> QED
  BY <1>1, <1>2, <1>3, <1>4, <1>5
     DEF Next, memory_stream_write, memory_stream_read

LEMMA SpannedHolds == Spec => [](TypeOK /\ Spanned)
<1>1. Init => TypeOK /\ Spanned
  <2>1. Init => overfilled \in BOOLEAN
    BY DEF Init
  <2> QED
    BY <2>1, SizeAssumption DEF Init, TypeOK, Spanned, Spans
<1>2. ASSUME TypeOK, Spanned, [Next]_vars
      PROVE  TypeOK' /\ Spanned'
  <2>1. ASSUME ~overfilled'
        PROVE  Spans'
    <3>1. RInv
      BY <1>2, <2>1, OverfilledStays DEF RInv, Spanned
    <3> QED
      BY <1>2, <2>1, <3>1, SpansInductive
  <2> QED
    BY <1>2, <2>1, TypeOKInductive DEF Spanned
<1> QED
  BY <1>1, <1>2, PTL DEF Spec

(* The count is the distance of the positions around the ring              *)
(* (memstream.c lines 102 and 135), of any client, until a write has been  *)
(* accepted by a full stream.                                              *)
THEOREM CountSpansPositions == Spec => []Spanned
BY SpannedHolds, PTL

-----------------------------------------------------------------------------
(* The ring as a queue.                                                    *)

(* The k-th byte of a buffer goes to the place behind those in the stream. *)
LEMMA SlotIsPlace ==
  ASSUME RInv, datalen < Size, NEW k \in Nat \ {0}, k <= Size - datalen
  PROVE  WriteSlot(k) = Place(datalen + k)
BY SizeAssumption DEF RInv, TypeOK, Spans, WriteSlot, FreeRight, Place

(* Two bytes of the ring have two places.                                  *)
LEMMA PlacesDiffer ==
  ASSUME TypeOK, NEW i \in 1 .. Size, NEW j \in 1 .. Size, Place(i) = Place(j)
  PROVE  i = j
BY SizeAssumption DEF TypeOK, Place

LEMMA PlaceInMemory ==
  ASSUME TypeOK, NEW i \in 1 .. Size
  PROVE  Place(i) \in 0 .. Size - 1
BY SizeAssumption DEF TypeOK, Place

LEMMA ContentsIsSequence ==
  ASSUME RInv
  PROVE  Contents \in Seq(Bytes) /\ Len(Contents) = datalen
<1>1. datalen \in Nat /\ datalen <= Size
  BY DEF RInv, TypeOK, Spans
<1>2. ASSUME NEW k \in 1 .. datalen
      PROVE  mem[Place(k)] \in Bytes
  <2>1. k \in 1 .. Size
    BY <1>1, SizeAssumption
  <2>2. Place(k) \in 0 .. Size - 1
    BY <2>1, PlaceInMemory DEF RInv
  <2> QED
    BY <2>2 DEF RInv, TypeOK
<1> QED
  BY <1>1, <1>2 DEF Contents

(* What a write stores, place by place.                                    *)
LEMMA StoredNew ==
  ASSUME RInv, datalen < Size, NEW buf \in Chunks, Len(buf) <= Size - datalen,
         NEW k \in 1 .. Len(buf)
  PROVE  Stored(buf)[Place(datalen + k)] = buf[k]
<1> DEFINE i == Place(datalen + k)
<1>1. Len(buf) \in Nat \ {0}
  BY ChunkIsSequence
<1>2. \A j \in 1 .. Len(buf) : WriteSlot(j) = Place(datalen + j)
  <2>1. datalen \in Nat
    BY DEF RInv, TypeOK
  <2>2. \A j \in 1 .. Len(buf) : j \in Nat \ {0} /\ j <= Size - datalen
    BY <1>1, <2>1, SizeAssumption
  <2> QED
    BY <2>2, SlotIsPlace
<1>3. \A j \in 1 .. Len(buf) : datalen + j \in 1 .. Size
  BY <1>1, SizeAssumption DEF RInv, TypeOK
<1>4. i \in 0 .. Size - 1
  BY <1>3, PlaceInMemory DEF RInv
<1>5. \A j \in 1 .. Len(buf) : WriteSlot(j) = i => j = k
  <2> SUFFICES ASSUME NEW j \in 1 .. Len(buf), WriteSlot(j) = i
               PROVE  j = k
    OBVIOUS
  <2>1. Place(datalen + j) = Place(datalen + k)
    BY <1>2
  <2>2. datalen + j = datalen + k
    BY <1>3, <2>1, PlacesDiffer DEF RInv
  <2> QED
    BY <1>1, <2>2 DEF RInv, TypeOK
<1>6. WriteSlot(k) = i
  BY <1>2
<1>7. (CHOOSE j \in 1 .. Len(buf) : WriteSlot(j) = i) = k
  BY <1>5, <1>6
<1> HIDE DEF i
<1>8. Stored(buf)[i] = buf[k]
  BY <1>4, <1>6, <1>7 DEF Stored
<1> QED
  BY <1>8 DEF i

LEMMA StoredOld ==
  ASSUME RInv, datalen < Size, NEW buf \in Chunks, Len(buf) <= Size - datalen,
         NEW k \in 1 .. datalen
  PROVE  Stored(buf)[Place(k)] = mem[Place(k)]
<1> DEFINE i == Place(k)
<1>1. Len(buf) \in Nat \ {0}
  BY ChunkIsSequence
<1>2. \A j \in 1 .. Len(buf) : WriteSlot(j) = Place(datalen + j)
  <2>1. datalen \in Nat
    BY DEF RInv, TypeOK
  <2>2. \A j \in 1 .. Len(buf) : j \in Nat \ {0} /\ j <= Size - datalen
    BY <1>1, <2>1, SizeAssumption
  <2> QED
    BY <2>2, SlotIsPlace
<1>3. /\ \A j \in 1 .. Len(buf) : datalen + j \in 1 .. Size /\ datalen + j # k
      /\ k \in 1 .. Size
  BY <1>1, SizeAssumption DEF RInv, TypeOK
<1>4. i \in 0 .. Size - 1
  BY <1>3, PlaceInMemory DEF RInv
<1>5. ~ \E j \in 1 .. Len(buf) : WriteSlot(j) = i
  BY <1>2, <1>3, PlacesDiffer DEF RInv
<1> HIDE DEF i
<1>6. Stored(buf)[i] = mem[i]
  BY <1>4, <1>5 DEF Stored
<1> QED
  BY <1>6 DEF i

LEMMA Concatenation ==
  ASSUME NEW s \in Seq(Bytes), NEW t \in Seq(Bytes)
  PROVE  s \o t = [k \in 1 .. Len(s) + Len(t) |->
                     IF k <= Len(s) THEN s[k] ELSE t[k - Len(s)]]
<1> DEFINE u == [k \in 1 .. Len(s) + Len(t) |->
                   IF k <= Len(s) THEN s[k] ELSE t[k - Len(s)]]
<1>1. /\ s \o t \in Seq(Bytes)
      /\ Len(s \o t) = Len(s) + Len(t)
      /\ \A i \in 1 .. Len(s) + Len(t) : (s \o t)[i] = u[i]
  BY ConcatProperties
<1>2. u \in Seq(Bytes) /\ Len(u) = Len(s) + Len(t)
  OBVIOUS
<1> HIDE DEF u
<1>3. s \o t = u
  BY <1>1, <1>2, SeqEqual
<1> QED
  BY <1>3 DEF u

(* A write appends the buffer to the contents.                             *)
LEMMA WriteAppends ==
  ASSUME RInv, datalen < Size, NEW buf \in Chunks, WriteAccepted(buf)
  PROVE  /\ Contents' = Contents \o buf
         /\ Len(Contents) + Len(buf) <= Size
<1>1. buf \in Seq(Bytes) /\ Len(buf) \in Nat \ {0}
  BY ChunkIsSequence
<1>2. Len(buf) <= Size - datalen
  BY FreeIsRest DEF WriteAccepted
<1>3. /\ datalen' = datalen + Len(buf)
      /\ posread' = posread
      /\ mem' = Stored(buf)
      /\ datalen \in Nat
  BY DEF WriteAccepted, RInv, TypeOK
<1>4. \A k : Place(k)' = Place(k)
  BY <1>3 DEF Place
<1>5. Contents' = [k \in 1 .. datalen + Len(buf) |-> Stored(buf)[Place(k)]]
  BY <1>3, <1>4 DEF Contents
<1>6. Contents \in Seq(Bytes) /\ Len(Contents) = datalen
  BY <1>3, ContentsIsSequence
<1>7. Contents \o buf =
        [k \in 1 .. datalen + Len(buf) |->
           IF k <= datalen THEN Contents[k] ELSE buf[k - datalen]]
  <2>1. Contents \o buf =
          [k \in 1 .. Len(Contents) + Len(buf) |->
             IF k <= Len(Contents) THEN Contents[k] ELSE buf[k - Len(Contents)]]
    BY <1>1, <1>6, Concatenation
  <2> QED
    BY <2>1, <1>6
<1>8. ASSUME NEW k \in 1 .. datalen + Len(buf)
      PROVE  Stored(buf)[Place(k)] =
               IF k <= datalen THEN Contents[k] ELSE buf[k - datalen]
  <2>1. CASE k <= datalen
    <3>1. k \in 1 .. datalen
      BY <1>1, <1>3, <2>1
    <3>2. Stored(buf)[Place(k)] = mem[Place(k)]
      BY <1>2, <3>1, StoredOld
    <3> QED
      BY <2>1, <3>1, <3>2 DEF Contents
  <2>2. CASE k > datalen
    <3>1. k - datalen \in 1 .. Len(buf) /\ datalen + (k - datalen) = k
      BY <1>1, <1>3, <2>2
    <3>2. Stored(buf)[Place(datalen + (k - datalen))] = buf[k - datalen]
      BY <1>2, <3>1, StoredNew
    <3> QED
      BY <1>1, <1>3, <2>2, <3>1, <3>2
  <2> QED
    BY <1>1, <1>3, <2>1, <2>2
<1>9. Contents' = Contents \o buf
  BY <1>5, <1>7, <1>8
<1> QED
  BY <1>1, <1>2, <1>3, <1>6, <1>9, SizeAssumption

LEMMA Slice ==
  ASSUME NEW s \in Seq(Bytes), NEW m \in 1 .. Len(s) + 1, NEW n \in 0 .. Len(s), m <= n + 1
  PROVE  SubSeq(s, m, n) = [i \in 1 .. n - m + 1 |-> s[m + i - 1]]
<1> DEFINE u == [i \in 1 .. n - m + 1 |-> s[m + i - 1]]
<1>1. \A i \in m .. n : s[i] \in Bytes
  OBVIOUS
<1>2. m \in Int /\ n \in Int /\ n - m + 1 \in Nat
  OBVIOUS
<1>3. /\ SubSeq(s, m, n) \in Seq(Bytes)
      /\ Len(SubSeq(s, m, n)) = n - m + 1
      /\ \A i \in 1 .. n - m + 1 : SubSeq(s, m, n)[i] = u[i]
  BY <1>1, <1>2, SubSeqProperties
<1>4. u \in Seq(Bytes) /\ Len(u) = n - m + 1
  BY <1>2
<1> HIDE DEF u
<1>5. SubSeq(s, m, n) = u
  BY <1>3, <1>4, SeqEqual
<1> QED
  BY <1>5 DEF u

(* A read copies the front of the contents.                                *)
LEMMA CopiedIsFront ==
  ASSUME RInv, datalen # 0, NEW r \in Nat, r <= datalen
  PROVE  Copied(r) = [k \in 1 .. r |-> mem[Place(k)]]
<1>1. CASE r <= UsedRight
  <2>1. \A k \in 1 .. r : Place(k) = posread + k - 1
    BY <1>1, SizeAssumption DEF RInv, TypeOK, Spans, UsedRight, Place
  <2> QED
    BY <1>1, <2>1 DEF Copied
<1>2. CASE ~ (r <= UsedRight)
  <2>1. UsedRight + CopiedLeft(r) = r
    BY <1>2, UsedIsCount, SizeAssumption
       DEF RInv, TypeOK, UsedRight, UsedLeft, CopiedLeft, Least
  <2>2. \A k \in 1 .. r :
           Place(k) = IF k <= UsedRight THEN posread + k - 1 ELSE k - UsedRight - 1
    BY <1>2, SizeAssumption DEF RInv, TypeOK, Spans, UsedRight, Place
  <2>3. Copied(r) = [k \in 1 .. r |-> IF k <= UsedRight THEN mem[posread + k - 1]
                                                        ELSE mem[k - UsedRight - 1]]
    BY <1>2, <2>1 DEF Copied
  <2> QED
    BY <2>2, <2>3
<1> QED
  BY <1>1, <1>2

(* After it the byte behind the r that were copied is the first.           *)
LEMMA ReadMovesPlaces ==
  ASSUME RInv, datalen # 0, NEW r \in Nat, r <= datalen, posread' = AfterRead(r),
         NEW k \in 1 .. datalen - r
  PROVE  Place(k)' = Place(r + k)
BY SizeAssumption
   DEF RInv, TypeOK, Spans, AfterRead, UsedRight, UsedLeft, CopiedLeft, Least, Place

LEMMA ReadTakesFront ==
  ASSUME RInv, NEW n \in 1 .. MaxChunk, ReadSome(n)
  PROVE  /\ got' = SubSeq(Contents, 1, Least(n, datalen))
         /\ Contents' = SubSeq(Contents, Least(n, datalen) + 1, datalen)
<1> DEFINE r == Least(n, datalen)
<1>1. datalen \in Nat \ {0} /\ r \in Nat /\ r <= datalen
  BY ChunkAssumption DEF Least, RInv, TypeOK, ReadSome
<1>2. /\ got' = Copied(r)
      /\ posread' = AfterRead(r)
      /\ datalen' = datalen - r
      /\ mem' = mem
  BY DEF ReadSome
<1> HIDE DEF r
<1>3. Contents \in Seq(Bytes) /\ Len(Contents) = datalen
  BY ContentsIsSequence
<1>4. \A k \in 1 .. datalen : Contents[k] = mem[Place(k)]
  BY DEF Contents
<1>5. SubSeq(Contents, 1, r) = [k \in 1 .. r - 1 + 1 |-> Contents[1 + k - 1]]
  <2>1. 1 \in 1 .. Len(Contents) + 1 /\ r \in 0 .. Len(Contents) /\ 1 <= r + 1
    BY <1>1, <1>3
  <2> QED
    BY <1>3, <2>1, Slice
<1>6. got' = SubSeq(Contents, 1, r)
  <2>1. got' = [k \in 1 .. r |-> mem[Place(k)]]
    BY <1>1, <1>2, CopiedIsFront
  <2>2. r - 1 + 1 = r
    BY <1>1
  <2>3. \A k \in 1 .. r : 1 + k - 1 = k /\ k \in 1 .. datalen
    BY <1>1
  <2> QED
    BY <1>4, <1>5, <2>1, <2>2, <2>3
<1>7. SubSeq(Contents, r + 1, datalen) =
        [k \in 1 .. datalen - (r + 1) + 1 |-> Contents[r + 1 + k - 1]]
  <2>1. r + 1 \in 1 .. Len(Contents) + 1 /\ datalen \in 0 .. Len(Contents)
        /\ r + 1 <= datalen + 1
    BY <1>1, <1>3
  <2> QED
    BY <1>3, <2>1, Slice
<1>8. Contents' = SubSeq(Contents, r + 1, datalen)
  <2>1. \A k \in 1 .. datalen - r : Place(k)' = Place(r + k)
    BY <1>1, <1>2, ReadMovesPlaces
  <2>2. Contents' = [k \in 1 .. datalen - r |-> mem[Place(r + k)]]
    BY <1>2, <2>1 DEF Contents
  <2>3. datalen - (r + 1) + 1 = datalen - r
    BY <1>1
  <2>4. \A k \in 1 .. datalen - r : r + 1 + k - 1 = r + k /\ r + k \in 1 .. datalen
    BY <1>1
  <2> QED
    BY <1>4, <1>7, <2>2, <2>3, <2>4
<1> QED
  BY <1>6, <1>8 DEF r

LEMMA StepIsFifoStep ==
  ASSUME RInv, [Next]_vars, ~overfilled'
  PROVE  [Fifo!QNext]_(Fifo!qvars)
<1>1. Contents \in Seq(Bytes) /\ Len(Contents) = datalen /\ datalen \in Nat
  BY ContentsIsSequence DEF RInv, TypeOK
<1>2. CASE UNCHANGED vars
  <2>1. Contents' = Contents
    BY <1>2 DEF vars, Contents, Place
  <2> QED
    BY <1>2, <2>1 DEF vars, Fifo!qvars
<1>3. ASSUME NEW buf \in Chunks, memory_stream_write(buf)
      PROVE  Fifo!Write(buf)
  <2>1. Len(buf) \in Nat \ {0}
    BY ChunkIsSequence
  <2>3. CASE WriteRejected(buf)
    <3>1. Contents' = Contents /\ ret' = 0 /\ got' = << >>
      BY <2>3 DEF WriteRejected, Contents, Place
    <3>2. ~ (datalen + Len(buf) <= Size)
      <4>1. CASE datalen < Size
        <5>1. FreeLeft + FreeRight = Size - datalen
          BY <4>1, FreeIsRest
        <5> QED
          BY <1>1, <2>1, <2>3, <5>1, SizeAssumption DEF WriteRejected
      <4>2. CASE ~ (datalen < Size)
        BY <1>1, <2>1, <4>2, SizeAssumption
      <4> QED
        BY <4>1, <4>2
    <3> QED
      BY <1>1, <3>1, <3>2 DEF Fifo!Write
  <2>4. CASE WriteAccepted(buf)
    <3>1. Contents' = Contents \o buf /\ Len(Contents) + Len(buf) <= Size
      BY <2>4, OverfilledStays, WriteAppends DEF RInv
    <3>2. ret' = Len(buf) /\ got' = << >>
      BY <2>4 DEF WriteAccepted
    <3> QED
      BY <3>1, <3>2 DEF Fifo!Write
  <2> QED
    BY <1>3, <2>3, <2>4 DEF memory_stream_write
<1>4. ASSUME NEW n \in 1 .. MaxChunk, ReadNothing
      PROVE  Fifo!Read(n)
  <2>1. datalen = 0 /\ Contents' = Contents /\ ret' = 0 /\ got' = << >>
    BY <1>4 DEF ReadNothing, Contents, Place
  <2>2. n \in Nat \ {0} /\ Contents = << >>
    BY <1>1, <2>1, ChunkAssumption
  <2>3. (IF n < Len(Contents) THEN n ELSE Len(Contents)) = 0
    BY <1>1, <2>1, <2>2
  <2>4. SubSeq(Contents, 1, 0) = << >> /\ SubSeq(Contents, 0 + 1, Len(Contents)) = << >>
    BY <1>1, <2>1, SubSeqEmpty
  <2> QED
    BY <2>1, <2>2, <2>3, <2>4 DEF Fifo!Read
<1>5. ASSUME NEW n \in 1 .. MaxChunk, ReadSome(n)
      PROVE  Fifo!Read(n)
  <2>1. Least(n, datalen) = IF n < Len(Contents) THEN n ELSE Len(Contents)
    BY <1>1 DEF Least
  <2>2. ret' = Least(n, datalen)
    BY <1>5 DEF ReadSome
  <2> QED
    BY <1>1, <1>5, <2>1, <2>2, ReadTakesFront DEF Fifo!Read
<1>6. Chunks = Fifo!Chunks
  BY DEF Chunks, Fifo!Chunks
<1> QED
  BY <1>2, <1>3, <1>4, <1>5, <1>6 DEF Next, memory_stream_read, Fifo!QNext

(* Until a full stream accepts a write memstream.c is a queue of Size      *)
(* bytes: every byte is read once and in order, whatever the sizes of the  *)
(* ring and of the buffers.                                                *)
THEOREM StreamIsQueue == Spec => KeepsOrder
<1>1. Init => Fifo!QInit
  <2> SUFFICES ASSUME Init PROVE Fifo!QInit
    OBVIOUS
  <2>1. Contents = << >> /\ got = << >> /\ ret = 0
    BY DEF Init, Contents
  <2> QED
    BY <2>1 DEF Fifo!QInit
<1>2. ASSUME TypeOK, Spanned, [Next]_vars
      PROVE  [~overfilled' => Fifo!QNext]_(Fifo!qvars)
  <2>1. ASSUME ~overfilled'
        PROVE  [Fifo!QNext]_(Fifo!qvars)
    <3>1. RInv
      BY <1>2, <2>1, OverfilledStays DEF RInv, Spanned
    <3> QED
      BY <1>2, <2>1, <3>1, StepIsFifoStep
  <2> QED
    BY <2>1
<1> QED
  BY <1>1, <1>2, SpannedHolds, PTL DEF Spec, KeepsOrder

=============================================================================
