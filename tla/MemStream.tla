------------------------------ MODULE MemStream ------------------------------
(***************************************************************************)
(* The memory stream of src/src/memstream.c: a ring buffer with a read and *)
(* a write position and a count of the bytes in between.  A position may   *)
(* stand on memend, one behind the last byte, and the two positions are    *)
(* equal both when the buffer is empty and when it is full.                *)
(***************************************************************************)
EXTENDS Integers, Sequences

CONSTANTS Size,        \* memend - mem
          Bytes,       \* the values of a byte
          MaxChunk,    \* bound: the longest buffer of a client
          MaxLen       \* bound: the largest datalen that is looked at

ASSUME SizeAssumption == Size \in Nat \ {0}
ASSUME ChunkAssumption == MaxChunk \in Nat \ {0}
ASSUME LenAssumption == MaxLen \in Nat

VARIABLES mem,       \* the bytes from mem to memend
          posread,   \* posread - mem
          poswrite,  \* poswrite - mem
          datalen,   \* datalen
          got,       \* the bytes the last read has copied to its caller
          ret,       \* what the last call has returned
          overfilled \* history: has a full stream accepted a write?

vars == <<mem, posread, poswrite, datalen, got, ret, overfilled>>

Chunks == UNION { [1 .. n -> Bytes] : n \in 1 .. MaxChunk }

(* memory_stream_open. The memory comes from malloc: it may hold anything. *)
Init ==
  /\ mem \in [0 .. Size - 1 -> Bytes]
  /\ posread = 0
  /\ poswrite = 0
  /\ datalen = 0
  /\ got = << >>
  /\ ret = 0
  /\ overfilled = FALSE

-----------------------------------------------------------------------------
(* memory_stream_write, of a buffer that is not empty. *)

FreeRight == IF posread > poswrite THEN posread - poswrite ELSE Size - poswrite
FreeLeft == IF posread > poswrite THEN 0 ELSE posread

(* Where the k-th byte of the buffer goes: to the right of the write       *)
(* position while there is room, then to the beginning of the memory.      *)
WriteSlot(k) == IF k <= FreeRight THEN poswrite + k - 1 ELSE k - FreeRight - 1

Stored(buf) ==
  [i \in 0 .. Size - 1 |->
     IF \E k \in 1 .. Len(buf) : WriteSlot(k) = i
       THEN buf[CHOOSE k \in 1 .. Len(buf) : WriteSlot(k) = i]
       ELSE mem[i]]

\* BUG: after a wrap the write position is one short
AfterWriteShort(n) == IF n <= FreeRight THEN poswrite + n ELSE n - FreeRight - 1
\* BUG: the wrap comes one byte late
AfterWriteLate(n) == IF n <= FreeRight + 1 THEN poswrite + n ELSE n - FreeRight
AfterWrite(n) == IF n <= FreeRight THEN poswrite + n ELSE n - FreeRight

WriteRejected(buf) ==
  /\ Len(buf) > FreeLeft + FreeRight
  /\ ret' = 0
  /\ got' = << >>
  /\ UNCHANGED <<mem, posread, poswrite, datalen, overfilled>>

(* Nothing here looks at datalen: a full stream may accept a write, too.   *)
WriteAccepted(buf) ==
  /\ Len(buf) <= FreeLeft + FreeRight
  /\ mem' = Stored(buf)
  /\ poswrite' = AfterWrite(Len(buf))
  /\ datalen' = datalen + Len(buf)
  /\ ret' = Len(buf)
  /\ got' = << >>
  /\ overfilled' = (overfilled \/ datalen >= Size)
  /\ UNCHANGED posread

memory_stream_write(buf) ==
  /\ datalen + Len(buf) <= MaxLen
  /\ WriteRejected(buf) \/ WriteAccepted(buf)

-----------------------------------------------------------------------------
(* memory_stream_read, of at most n bytes. *)

UsedRight == IF posread >= poswrite THEN Size - posread ELSE poswrite - posread
UsedLeft == IF posread >= poswrite THEN poswrite ELSE 0

Least(a, b) == IF a < b THEN a ELSE b

(* What is copied of the rdlen bytes that are asked for. *)
CopiedLeft(rdlen) == Least(rdlen - UsedRight, UsedLeft)
Copied(rdlen) ==
  IF rdlen <= UsedRight
    THEN [k \in 1 .. rdlen |-> mem[posread + k - 1]]
    ELSE [k \in 1 .. UsedRight + CopiedLeft(rdlen) |->
            IF k <= UsedRight THEN mem[posread + k - 1] ELSE mem[k - UsedRight - 1]]

\* BUG: a read that reaches the end leaves the position at the beginning
AfterReadRestart(rdlen) == IF rdlen < UsedRight THEN posread + rdlen ELSE 0
AfterRead(rdlen) == IF rdlen <= UsedRight THEN posread + rdlen ELSE CopiedLeft(rdlen)

ReadNothing ==
  /\ datalen = 0
  /\ got' = << >>
  /\ ret' = 0
  /\ UNCHANGED <<mem, posread, poswrite, datalen, overfilled>>

ReadSome(n) ==
  LET rdlen == Least(n, datalen)
  IN  /\ datalen # 0
      /\ got' = Copied(rdlen)
      /\ posread' = AfterRead(rdlen)
      /\ datalen' = datalen - rdlen
      /\ ret' = rdlen
      /\ UNCHANGED <<mem, poswrite, overfilled>>

memory_stream_read(n) == ReadNothing \/ ReadSome(n)

-----------------------------------------------------------------------------
Next == \/ \E buf \in Chunks : memory_stream_write(buf)
        \/ \E n \in 1 .. MaxChunk : memory_stream_read(n)

Spec == Init /\ [][Next]_vars

-----------------------------------------------------------------------------
(* Neither position leaves the memory, also after a full stream has        *)
(* accepted a write (memstream.c:87): no call reads or writes beyond it.   *)
TypeOK ==
  /\ mem \in [0 .. Size - 1 -> Bytes]
  /\ posread \in 0 .. Size
  /\ poswrite \in 0 .. Size
  /\ datalen \in Nat
  /\ ret \in Nat
  /\ overfilled \in BOOLEAN

(* Until a full stream accepts a write, the count is the distance of the   *)
(* two positions around the ring, and tells a full stream from an empty    *)
(* one.                                                                    *)
Spans ==
  /\ datalen <= Size
  /\ \/ poswrite = posread + datalen
     \/ poswrite = posread + datalen - Size

Spanned == ~overfilled => Spans

(* The bytes in the stream, in the order in which a read finds them.       *)
Place(k) == IF posread + k - 1 < Size THEN posread + k - 1 ELSE posread + k - 1 - Size
Contents == [k \in 1 .. datalen |-> mem[Place(k)]]

Fifo == INSTANCE ByteQueue WITH q <- Contents

(* Until a full stream accepts a write, the stream is a queue of Size      *)
(* bytes: what is written is read in order, once, over every wrap of the   *)
(* positions, and a write that does not fit changes nothing.               *)
KeepsOrder == Fifo!QInit /\ [][~overfilled' => Fifo!QNext]_(Fifo!qvars)

(* memstream.h:50, "return=0 no enough memory": a write is refused when    *)
(* the stream cannot hold it.  It is not: where both positions meet inside *)
(* the memory, line 87 takes a full stream for an empty one.               *)
NeverOverfull == datalen <= Size
=============================================================================
