------------------------------ MODULE ByteQueue ------------------------------
(***************************************************************************)
(* What memstream.h promises: a queue of at most Size bytes.  A write is   *)
(* taken whole or not at all, and a read returns the oldest bytes.         *)
(***************************************************************************)
EXTENDS Integers, Sequences

CONSTANTS Size,     \* the capacity
          Bytes,    \* the values of a byte
          MaxChunk  \* bound: the longest buffer of a client

VARIABLES q,    \* the bytes written and not yet read
          got,  \* the bytes the last read has returned
          ret   \* what the last call has returned

qvars == <<q, got, ret>>

Chunks == UNION { [1 .. n -> Bytes] : n \in 1 .. MaxChunk }

QInit == q = << >> /\ got = << >> /\ ret = 0

Write(buf) ==
  /\ IF Len(q) + Len(buf) <= Size
       THEN q' = q \o buf /\ ret' = Len(buf)
       ELSE q' = q /\ ret' = 0
  /\ got' = << >>

Read(n) ==
  LET k == IF n < Len(q) THEN n ELSE Len(q)
  IN  /\ got' = SubSeq(q, 1, k)
      /\ q' = SubSeq(q, k + 1, Len(q))
      /\ ret' = k

QNext == \/ \E buf \in Chunks : Write(buf)
         \/ \E n \in 1 .. MaxChunk : Read(n)

QSpec == QInit /\ [][QNext]_qvars
=============================================================================
