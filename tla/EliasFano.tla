------------------------------ MODULE EliasFano ------------------------------
(***************************************************************************)
(* Elias-Fano sequences (codec/compact_elias_fano.hpp, and the strict      *)
(* variant of codec/strict_elias_fano.hpp).  A sequence of n values below  *)
(* a universe is written as its low bits, its high bits in unary, and      *)
(* pointers into the high bits.  An enumerator keeps its position, its     *)
(* value and a cursor on the high bits that has consumed the one of its    *)
(* position, except at the end, where that cursor stays where it was.      *)
(*                                                                         *)
(* params has the logarithms of the sampling rates: ef0 and ef1 here, rb0  *)
(* and rb1 in IndexedSequence, part for uniform partitions.                *)
(***************************************************************************)
EXTENDS BitVector, Sequences

CONSTANT LinearScan          \* linear_scan_threshold, 8 in the code

ASSUME LinearScanAssumption == LinearScan \in Nat

EFLayout(base, universe, n, params, lower, highs, psize) ==
  LET p1    == base + ((highs - n) \div 2^params.ef0) * psize
      high  == p1 + (n \div 2^params.ef1) * psize
  IN  [universe |-> universe, n |-> n, log0 |-> params.ef0, log1 |-> params.ef1,
       lower |-> lower, highs |-> highs, psize |-> psize, p0 |-> base, p1 |-> p1,
       high |-> high, low |-> high + highs, end |-> high + highs + n * lower]

EFOffsets(base, universe, n, params) ==
  LET lower == IF universe > n THEN Msb(universe \div n) ELSE 0
      highs == n + (universe \div 2^lower) + 2
  IN  EFLayout(base, universe, n, params, lower, highs, CeilLog2(highs))

EFBitsize(params, universe, n) == EFOffsets(0, universe, n, params).end

\* Where the one of the value at index i stands in the high bits, s[1] being
\* the value at index 0.
HighOf(o, s, i) == s[i + 1] \div 2^o.lower + i + 1

\* Pointers to the zeros begin .. end-1 of the high bits, before which there
\* are rank ones.
Pointers0(o, begin, end, rank) ==
  LET samples == {k \in 1..(o.highs \div 2^o.log0) :
                    begin - rank <= k * 2^o.log0 /\ k * 2^o.log0 < end - rank}
  IN  UNION {Field(o.p0 + (k - 1) * o.psize, k * 2^o.log0 + rank) : k \in samples}

\* Between the ones of the values at i-1 and i are the zeros with i ones before them.
RunBegin(o, s, i) == IF i = 0 THEN 1 ELSE HighOf(o, s, i - 1) + 1
RunEnd(o, s, i)   == IF i = o.n THEN o.highs ELSE HighOf(o, s, i)

EFOnes(o, s) ==
  {o.high + HighOf(o, s, i) : i \in 0..(o.n - 1)}
  \cup UNION {Field(o.low + i * o.lower, s[i + 1] % 2^o.lower) : i \in 0..(o.n - 1)}
  \cup UNION {Field(o.p1 + (i \div 2^o.log1 - 1) * o.psize, HighOf(o, s, i)) :
                 i \in {j \in 1..(o.n - 1) : j % 2^o.log1 = 0}}
  \cup UNION {Pointers0(o, RunBegin(o, s, i), RunEnd(o, s, i), i) : i \in 0..o.n}

EFWriteAt(b, s, o) == [size |-> o.end, ones |-> b.ones \cup EFOnes(o, s)]
EFWrite(b, s, universe, n, params) == EFWriteAt(b, s, EFOffsets(b.size, universe, n, params))

-----------------------------------------------------------------------------
(* The enumerator. *)

EFEnumerator(offset, universe, n, params) ==
  [kind |-> "ef", o |-> EFOffsets(offset, universe, n, params),
   pos |-> n, val |-> universe, high |-> [pos |-> 0, buf |-> {}]]

AtEnd(e)     == [e EXCEPT !.pos = e.o.n, !.val = e.o.universe]
ReadLow(b, o, i) == GetBits(b, o.low + i * o.lower, o.lower)
\* The value at position i whose one the cursor has just consumed.
ReadAt(b, e, i, high) ==
  [e EXCEPT !.pos = i, !.high = high,
            !.val = (high.pos - e.o.high - i - 1) * 2^e.o.lower + ReadLow(b, e.o, i)]
Pointer(b, offset, i, size) == IF i = 0 THEN 0 ELSE GetBits(b, offset + (i - 1) * size, size)

EFNext(b, e) ==
  IF e.pos + 1 < e.o.n THEN ReadAt(b, e, e.pos + 1, UnaryNext(b, e.high)) ELSE AtEnd(e)

\* Forward, one posting at a time, to the first value not below bound.
RECURSIVE EFScan(_, _, _)
EFScan(b, e, bound) ==
  IF e.pos = e.o.n \/ e.val >= bound THEN e ELSE EFScan(b, EFNext(b, e), bound)

EFSlowMove(b, e, position) ==
  LET skip  == position - e.pos
      ptr   == position \div 2^e.o.log1
      near  == position > e.pos /\ skip \div 2^e.o.log1 = 0
      start == IF near THEN e.high
               ELSE UnaryAt(b, e.o.high + Pointer(b, e.o.p1, ptr, e.o.psize))
      count == IF near THEN skip - 1 ELSE position - ptr * 2^e.o.log1
  IN  IF position = e.o.n THEN AtEnd(e)
      ELSE ReadAt(b, e, position, UnaryNext(b, UnarySkip(b, start, count)))

EFMove(b, e, position) ==
  IF position = e.pos THEN e
  ELSE IF position > e.pos /\ position - e.pos <= LinearScan
       THEN IF position = e.o.n THEN AtEnd(e)
            ELSE ReadAt(b, e, position, UnaryAdvance(b, e.high, position - e.pos))
       ELSE EFSlowMove(b, e, position)

\* The zero that ends the high bits below high was found.
EFScanFrom(b, e, high, zero, bound) ==
  EFScan(b, EFNext(b, [e EXCEPT !.high = zero, !.pos = zero.pos - e.o.high - high - 1]), bound)

EFSlowNextGeq(b, e, bound) ==
  LET boundHigh == bound \div 2^e.o.lower
      diff  == boundHigh - e.val \div 2^e.o.lower
      ptr   == boundHigh \div 2^e.o.log0
      near  == bound > e.val /\ diff \div 2^e.o.log0 = 0
      start == IF near THEN e.high
               ELSE UnaryAt(b, e.o.high + Pointer(b, e.o.p0, ptr, e.o.psize))
      count == IF near THEN diff ELSE boundHigh - ptr * 2^e.o.log0
  IN  IF bound >= e.o.universe THEN EFMove(b, e, e.o.n)
      ELSE EFScanFrom(b, e, boundHigh, UnarySkip0(b, start, count), bound)

EFNextGeq(b, e, bound) ==
  IF bound = e.val THEN e
  ELSE IF bound > e.val /\ bound \div 2^e.o.lower - e.val \div 2^e.o.lower <= LinearScan
       THEN EFScan(b, EFNext(b, e), bound)
       ELSE EFSlowNextGeq(b, e, bound)

EFPrevValue(b, e) ==
  LET last == IF e.pos < e.o.n THEN e.high.pos - 1 ELSE e.o.low - 1
  IN  IF e.pos = 0 THEN 0
      ELSE (Predecessor1(b, last) - e.o.high - e.pos) * 2^e.o.lower + ReadLow(b, e.o, e.pos - 1)

-----------------------------------------------------------------------------
(* Strictly increasing values: the i-th is stored minus i. *)

StrictEFBitsize(params, universe, n) == EFBitsize(params, universe - n + 1, n)
StrictEFWrite(b, s, universe, n, params) ==
  EFWrite(b, [i \in 1..n |-> s[i] - (i - 1)], universe - n + 1, n, params)
StrictEFEnumerator(offset, universe, n, params) ==
  [kind |-> "strict_ef", ef |-> EFEnumerator(offset, universe - n + 1, n, params)]
StrictEFMove(b, e, position) == [e EXCEPT !.ef = EFMove(b, @, position)]
StrictEFNext(b, e)           == [e EXCEPT !.ef = EFNext(b, @)]
StrictEFValue(e)             == e.ef.val + e.ef.pos
StrictEFPrevValue(b, e)      == IF e.ef.pos # 0 THEN EFPrevValue(b, e.ef) + e.ef.pos - 1 ELSE 0
=============================================================================
