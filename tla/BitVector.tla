------------------------------ MODULE BitVector ------------------------------
(***************************************************************************)
(* Vectors of bits (bit_vector.hpp) and the integer codes written into     *)
(* them (codec/integer_codes.hpp).  A vector is the number of its bits and *)
(* the set of the positions that hold a one.  The enumerators keep the     *)
(* rest of the machine word they stand in, which is what their clients     *)
(* depend on: a one that was consumed is a zero to the next call.          *)
(***************************************************************************)
EXTENDS Integers, FiniteSets, FiniteSetsExt

CONSTANT WordBits            \* 64 in the code

ASSUME WordBitsAssumption == WordBits \in Nat \ {0}

EmptyBits == [size |-> 0, ones |-> {}]

\* The positions of the ones of n, and back.  Values are below 2^20.
BitsOf(n)   == {i \in 0..20 : (n \div 2^i) % 2 = 1}
NumberOf(S) == MapThenSumSet(LAMBDA i : 2^i, S)

Msb(n)           == Max(BitsOf(n))
CeilLog2(n)      == IF n > 1 THEN Msb(n - 1) + 1 ELSE 0
CeilDiv(n, d)    == (n + d - 1) \div d

\* The member of S that has k members of S below it.
Kth(S, k) == CHOOSE i \in S : Cardinality({j \in S : j < i}) = k

-----------------------------------------------------------------------------
(* The builder. *)

\* The ones of a field at position pos that holds n.  Bits of n beyond the
\* length of the field spill into what follows, as they do in the code.
Field(pos, n) == {pos + i : i \in BitsOf(n)}

AppendBits(b, n, len) == [size |-> b.size + len, ones |-> b.ones \cup Field(b.size, n)]
ZeroExtend(b, n)      == [b EXCEPT !.size = @ + n]
AppendVector(b, c)    == [size |-> b.size + c.size,
                          ones |-> b.ones \cup {b.size + i : i \in c.ones}]

\* The bits pos .. pos+len-1 as a number.
GetBits(b, pos, len) == NumberOf({i \in 0..(len - 1) : pos + i \in b.ones})

\* The last one at pos or before.
Predecessor1(b, pos) == Max({i \in b.ones : i <= pos})

-----------------------------------------------------------------------------
(* bit_vector::enumerator: pos, the ones of the buffer, and how many bits  *)
(* of the buffer are left.                                                 *)

BitsAt(pos) == [pos |-> pos, buf |-> {}, avail |-> 0]

FillBuf(b, e) ==
  [e EXCEPT !.buf = {i \in b.ones : i \in e.pos..(e.pos + WordBits - 1)}, !.avail = WordBits]

\* <<the next l bits, the enumerator behind them>>.  A whole word leaves the
\* buffer as it is.
TakeFilled(f, l) ==
  <<NumberOf({i \in 0..(l - 1) : f.pos + i \in f.buf}),
    [pos   |-> f.pos + l, avail |-> f.avail - l,
     buf   |-> IF l = WordBits THEN f.buf ELSE {i \in f.buf : i >= f.pos + l}]>>
Take(b, e, l) == TakeFilled(IF e.avail < l THEN FillBuf(b, e) ELSE e, l)

Plus(read, n) == <<read[1] + n, read[2]>>

\* <<the number of zeros, the enumerator behind the one that ends them>>
RECURSIVE SkipZeros(_, _)
SkipZeros(b, e) ==
  IF e.buf = {} THEN Plus(SkipZeros(b, FillBuf(b, [e EXCEPT !.pos = @ + e.avail])), e.avail)
  ELSE LET one == Min(e.buf)
       IN  <<one - e.pos, [pos   |-> one + 1, avail |-> e.avail - (one - e.pos + 1),
                           buf   |-> e.buf \ {one}]>>

WriteLow(b, n, l)  == AppendBits(b, n + 1 - 2^l, l)
WriteUnary(b, l)   == AppendBits(b, 2^l, l + 1)
WriteGamma(b, n)   == WriteLow(WriteUnary(b, Msb(n + 1)), n, Msb(n + 1))
WriteGammaNonzero(b, n) == WriteGamma(b, n - 1)
WriteDelta(b, n)   == WriteLow(WriteGamma(b, Msb(n + 1)), n, Msb(n + 1))

\* The number whose length is what was read.
WithLength(b, read)    == Plus(Take(b, read[2], read[1]), 2^read[1] - 1)
ReadGamma(b, e)        == WithLength(b, SkipZeros(b, e))
ReadGammaNonzero(b, e) == Plus(ReadGamma(b, e), 1)
ReadDelta(b, e)        == WithLength(b, ReadGamma(b, e))

-----------------------------------------------------------------------------
(* bit_vector::unary_enumerator: pos, and the ones left in its word. *)

Word(pos)         == pos \div WordBits
OnesOfWord(b, w)  == {i \in b.ones : Word(i) = w}
UnaryAt(b, pos)   == [pos |-> pos, buf |-> {i \in OnesOfWord(b, Word(pos)) : i >= pos}]

OnesAhead(b, u)   == u.buf \cup {i \in b.ones : Word(i) > Word(u.pos)}
ZerosAhead(b, u)  ==
  LET end == (Word(b.size - 1) + 1) * WordBits
  IN  {i \in u.pos..(end - 1) : IF Word(i) = Word(u.pos) THEN i \notin u.buf ELSE i \notin b.ones}

\* The ones of the word of pos that are still ahead of u.
LeftAt(b, u, pos) == IF Word(pos) = Word(u.pos) THEN u.buf ELSE OnesOfWord(b, Word(pos))

StandAt(b, u, pos) == [pos |-> pos, buf |-> {i \in LeftAt(b, u, pos) : i >= pos}]
Consumed(u)        == [u EXCEPT !.buf = @ \ {u.pos}]

\* The next one is consumed.
UnaryNext(b, u) == Consumed(StandAt(b, u, Min(OnesAhead(b, u))))

RECURSIVE UnaryAdvance(_, _, _)
UnaryAdvance(b, u, n) == IF n = 0 THEN u ELSE UnaryAdvance(b, UnaryNext(b, u), n - 1)

\* To the k-th one ahead, counting from zero, which is not consumed.
UnarySkip(b, u, k) == StandAt(b, u, Kth(OnesAhead(b, u), k))

\* To the k-th zero ahead.
UnarySkip0(b, u, k) == StandAt(b, u, Kth(ZerosAhead(b, u), k))
=============================================================================
