----------------------------- MODULE BlockCodecs -----------------------------
(***************************************************************************)
(* The codecs of a block of integers (codec/block_codecs.hpp,              *)
(* codec/interpolative_coding.hpp, codec/varintgb.hpp, codec/VarIntG8IU.h).*)
(* Bytes are numbers of ByteBits bits, written to and read from a sequence *)
(* of bytes at a position counted from zero.  A decoder returns the values *)
(* and the position behind them.  A key or a descriptor, one bit for each  *)
(* byte or two for each value of its group, is one symbol.                 *)
(***************************************************************************)
EXTENDS BitVector, Sequences

CONSTANTS ByteBits,          \* 8 in the code
          BlockSize,         \* values of a full block, 128 in the code
          GroupBytes         \* data bytes of a group of varint-G8IU, 8 in the code

ASSUME BlockAssumption == ByteBits \in Nat /\ ByteBits > 1
                          /\ BlockSize \in Nat \ {0} /\ GroupBytes \in Nat \ {0}

SumIsWritten == -1           \* uint32_t(-1): the sum is stored before the block

RECURSIVE Prefix(_, _)
Prefix(s, i) == IF i = 0 THEN 0 ELSE Prefix(s, i - 1) + s[i]

-----------------------------------------------------------------------------
(* TightVariableByte: the last byte of a value has its high bit set. *)

Payload == 2^(ByteBits - 1)

RECURSIVE VByteEncode(_)
VByteEncode(v) == IF v < Payload THEN <<v + Payload>> ELSE <<v % Payload>> \o VByteEncode(v \div Payload)

RECURSIVE VByteDecode(_, _, _, _)
VByteDecode(out, at, v, scale) ==
  LET c == out[at + 1]
      w == v + (c % Payload) * scale
  IN  IF c >= Payload THEN <<w, at + 1>> ELSE VByteDecode(out, at + 1, w, scale * Payload)

-----------------------------------------------------------------------------
(* Interpolative coding: the middle value, and then either half in between. *)

WriteInt(b, v, u) ==
  LET l == Msb(u)
      m == 2^(l + 1) - u
      w == v + m
  IN  IF v < m THEN AppendBits(b, v, l) ELSE AppendBits(AppendBits(b, w \div 2, l), w % 2, 1)

RECURSIVE WriteInterpolative(_, _, _, _)
WriteInterpolative(b, s, low, high) ==
  LET h == Len(s) \div 2
      v == s[h + 1]
  IN  IF s = << >> THEN b
      ELSE WriteInterpolative(
             WriteInterpolative(WriteInt(b, v - low, high - low + 1), SubSeq(s, 1, h), low, v),
             SubSeq(s, h + 2, Len(s)), v, high)

\* The bits of a sequence of bytes from a byte on, pos bits further.
ReadBits(out, at, pos, len) ==
  NumberOf({i \in 0..(len - 1) :
             LET p == pos + i IN (out[at + (p \div ByteBits) + 1] \div 2^(p % ByteBits)) % 2 = 1})

ReadInt(out, at, pos, u) ==
  LET l == Msb(u)
      m == 2^(l + 1) - u
      v == ReadBits(out, at, pos, l)
  IN  IF v < m THEN <<v, pos + l>> ELSE <<2 * v + ReadBits(out, at, pos + l, 1) - m, pos + l + 1>>

\* n values: <<values, the bits read>>.
RECURSIVE ReadInterpolative(_, _, _, _, _, _), ReadAround(_, _, _, _, _, _)
ReadInterpolative(out, at, pos, n, low, high) ==
  IF n = 0 THEN << << >>, pos>>
  ELSE ReadAround(out, at, ReadInt(out, at, pos, high - low + 1), n, low, high)
\* The middle value was read, relative to low; then come those on its left.
ReadAround(out, at, mid, n, low, high) ==
  LET h == n \div 2
      v == low + mid[1]
      Joined(left, right)  == <<left[1] \o <<v>> \o right[1], right[2]>>
      RightAfter(left)     == Joined(left, ReadInterpolative(out, at, left[2], n - h - 1, v, high))
  IN  RightAfter(ReadInterpolative(out, at, mid[2], h, low, v))

BytesOf(b) == [i \in 1..CeilDiv(b.size, ByteBits) |-> GetBits(b, (i - 1) * ByteBits, ByteBits)]

\* The sums of the values are written; the last is known, or written first.
InterpolativeEncode(s, sum) ==
  LET sums  == [i \in DOMAIN s |-> Prefix(s, i)]
      total == IF sum = SumIsWritten THEN sums[Len(s)] ELSE sum
      head  == IF sum = SumIsWritten THEN VByteEncode(total) ELSE << >>
  IN  head \o BytesOf(WriteInterpolative(EmptyBits, SubSeq(sums, 1, Len(s) - 1), 0, total))

Gaps(sums) == [i \in DOMAIN sums |-> sums[i] - (IF i = 1 THEN 0 ELSE sums[i - 1])]
DecodeSums(total, at, inner) == <<Gaps(Append(inner[1], total)), at + CeilDiv(inner[2], ByteBits)>>
DecodeTotal(out, total, at, n) ==
  DecodeSums(total, at, ReadInterpolative(out, at, 0, n - 1, 0, total))
DecodeFrom(out, total, n) == DecodeTotal(out, total[1], total[2], n)
InterpolativeDecode(out, at, sum, n) ==
  DecodeFrom(out, IF sum = SumIsWritten THEN VByteDecode(out, at, 0, 1) ELSE <<sum, at>>, n)

-----------------------------------------------------------------------------
(* Codecs of full blocks. *)

\* The bytes of a value, least significant first, from one to four.
BytesNeeded(v) == CHOOSE k \in 1..4 : v < 2^(k * ByteBits) /\ (k > 1 => v >= 2^((k - 1) * ByteBits))
Bytes(v)       == [i \in 1..BytesNeeded(v) |-> (v \div 2^((i - 1) * ByteBits)) % 2^ByteBits]

RECURSIVE FromBytes(_)
FromBytes(s) == IF s = << >> THEN 0 ELSE Head(s) + 2^ByteBits * FromBytes(Tail(s))

RECURSIVE AllBytes(_)
AllBytes(s) == IF s = << >> THEN << >> ELSE Bytes(Head(s)) \o AllBytes(Tail(s))

\* VarIntGB: a key with two bits for the length of each of up to four values.
RECURSIVE GBEncode(_)
GBEncode(s) ==
  LET group == SubSeq(s, 1, Min({4, Len(s)}))
      key   == Prefix([i \in DOMAIN group |-> (BytesNeeded(group[i]) - 1) * 4^(i - 1)], Len(group))
  IN  IF s = << >> THEN << >>
      ELSE <<key>> \o AllBytes(group) \o GBEncode(SubSeq(s, Len(group) + 1, Len(s)))

Before(values, rest) == <<values \o rest[1], rest[2]>>

RECURSIVE GBGroup(_, _, _, _)
GBGroup(out, at, key, n) ==
  LET len == (key % 4) + 1
  IN  IF n = 0 THEN << << >>, at>>
      ELSE Before(<<FromBytes(SubSeq(out, at + 1, at + len))>>,
                  GBGroup(out, at + len, key \div 4, n - 1))

RECURSIVE GBDecode(_, _, _)
GBDecode(out, at, n) ==
  LET RestAfter(group) == Before(group[1], GBDecode(out, group[2], n - Len(group[1])))
  IN  IF n = 0 THEN << << >>, at>> ELSE RestAfter(GBGroup(out, at + 1, out[at + 1], Min({4, n})))

\* VarIntG8IU: groups of GroupBytes bytes, padded, with a descriptor whose
\* zeros are the last bytes of the values.
RECURSIVE FirstGroup(_, _)
FirstGroup(s, room) ==
  IF s = << >> \/ BytesNeeded(Head(s)) > room THEN << >>
  ELSE <<Head(s)>> \o FirstGroup(Tail(s), room - BytesNeeded(Head(s)))

G8IUDescriptor(group) ==
  NumberOf(0..(GroupBytes - 1))
  - NumberOf({Len(AllBytes(SubSeq(group, 1, i))) - 1 : i \in 1..Len(group)})

RECURSIVE G8IUEncode(_)
G8IUEncode(s) ==
  LET Encoded(group, data) ==
        <<G8IUDescriptor(group)>> \o data \o [i \in 1..(GroupBytes - Len(data)) |-> 0]
        \o G8IUEncode(SubSeq(s, Len(group) + 1, Len(s)))
      Group(group) == Encoded(group, AllBytes(group))
  IN  IF s = << >> THEN << >> ELSE Group(FirstGroup(s, GroupBytes))

\* The values of the group at a position, all of them.
G8IUGroup(out, at) ==
  LET lasts   == (0..(GroupBytes - 1)) \ BitsOf(out[at + 1])
      end(i)  == Kth(lasts, i - 1)
      from(i) == IF i = 1 THEN 0 ELSE end(i - 1) + 1
  IN  [i \in 1..Cardinality(lasts) |-> FromBytes(SubSeq(out, at + from(i) + 2, at + end(i) + 2))]

\* n values: a group can hold more than are needed.
RECURSIVE G8IUDecode(_, _, _)
G8IUDecode(out, at, n) ==
  LET RestAfter(taken) == Before(taken, G8IUDecode(out, at + 1 + GroupBytes, n - Len(taken)))
      Taken(group)     == RestAfter(SubSeq(group, 1, Min({Len(group), n})))
  IN  IF n = 0 THEN << << >>, at>> ELSE Taken(G8IUGroup(out, at))

-----------------------------------------------------------------------------
(* The codecs of the indexes: a block that is not full is interpolative. *)

BlockEncode(codec, s, sum) ==
  IF codec = "interpolative" \/ Len(s) < BlockSize THEN InterpolativeEncode(s, sum)
  ELSE IF codec = "varintgb" THEN GBEncode(s) ELSE G8IUEncode(s)

BlockDecode(codec, out, at, sum, n) ==
  IF codec = "interpolative" \/ n < BlockSize THEN InterpolativeDecode(out, at, sum, n)
  ELSE IF codec = "varintgb" THEN GBDecode(out, at, n) ELSE G8IUDecode(out, at, n)
=============================================================================
