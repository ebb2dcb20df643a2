--------------------------- MODULE IndexedSequence ---------------------------
(***************************************************************************)
(* A sequence in the cheapest of three encodings                           *)
(* (sequence/indexed_sequence.hpp), and the same for strictly increasing   *)
(* sequences, without samples of zeros (sequence/strict_sequence.hpp).  A  *)
(* base is "ef", "strict_ef", "indexed" or "strict"; whatever it is, the   *)
(* kind of the enumerator says which code moves it.                        *)
(***************************************************************************)
EXTENDS EliasFano

(* Two encodings of a strictly increasing sequence beside Elias-Fano: a bit for
   each value of the universe, with samples of the number of ones before a bit and
   pointers to every 2^rb1-th one (codec/compact_ranked_bitvector.hpp), and nothing
   at all for a sequence that holds its whole universe
   (codec/all_ones_sequence.hpp). *)

RBLayout(base, universe, n, params, rsize, psize) ==
  LET p1    == base + (universe \div 2^params.rb0) * rsize
      bits  == p1 + (n \div 2^params.rb1) * psize
  IN  [universe |-> universe, n |-> n, log0 |-> params.rb0, log1 |-> params.rb1,
       rsize |-> rsize, psize |-> psize, ranks |-> base, p1 |-> p1, bits |-> bits,
       end |-> bits + universe]

RBOffsets(base, universe, n, params) ==
  RBLayout(base, universe, n, params, CeilLog2(n + 1), CeilLog2(universe))

RBBitsize(params, universe, n) == RBOffsets(0, universe, n, params).end

\* The samples in begin .. end-1, before all of which there are rank ones.
RankSamples(o, begin, end, rank) ==
  LET samples == {k \in 1..end : begin <= k * 2^o.log0 /\ k * 2^o.log0 < end}
  IN  UNION {Field(o.ranks + (k - 1) * o.rsize, rank) : k \in samples}

RBOnes(o, s) ==
  {o.bits + s[i] : i \in 1..o.n}
  \cup UNION {Field(o.p1 + (i \div 2^o.log1 - 1) * o.psize, s[i + 1]) :
                 i \in {j \in 1..(o.n - 1) : j % 2^o.log1 = 0}}
  \cup UNION {RankSamples(o, IF i = 0 THEN 1 ELSE s[i] + 1,
                             IF i = o.n THEN o.universe ELSE s[i + 1] + 1, i) : i \in 0..o.n}

RBWriteAt(b, s, o) == [size |-> o.end, ones |-> b.ones \cup RBOnes(o, s)]
RBWrite(b, s, universe, n, params) == RBWriteAt(b, s, RBOffsets(b.size, universe, n, params))

RBEnumerator(offset, universe, n, params) ==
  [kind |-> "rb", o |-> RBOffsets(offset, universe, n, params),
   pos |-> n, val |-> universe, high |-> [pos |-> 0, buf |-> {}]]

RBReadAt(e, i, high) == [e EXCEPT !.pos = i, !.high = high, !.val = high.pos - e.o.bits]

RBNext(b, e) ==
  IF e.pos + 1 < e.o.n THEN RBReadAt(e, e.pos + 1, UnaryNext(b, e.high)) ELSE AtEnd(e)

RECURSIVE RBScan(_, _, _)
RBScan(b, e, bound) ==
  IF e.pos = e.o.n \/ e.val >= bound THEN e ELSE RBScan(b, RBNext(b, e), bound)

RBSlowMove(b, e, position) ==
  LET skip  == position - e.pos
      ptr   == position \div 2^e.o.log1
      near  == position > e.pos /\ skip \div 2^e.o.log1 = 0
      start == IF near THEN e.high
               ELSE UnaryAt(b, e.o.bits + Pointer(b, e.o.p1, ptr, e.o.psize))
      count == IF near THEN skip - 1 ELSE position - ptr * 2^e.o.log1
  IN  IF position = e.o.n THEN AtEnd(e)
      ELSE RBReadAt(e, position, UnaryNext(b, UnarySkip(b, start, count)))

RBMove(b, e, position) ==
  IF position = e.pos THEN e
  ELSE IF position > e.pos /\ position - e.pos <= LinearScan
       THEN IF position = e.o.n THEN AtEnd(e)
            ELSE RBReadAt(e, position, UnaryAdvance(b, e.high, position - e.pos))
       ELSE RBSlowMove(b, e, position)

\* The ones between the current value, or the sample before the bound, and
\* the bound are counted.
RBReadFrom(b, e, pos, high) ==
  IF pos < e.o.n THEN RBReadAt(e, pos, UnaryNext(b, high))
  ELSE [e EXCEPT !.pos = pos, !.val = e.o.universe, !.high = high]

RBSlowNextGeq(b, e, bound) ==
  LET near  == bound > e.val /\ (bound - e.val) \div 2^e.o.log0 = 0
      block == bound \div 2^e.o.log0
      from  == IF near THEN e.val ELSE block * 2^e.o.log0
      rank  == IF near THEN e.pos ELSE Pointer(b, e.o.ranks, block, e.o.rsize)
      ones  == {i \in b.ones : e.o.bits + from <= i /\ i < e.o.bits + bound}
  IN  IF bound >= e.o.universe THEN RBMove(b, e, e.o.n)
      ELSE RBReadFrom(b, e, rank + Cardinality(ones), UnaryAt(b, e.o.bits + bound))

RBNextGeq(b, e, bound) ==
  IF bound = e.val THEN e
  ELSE IF bound > e.val /\ bound - e.val <= LinearScan
       THEN RBScan(b, RBNext(b, e), bound)
       ELSE RBSlowNextGeq(b, e, bound)

RBPrevValue(b, e) ==
  IF e.pos = 0 THEN 0
  ELSE Predecessor1(b, IF e.pos < e.o.n THEN e.high.pos - 1 ELSE e.o.end - 1) - e.o.bits

-----------------------------------------------------------------------------
(* Sequences 0, 1, ..., universe-1.  No bit stands for "impossible". *)

Impossible == 2^20
AllOnesBitsize(universe, n)  == IF universe = n THEN 0 ELSE Impossible
AllOnesEnumerator(universe)  == [kind |-> "ones", universe |-> universe, pos |-> universe]
AllOnesMove(e, position)     == [e EXCEPT !.pos = position]
AllOnesNextGeq(e, bound)     == [e EXCEPT !.pos = bound]
AllOnesNext(e)               == [e EXCEPT !.pos = @ + 1]
AllOnesPrevValue(e)          == IF e.pos = 0 THEN 0 ELSE e.pos - 1

-----------------------------------------------------------------------------
(* The choice between them. *)

TypeBits == 1                  \* all ones is implicit
NoSampling == 20               \* 63 in the code: no pointer is ever written

\* Zeros are not indexed in a strict sequence.
BaseParams(base, params) ==
  IF base = "strict" THEN [params EXCEPT !.ef0 = NoSampling, !.rb0 = NoSampling] ELSE params

\* The bits of each encoding a base may choose from.
Costs(base, params, universe, n) ==
  [ones |-> AllOnesBitsize(universe, n),
   rb   |-> RBBitsize(params, universe, n) + TypeBits,
   ef   |-> TypeBits + IF base = "strict" THEN StrictEFBitsize(params, universe, n)
                       ELSE EFBitsize(params, universe, n)]

LeastOf(costs) == Min({costs.ones, costs.ef, costs.rb})
BaseBitsize(base, params, universe, n) ==
  LeastOf(Costs(base, BaseParams(base, params), universe, n))

EliasFanoOf(base) == IF base \in {"strict", "strict_ef"} THEN "strict_ef" ELSE "ef"

\* All ones before Elias-Fano before a ranked vector of the same size.
Cheapest(base, costs) ==
  IF costs.ones = 0 THEN "ones"
  ELSE IF costs.rb < Min({costs.ones, costs.ef}) THEN "rb" ELSE EliasFanoOf(base)

-----------------------------------------------------------------------------
(* Writing and opening. *)

WriteAs(encoding, b, s, universe, n, params) ==
  CASE encoding = "ef"        -> EFWrite(b, s, universe, n, params)
    [] encoding = "strict_ef" -> StrictEFWrite(b, s, universe, n, params)
    [] encoding = "rb"        -> RBWrite(b, s, universe, n, params)
    [] encoding = "ones"      -> b

WriteType(encoding, b) ==
  IF encoding = "ones" THEN b ELSE AppendBits(b, IF encoding = "rb" THEN 1 ELSE 0, TypeBits)

WriteTyped(encoding, b, s, universe, n, params) ==
  WriteAs(encoding, WriteType(encoding, b), s, universe, n, params)

BaseWrite(base, b, s, universe, n, params) ==
  IF base \in {"ef", "strict_ef"} THEN WriteAs(base, b, s, universe, n, params)
  ELSE WriteTyped(Cheapest(base, Costs(base, BaseParams(base, params), universe, n)),
                  b, s, universe, n, BaseParams(base, params))

EnumeratorAs(encoding, offset, universe, n, params) ==
  CASE encoding = "ef"        -> EFEnumerator(offset, universe, n, params)
    [] encoding = "strict_ef" -> StrictEFEnumerator(offset, universe, n, params)
    [] encoding = "rb"        -> RBEnumerator(offset, universe, n, params)
    [] encoding = "ones"      -> AllOnesEnumerator(universe)

WrittenType(base, b, offset, universe, n) ==
  IF AllOnesBitsize(universe, n) = 0 THEN "ones"
  ELSE IF GetBits(b, offset, TypeBits) = 0 THEN EliasFanoOf(base) ELSE "rb"

BaseEnumerator(base, b, offset, universe, n, params) ==
  IF base \in {"ef", "strict_ef"} THEN EnumeratorAs(base, offset, universe, n, params)
  ELSE EnumeratorAs(WrittenType(base, b, offset, universe, n), offset + TypeBits, universe, n,
                    BaseParams(base, params))

-----------------------------------------------------------------------------
(* One interface to the enumerators. *)

BaseMove(b, e, position) ==
  CASE e.kind = "ef"        -> EFMove(b, e, position)
    [] e.kind = "strict_ef" -> StrictEFMove(b, e, position)
    [] e.kind = "rb"        -> RBMove(b, e, position)
    [] e.kind = "ones"      -> AllOnesMove(e, position)

BaseNext(b, e) ==
  CASE e.kind = "ef"        -> EFNext(b, e)
    [] e.kind = "strict_ef" -> StrictEFNext(b, e)
    [] e.kind = "rb"        -> RBNext(b, e)
    [] e.kind = "ones"      -> AllOnesNext(e)

\* Not for strict sequences.
BaseNextGeq(b, e, bound) ==
  CASE e.kind = "ef"   -> EFNextGeq(b, e, bound)
    [] e.kind = "rb"   -> RBNextGeq(b, e, bound)
    [] e.kind = "ones" -> AllOnesNextGeq(e, bound)

BasePrevValue(b, e) ==
  CASE e.kind = "ef"        -> EFPrevValue(b, e)
    [] e.kind = "strict_ef" -> StrictEFPrevValue(b, e)
    [] e.kind = "rb"        -> RBPrevValue(b, e)
    [] e.kind = "ones"      -> AllOnesPrevValue(e)

BasePosition(e) == IF e.kind = "strict_ef" THEN e.ef.pos ELSE e.pos
BaseValue(e) ==
  CASE e.kind = "strict_ef"    -> StrictEFValue(e)
    [] e.kind = "ones"         -> e.pos
    [] e.kind \in {"ef", "rb"} -> e.val
BaseSize(e) ==
  CASE e.kind = "strict_ef"    -> e.ef.o.n
    [] e.kind = "ones"         -> e.universe
    [] e.kind \in {"ef", "rb"} -> e.o.n
=============================================================================
