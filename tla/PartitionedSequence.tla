------------------------- MODULE PartitionedSequence -------------------------
(***************************************************************************)
(* Sequences cut into partitions, each written by a base sequence relative *)
(* to its first possible value (sequence/partitioned_sequence.hpp and      *)
(* sequence/uniform_partitioned_sequence.hpp).  Partitions are uniform, or *)
(* chosen by the approximate shortest path of optimal_partition.hpp within *)
(* superblocks that are computed apart.                                    *)
(***************************************************************************)
EXTENDS IndexedSequence

CONSTANTS FixCost,           \* bits a partition costs beside its sequence, 64 in the code
          SuperblockBound    \* the least length of a superblock, fix_cost / eps3 = 6400

ASSUME PartitionAssumption == FixCost \in Nat /\ FixCost > 3 /\ SuperblockBound \in Nat \ {0}

(* optimal_partition: s is the superblock, lo the least value it may hold. *)

\* The bounds of the windows: 30% apart (eps2), up to the first that covers
\* the cost of one block or reaches 1/eps1 = 100/3 of the least cost.
RECURSIVE WindowBounds(_, _, _)
WindowBounds(bound, least, single) ==
  IF bound * 3 >= least * 100 THEN << >>
  ELSE IF bound >= single THEN <<bound>>
       ELSE <<bound>> \o WindowBounds((bound * 13) \div 10, least, single)

\* The cost of one partition with the values s[i+1] .. s[j].
WindowCost(st, i, j) ==
  LET before == IF i = 0 THEN st.lo ELSE st.s[i] + 1
  IN  BaseBitsize(st.base, st.params, st.s[j] - before + 1, j - i) + FixCost

\* Widen one window that starts at i until it costs its bound.  st has the
\* least costs found, the paths of those costs, and the end of the window.
RECURSIVE GrowWindow(_, _, _), WindowGrown(_, _, _, _)
GrowWindow(st, i, bound) == WindowGrown(st, i, bound, WindowCost(st, i, st.end))
WindowGrown(st, i, bound, cost) ==
  LET better  == st.cost[i] + cost < st.cost[st.end]
      relaxed == IF ~better THEN st
                 ELSE [st EXCEPT !.cost[st.end] = st.cost[i] + cost, !.path[st.end] = i]
  IN  IF st.end = Len(st.s) \/ cost >= bound THEN relaxed
      ELSE GrowWindow([relaxed EXCEPT !.end = @ + 1], i, bound)

\* All windows from i on.  A window begins at its own end or at the end of
\* the window before it, whichever is farther.
RECURSIVE GrowWindows(_, _, _, _)
GrowWindows(st, i, w, bounds) ==
  LET Grown(g) == [g EXCEPT !.ends[w] = g.end]
  IN  IF i = Len(st.s) THEN st
      ELSE IF w > Len(bounds) THEN GrowWindows([st EXCEPT !.end = i + 2], i + 1, 1, bounds)
      ELSE GrowWindows(Grown(GrowWindow([st EXCEPT !.end = Max({@, st.ends[w]})], i, bounds[w])),
                       i, w + 1, bounds)

RECURSIVE PathTo(_, _)
PathTo(path, i) == IF i = 0 THEN << >> ELSE Append(PathTo(path, path[i]), i)

\* The paths before any window is grown: one partition.
OnePartition(base, params, s, lo, single, bounds) ==
  [base |-> base, params |-> params, s |-> s, lo |-> lo, end |-> 1,
   cost |-> [i \in 0..Len(s) |-> IF i = 0 THEN 0 ELSE single],
   path |-> [i \in 0..Len(s) |-> 0], ends |-> [w \in DOMAIN bounds |-> 0]]

ShortestPath(base, params, s, lo, single, bounds) ==
  PathTo(GrowWindows(OnePartition(base, params, s, lo, single, bounds), 0, 1, bounds).path, Len(s))

OptimalPartition(base, params, s, lo, universe) ==
  LET single == BaseBitsize(base, params, universe - lo, Len(s)) + FixCost
      least  == BaseBitsize(base, params, 1, 1) + FixCost
  IN  ShortestPath(base, params, s, lo, single, WindowBounds(least, least, single))

From(pos, cuts) == [k \in DOMAIN cuts |-> pos + cuts[k]]

\* The superblocks from position pos on, the remainder joined to the last.
RECURSIVE Superblocks(_, _, _, _, _, _)
Superblocks(base, params, s, universe, pos, lo) ==
  LET n    == Len(s)
      size == IF n - (pos + SuperblockBound) < SuperblockBound THEN n - pos ELSE SuperblockBound
      hi   == IF pos + size = n THEN universe ELSE s[pos + size] + 1
  IN  IF pos = n THEN << >>
      ELSE From(pos, OptimalPartition(base, params, SubSeq(s, pos + 1, pos + size), lo, hi))
           \o Superblocks(base, params, s, universe, pos + size, hi)

\* The ends of the partitions.
ComputePartition(base, params, s, universe) ==
  IF BaseBitsize(base, params, universe, Len(s)) < 2 * FixCost THEN <<Len(s)>>
  ELSE Superblocks(base, params, s, universe, 0, s[1])

UniformPartition(params, n) ==
  LET size == 2^params.part IN [p \in 1..CeilDiv(n, size) |-> Min({p * size, n})]

-----------------------------------------------------------------------------
(* Writing. *)

\* The first value, and the universe of the partition unless it follows.
OnePartitionHead(b, s, universe) ==
  LET last  == s[Len(s)] - s[1]
      first == AppendBits(WriteGammaNonzero(b, 1), s[1], CeilLog2(universe))
  IN  IF Len(s) = 1 THEN first
      ELSE WriteDelta(first, IF s[Len(s)] + 1 = universe THEN 0 ELSE last)

WriteOnePartition(base, b, s, universe, params) ==
  BaseWrite(base, OnePartitionHead(b, s, universe), [i \in DOMAIN s |-> s[i] - s[1]],
            s[Len(s)] - s[1] + 1, Len(s), params)

\* The partitions one after the other, and where each ends.
RECURSIVE WritePartitions(_, _, _, _, _)
WritePartitions(base, written, s, params, cuts) ==
  LET p       == Len(written.ends) + 1
      from    == IF p = 1 THEN 0 ELSE cuts[p - 1]
      lo      == IF p = 1 THEN s[1] ELSE s[from] + 1
      part    == [i \in 1..(cuts[p] - from) |-> s[from + i] - lo]
      Next(b) == [bits |-> b, ends |-> Append(written.ends, b.size)]
  IN  IF p > Len(cuts) THEN written
      ELSE WritePartitions(base,
             Next(BaseWrite(base, written.bits, part, part[Len(part)] + 1, Len(part), params)),
             s, params, cuts)

Partitions(base, s, params, cuts) ==
  WritePartitions(base, [bits |-> EmptyBits, ends |-> << >>], s, params, cuts)

RECURSIVE AppendEach(_, _, _)
AppendEach(b, values, len) ==
  IF values = << >> THEN b ELSE AppendEach(AppendBits(b, Head(values), len), Tail(values), len)

\* The ends of all partitions but the last, and the partitions.
AppendPartitions(b, written, bits) ==
  AppendVector(AppendEach(b, SubSeq(written.ends, 1, Len(written.ends) - 1), bits), written.bits)

UpperBounds(s, cuts) == [p \in 1..(Len(cuts) + 1) |-> IF p = 1 THEN s[1] ELSE s[cuts[p - 1]]]

\* cuts are the positions where partitions end; they are written, when they
\* are not uniform, before the last values of the partitions.
SizesOfParts(part, s, cuts, params) ==
  IF part = "optimal" THEN EFWrite(EmptyBits, cuts, Len(s), Len(cuts) - 1, params) ELSE EmptyBits

BoundsOfParts(s, universe, cuts, params) ==
  EFWrite(EmptyBits, UpperBounds(s, cuts), universe, Len(cuts) + 1, params)

HeadOfParts(part, b, s, universe, params, cuts, bits) ==
  AppendVector(AppendVector(WriteGamma(WriteGammaNonzero(b, Len(cuts)), bits),
                            SizesOfParts(part, s, cuts, params)),
               BoundsOfParts(s, universe, cuts, params))

WriteWith(part, b, s, universe, params, cuts, written, bits) ==
  AppendPartitions(HeadOfParts(part, b, s, universe, params, cuts, bits), written, bits)

WriteParts(part, b, s, universe, params, cuts, written) ==
  WriteWith(part, b, s, universe, params, cuts, written, CeilLog2(written.bits.size + 1))

WriteCut(part, base, b, s, universe, params, cuts) ==
  IF Len(cuts) = 1 THEN WriteOnePartition(base, b, s, universe, params)
  ELSE WriteParts(part, b, s, universe, params, cuts, Partitions(base, s, params, cuts))

PartitionedWrite(part, base, b, s, universe, params) ==
  WriteCut(part, base, b, s, universe, params,
           IF part = "optimal" THEN ComputePartition(base, params, s, universe)
           ELSE UniformPartition(params, Len(s)))

-----------------------------------------------------------------------------
(***************************************************************************)
(* The enumerators of partitioned sequences.  An enumerator stands in one  *)
(* partition: its bounds in positions (begin, end) and in values (lo, ub), *)
(* the enumerator of its base sequence (sub), and the enumerators of the   *)
(* upper bounds and, unless partitions are uniform, of the ends of all     *)
(* partitions, which have positions of their own.  val is the value the    *)
(* last call returned.                                                     *)
(***************************************************************************)


\* The constructor for a sequence of one partition; header is the
\* enumerator that has been read up to the number of partitions.
InOnePartition(p, b, lo, ub, from) ==
  [p EXCEPT !.cur = 0, !.begin = 0, !.end = p.n, !.lo = lo, !.ub = lo + ub,
            !.sub = BaseEnumerator(p.base, b, from, ub + 1, p.n, p.params)]

OpenWithDelta(p, b, lo, delta) ==
  InOnePartition(p, b, lo, IF delta[1] # 0 THEN delta[1] ELSE p.universe - lo - 1, delta[2].pos)

OpenFrom(p, b, lo) ==
  IF p.n = 1 THEN InOnePartition(p, b, lo[1], 0, lo[2].pos)
  ELSE OpenWithDelta(p, b, lo[1], ReadDelta(b, lo[2]))

OpenOnePartition(p, b, header) == OpenFrom(p, b, Take(b, header, CeilLog2(p.universe)))

\* The constructor for several: the enumerators begin one after the other.
OpenUppers(p, bits, at) ==
  LET ends == at + EFBitsize(p.params, p.universe, p.parts + 1)
  IN  [p EXCEPT !.endBits = bits, !.ends = ends, !.seqs = ends + bits * (p.parts - 1),
                !.ubs = EFEnumerator(at, p.universe, p.parts + 1, p.params)]

OpenOptimalParts(p, bits, at) ==
  OpenUppers([p EXCEPT !.sizes = EFEnumerator(at, p.n, p.parts - 1, p.params)],
             bits, at + EFBitsize(p.params, p.n, p.parts - 1))

OpenParts(p, bits) ==
  IF p.kind = "optimal" THEN OpenOptimalParts(p, bits[1], bits[2].pos)
  ELSE OpenUppers(p, bits[1], bits[2].pos)

-----------------------------------------------------------------------------
(* switch_partition: partition k becomes the current one. *)

OptimalBounds(p, b, sizes) ==
  [p EXCEPT !.begin = EFPrevValue(b, sizes), !.end = sizes.val, !.sizes = sizes]
UniformBounds(p, k) ==
  LET size == 2^p.params.part
  IN  [p EXCEPT !.begin = k * size, !.end = Min({p.n, (k + 1) * size})]

\* The values of the partition are above the last upper bound.
EnterFrom(p, b, lo) ==
  [p EXCEPT !.lo = lo, !.ub = p.ubs.val,
            !.sub = BaseEnumerator(p.base, b, p.seqs + Pointer(b, p.ends, p.cur, p.endBits),
                                   p.ubs.val - lo + 1, p.end - p.begin, p.params)]
EnterPartition(p, b) == EnterFrom(p, b, EFPrevValue(b, p.ubs) + (IF p.cur # 0 THEN 1 ELSE 0))

SwitchTo(p, b, k) == EnterPartition([p EXCEPT !.cur = k, !.ubs = EFMove(b, @, k + 1)], b)

SwitchPartition(p, b, k) ==
  SwitchTo(IF p.kind = "optimal" THEN OptimalBounds(p, b, EFMove(b, p.sizes, k))
           ELSE UniformBounds(p, k), b, k)

-----------------------------------------------------------------------------
(* The calls. *)

\* The base enumerator was moved to sub: the value is relative to the partition.
Within(p, sub) == [p EXCEPT !.sub = sub, !.val = p.lo + BaseValue(sub)]
MoveWithin(p, b, position) ==
  Within([p EXCEPT !.pos = position], BaseMove(b, p.sub, position - p.begin))

\* The end is in the last partition.
AtLastPartition(p, b) ==
  [p EXCEPT !.pos = p.n, !.sub = BaseMove(b, @, BaseSize(@)), !.val = p.universe]
MoveToEnd(p, b) ==
  AtLastPartition(IF p.parts > 1 THEN SwitchPartition(p, b, p.parts - 1) ELSE p, b)

\* The partition of a position is found among the ends, or by division.
SwitchToSize(p, b, sizes) == SwitchPartition([p EXCEPT !.sizes = sizes], b, sizes.pos)
SwitchToPosition(p, b, position) ==
  IF p.kind = "optimal" THEN SwitchToSize(p, b, EFNextGeq(b, p.sizes, position + 1))
  ELSE SwitchPartition(p, b, position \div 2^p.params.part)

SlowMove(p, b, position) ==
  IF position = p.n THEN MoveToEnd(p, b)
  ELSE MoveWithin(SwitchToPosition(p, b, position), b, position)

PartMove(p, b, position) ==
  IF p.begin <= position /\ position < p.end THEN MoveWithin(p, b, position)
  ELSE SlowMove(p, b, position)

SlowNext(p, b, position) ==
  IF position = p.n THEN [p EXCEPT !.pos = position, !.sub = BaseNext(b, @), !.val = p.universe]
  ELSE MoveWithin(SwitchPartition(p, b, p.cur + 1), b, position)

PartNext(p, b) ==
  LET position == p.pos + 1
  IN  IF position < p.end THEN Within([p EXCEPT !.pos = position], BaseNext(b, p.sub))
      ELSE SlowNext(p, b, position)

\* Mutant of WithinAt: the position is counted from where the partition begins.
WithinAtLocal(p, sub) == Within([p EXCEPT !.pos = BasePosition(sub)], sub)

WithinAt(p, sub) == Within([p EXCEPT !.pos = p.begin + BasePosition(sub)], sub)

\* p.ubs is at the first upper bound that is not below bound; where the
\* answer is not inside a partition the position is known.
RECURSIVE PartNextGeq(_, _, _), NextGeqAmong(_, _, _)
SlowNextGeq(p, b, bound) ==
  IF p.parts = 1 THEN PartMove(p, b, IF bound < p.lo THEN 0 ELSE p.n)
  ELSE NextGeqAmong([p EXCEPT !.ubs = EFNextGeq(b, @, bound)], b, bound)

NextGeqAmong(p, b, bound) ==
  IF p.ubs.pos \in {0, p.parts + 1} THEN PartMove(p, b, IF p.ubs.pos = 0 THEN 0 ELSE p.n)
  ELSE PartNextGeq(SwitchPartition(p, b, p.ubs.pos - 1), b, bound)

PartNextGeq(p, b, bound) ==
  IF p.lo <= bound /\ bound <= p.ub THEN WithinAt(p, BaseNextGeq(b, p.sub, bound - p.lo))
  ELSE SlowNextGeq(p, b, bound)

PartPrevValue(p, b) ==
  IF p.pos = p.begin THEN IF p.cur # 0 THEN p.lo - 1 ELSE 0
  ELSE p.lo + BasePrevValue(b, p.sub)

-----------------------------------------------------------------------------
(* The constructor: an enumerator begins at the end. *)

Closed(kind, base, universe, n, params, parts) ==
  LET none == [kind |-> "none"]
  IN  [kind |-> kind, base |-> base, params |-> params, parts |-> parts, n |-> n,
       universe |-> universe, endBits |-> 0, ends |-> 0, seqs |-> 0, pos |-> n, val |-> universe,
       cur |-> 0, begin |-> 0, end |-> 0, lo |-> 0, ub |-> 0,
       sizes |-> none, ubs |-> none, sub |-> none]

OpenAfter(p, b, header) ==
  IF p.parts = 1 THEN OpenOnePartition(p, b, header) ELSE OpenParts(p, ReadGamma(b, header))

OpenHeader(kind, base, b, universe, n, params, parts) ==
  SlowMove(OpenAfter(Closed(kind, base, universe, n, params, parts[1]), b, parts[2]), b, n)

Open(kind, base, b, offset, universe, n, params) ==
  OpenHeader(kind, base, b, universe, n, params, ReadGammaNonzero(b, BitsAt(offset)))
=============================================================================
