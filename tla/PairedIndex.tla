---------------------------- MODULE PairedIndex ----------------------------
(***************************************************************************)
(* From a plain index to the cursors of a query over its split or clipped  *)
(* form.  tools/compute_splits.py chooses a bound per list,                *)
(* tools/split_index.cpp and tools/clip_index.cpp write each list as a     *)
(* HIGH and a LOW list, tools/modify_queries.py renames the query terms,   *)
(* parse_query_terms (queries.cpp) pairs the lists it finds, and           *)
(* make_max_scored_cursors (max_scored_cursor.hpp) builds the cursors.     *)
(* All of it is deterministic but for the order in which an unordered_map  *)
(* yields the pairs, which numbers them.                                   *)
(*                                                                         *)
(* A collection is a sequence of lists, one for each term, in the order of *)
(* the terms; a list is a function document |-> impact.                    *)
(***************************************************************************)
EXTENDS Integers, Sequences, SequencesExt, Cursors

CONSTANTS
  MinSplitLength,   \* shorter lists are not split: 256
  NoSplit           \* the bound written for them: 10000000

Size(list) == Cardinality(DOMAIN list)

\* compute_splits: the impact at place len/x - 1 of the impacts in decreasing
\* order, places counted from 0.
SplitPoint(list, x) ==
  LET place == (Size(list) \div x) - 1
      above(v) == Cardinality({d \in DOMAIN list : list[d] > v})
      from(v) == Cardinality({d \in DOMAIN list : list[d] >= v})
  IN  IF Size(list) < MinSplitLength THEN NoSplit
      ELSE CHOOSE v \in Range(list) : above(v) <= place /\ place < from(v)

\* split_index: each posting goes to one of the lists.
SplitHigh(list, bound) == RestrictValues(list, LAMBDA v : v > bound)
SplitLow(list, bound) == RestrictValues(list, LAMBDA v : v <= bound)

\* clip_index: a posting above the bound goes to both, its impact in two parts.
ClipHigh(list, bound) ==
  [d \in {e \in DOMAIN list : list[e] > bound} |-> list[d] - bound]
ClipLow(list, bound) == [d \in DOMAIN list |-> IF list[d] <= bound THEN list[d] ELSE bound]

\* The lists of a term in the new index, HIGH before LOW as their names sort;
\* an empty list is not written.
TermLists(high, low) == SelectSeq(<<high, low>>, LAMBDA list : DOMAIN list # {})

SplitTerm(list, bound) == TermLists(SplitHigh(list, bound), SplitLow(list, bound))
ClipTerm(list, bound) == TermLists(ClipHigh(list, bound), ClipLow(list, bound))

-----------------------------------------------------------------------------

\* max_term_weight: the largest impact of a list.
MaxImpact(list) == CHOOSE m \in Range(list) : \A v \in Range(list) : v <= m

\* The first list identifier of term t, identifiers counted from 0 over the
\* whole index.
FirstId(index, t) == FoldLeft(+, 0, [s \in 1..(t - 1) |-> Len(index[s])])

\* The pairs are numbered by their place in `numbering`, a permutation of the terms.
PairId(numbering, t) == (CHOOSE i \in DOMAIN numbering : numbering[i] = t) - 1

\* The bound subtracted when both lists of t's pair are met: the LOW list's, told
\* by its length; of lists of one length the LOW one, which a query names first.
\* A term with one list only is paired with itself and has no such bound: it
\* writes 0, but under the identifier of its list where the others use that of
\* their pair, and so erases the bound of a pair of that number written before.
LowBound(index, weight, numbering, t) ==
  LET id == PairId(numbering, t)
      high == index[t][1]
      low == index[t][2]
      erased == \E s \in DOMAIN index :
                  /\ Len(index[s]) = 1
                  /\ FirstId(index, s) = id
                  /\ PairId(numbering, s) > id
  IN  IF Len(index[t]) = 1 \/ erased THEN 0
      ELSE weight * MaxImpact(IF Size(low) < Size(high) THEN high ELSE low)

\* The cursors of a term that occurs `weight` times in the query, one per list.
TermCursors(index, weight, numbering, t) ==
  LET lists == index[t]
      low == LowBound(index, weight, numbering, t)
      cursor(list) ==
        [post  |-> [d \in DOMAIN list |-> weight * list[d]],
         max   |-> weight * MaxImpact(list),
         low   |-> low,
         short |-> IF Len(lists) = 1 THEN 0
                   ELSE IF Size(lists[1]) < Size(lists[2]) THEN Size(lists[1])
                   ELSE Size(lists[2]),
         id    |-> PairId(numbering, t)]
  IN  IF Len(lists) = 1 THEN <<cursor(lists[1])>>
      ELSE <<cursor(lists[1]), cursor(lists[2])>>

\* make_max_scored_cursors for a query with weights[t] occurrences of term t:
\* the cursors in the order of their list identifiers.
MakeCursors(index, weights, numbering) ==
  FlattenSeq([t \in DOMAIN index |-> TermCursors(index, weights[t], numbering, t)])
=============================================================================
