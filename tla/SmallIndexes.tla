---------------------------- MODULE SmallIndexes ----------------------------
(***************************************************************************)
(* The queries TLC runs the algorithms on: every index of two terms over a *)
(* small collection, split or clipped by the tools, whose pairs are        *)
(* numbered either way.                                                    *)
(***************************************************************************)
EXTENDS PairedIndex

CONSTANTS FirstImpacts, SecondImpacts, Weights

\* Posting lists over the collection with the given impacts.
Lists(impacts) == UNION {[D -> impacts] : D \in (SUBSET Docs) \ {{}}}

\* Bounds that leave the HIGH list no longer than the LOW one, as the bound of
\* compute_splits does for every divisor of at least 2; NoSplit is one of them.
Balanced(list) ==
  {b \in 1..3 \cup {NoSplit} :
     2 * Cardinality({d \in DOMAIN list : list[d] > b}) <= Size(list)}

ASSUME SplitPointIsBalanced ==
  \A list \in Lists(1..2) : \A x \in 2..3 :
    x <= Size(list) => SplitPoint(list, x) \in Balanced(list)

TermIndexes(impacts, make(_, _)) ==
  UNION {{make(list, b) : b \in Balanced(list)} : list \in Lists(impacts)}

Queries(make(_, _)) ==
  {MakeCursors(<<one, two>>, <<1, weight>>, numbering) :
     one \in TermIndexes(FirstImpacts, make), two \in TermIndexes(SecondImpacts, make),
     weight \in Weights, numbering \in {<<1, 2>>, <<2, 1>>}}

SplitQueries == Queries(SplitTerm)
ClippedQueries == Queries(ClipTerm)

\* What the proofs ask of pair-aware calls holds of every split index.
ASSUME SplitPairBounds == \A query \in SplitQueries : PairBoundsHold(query)
=============================================================================
