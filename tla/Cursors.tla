------------------------------ MODULE Cursors ------------------------------
(***************************************************************************)
(* The posting-list cursors a ranked query walks (max_scored_cursor.hpp).  *)
(* A cursor is a record                                                    *)
(*   post   the list: document |-> score of its posting, query weight      *)
(*          included (max_scored_cursor.hpp:109)                           *)
(*   max    the largest score of the list           max_score()            *)
(*   low    the largest score of the LOW list of its pair, 0 without pair  *)
(*   short  the length of the shorter list of its pair, 0 without pair     *)
(*   id     the identifier its pair shares          list_id()              *)
(* The position of a cursor, docid(), is the document it stands on, or     *)
(* NumDocs when the list is exhausted.                                     *)
(***************************************************************************)
EXTENDS Integers, Sequences, FiniteSets, SequencesExt

CONSTANTS
  NumDocs,     \* documents of the collection
  WordBits     \* bits of bit_vec_64: 64

ASSUME NumDocsAssumption == NumDocs \in Nat \ {0}

(* Sums over the cursors of a query, which are the positions 1..n of a vector. *)

\* f[1] + ... + f[n]
SumTo(f, n) ==
  LET prefix[i \in 0..n] == IF i = 0 THEN 0 ELSE prefix[i - 1] + f[i]
  IN  prefix[n]

\* The sum of f over the positions S \subseteq 1..n.
SumOver(f, S, n) == SumTo([i \in 1..n |-> IF i \in S THEN f[i] ELSE 0], n)

-----------------------------------------------------------------------------

Docs == 0..(NumDocs - 1)

Posted(c) == DOMAIN c.post

Earliest(S) == CHOOSE d \in S : \A e \in S : d <= e

\* Mutant of FirstGeq: an exhausted list stands beyond max_docid.
FirstGeqBeyondEnd(c, d) ==
  Earliest({p \in Posted(c) : p >= d} \cup {NumDocs + 1})

\* The first document of the list at or after d.
FirstGeq(c, d) == Earliest({p \in Posted(c) : p >= d} \cup {NumDocs})

\* next() and next_geq() of a cursor that stands on p.
NextFrom(c, p) == FirstGeq(c, p + 1)
NextGeq(c, p, d) == IF p < d THEN FirstGeq(c, d) ELSE p

\* Mutant of SafeThreshold: the bound of the cursor's own list is promised.
SafeThresholdOwnBound(c, k) == IF k <= c.short THEN c.max ELSE 0

\* A threshold that k documents are known to beat, 0 when none is known.
SafeThreshold(c, k) == IF k <= c.short THEN c.low ELSE 0

\* prime_heap: the best of the cursors' thresholds.
PrimedThreshold(cs, k) ==
  LET offers == {SafeThreshold(cs[i], k) : i \in DOMAIN cs} \cup {0}
  IN  CHOOSE t \in offers : \A u \in offers : u <= t

\* A bound over some lists and the word of seen_term that goes with it.
NoBound == [bound |-> 0, seen |-> {}]

\* Mutant of AddBound: the second list of a pair adds nothing, even when the first
\* was the LOW one.
AddBoundFirstOnly(sum, c, pairAware) ==
  LET bit == c.id % WordBits
  IN  IF pairAware /\ bit \in sum.seen THEN sum
      ELSE [bound |-> sum.bound + c.max, seen |-> {bit}]

\* One more list in the bound.  bit_vec_64::set assigns the whole word, so only the
\* identifier set last is remembered, and identifiers WordBits apart share a bit.
AddBound(sum, c, pairAware) ==
  LET bit == c.id % WordBits
  IN  IF pairAware /\ bit \in sum.seen
      THEN [sum EXCEPT !.bound = @ + c.max - c.low]
      ELSE [bound |-> sum.bound + c.max, seen |-> {bit}]

\* The bound over the first i lists of the order o, each added to that of those before.
Accumulated(cs, o, i, pairAware) ==
  LET sum[j \in 0..i] ==
        IF j = 0 THEN NoBound ELSE AddBound(sum[j - 1], cs[o[j]], pairAware)
  IN  sum[i]

\* What document d contributes through each cursor, and its full score.
Contribution(cs, d) ==
  [i \in 1..Len(cs) |-> IF d \in Posted(cs[i]) THEN cs[i].post[d] ELSE 0]
FullScore(cs, d) == SumTo(Contribution(cs, d), Len(cs))

\* Cursors over one query's lists, with the bounds of their lists.
IsCursor(c) ==
  /\ Posted(c) \subseteq Docs
  /\ c.max \in Nat /\ c.low \in Nat /\ c.short \in Nat /\ c.id \in Nat
  /\ \A d \in Posted(c) : c.post[d] \in Nat /\ c.post[d] <= c.max

IsQuery(cs) ==
  /\ Len(cs) \in Nat /\ cs = [i \in 1..Len(cs) |-> cs[i]]
  /\ \A i \in 1..Len(cs) : IsCursor(cs[i])

\* The bounds of pairs as split_index leaves them: cursors that share a bit are the
\* lists of one pair, which have no document in common, and the bound subtracted for
\* the second is not above that of either list.
PairBoundsHold(cs) ==
  \A i, j \in 1..Len(cs) :
    /\ cs[i].low <= cs[i].max
    /\ i # j /\ cs[i].id % WordBits = cs[j].id % WordBits
         => cs[i].low = cs[j].low /\ Posted(cs[i]) \cap Posted(cs[j]) = {}

\* What priming counts on: the shorter list of a pair is the HIGH one, and each of
\* its documents scores above the largest score of the LOW one.
PrimingHolds(cs) ==
  \A i \in 1..Len(cs) :
    cs[i].low = 0 \/ Cardinality({d \in Docs : FullScore(cs, d) > cs[i].low}) >= cs[i].short

-----------------------------------------------------------------------------
(* The blocks of a posting list (wand_utils.hpp, static_block_partition).   *)

\* Blocks of `size` postings; each reaches up to the first posting of the next.
StaticBlockPartition(post, size) ==
  LET docs == SetToSortSeq(DOMAIN post, <)
      len == Len(docs)
      count == (len + size - 1) \div size
      inBlock(b) == {i \in 1..len : (i - 1) \div size = b - 1}
      scores(b) == {post[docs[i]] : i \in inBlock(b)}
  IN  [b \in 1..count |->
         [last |-> IF b = count THEN docs[len] ELSE docs[b * size + 1] - 1,
          max  |-> CHOOSE v \in scores(b) : \A w \in scores(b) : w <= v]]

\* The blocks of a list: the first one that reaches a posting bounds its score.
BlocksHold(c, blocks) ==
  /\ Len(blocks) \in Nat \ {0}
  /\ \A b \in 1..Len(blocks) : blocks[b].last \in Nat /\ blocks[b].max \in Nat
  /\ \A d \in Posted(c), b \in 1..Len(blocks) :
       /\ b = Len(blocks) \/ d <= blocks[b].last
       /\ \A a \in 1..(b - 1) : blocks[a].last < d
       => c.post[d] <= blocks[b].max
=============================================================================
