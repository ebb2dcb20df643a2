-------------------------- MODULE RankedRetrieval --------------------------
(***************************************************************************)
(* What every ranked query algorithm promises, whatever its way through    *)
(* the posting lists (wand_query.hpp, maxscore_query.hpp and the others):  *)
(* a document is offered to the queue with its full score, or it is passed *)
(* over because its score cannot beat the threshold in force.  Documents   *)
(* are settled one way or the other, in any order, until none is left.     *)
(***************************************************************************)
EXTENDS TopKQueue

CONSTANTS
  Docs,          \* the documents of the collection
  Scores         \* the values scores and thresholds take

ASSUME DocsAssumption == IsFiniteSet(Docs)
ASSUME ScoresAssumption == Scores \subseteq Nat /\ 0 \in Scores

VARIABLES
  relevance,     \* the full score of every document for the query
  floor,         \* the threshold the retrieval started from
  settled        \* the documents already offered or passed over

vars == <<heap, threshold, relevance, floor, settled>>

Entry(d) == <<relevance[d], d>>

Init ==
  /\ relevance \in [Docs -> Scores]
  /\ floor \in Scores
  /\ heap = {}
  /\ threshold = floor
  /\ settled = {}

\* A priming algorithm starts from a threshold that at least K documents beat.
PrimeSound(t) == t = 0 \/ Cardinality({d \in Docs : relevance[d] > t}) >= K

\* It replaces the threshold before it looks at a document.
Prime ==
  /\ settled = {}
  /\ heap = {}
  /\ threshold' \in Scores
  /\ PrimeSound(threshold')
  /\ floor' = threshold'
  /\ UNCHANGED <<heap, relevance, settled>>

\* The threshold the document leaves behind may rule out others at once.
Offer(d) ==
  /\ d \in Docs \ settled
  /\ Insert(relevance[d], d)
  /\ settled' \in SUBSET Docs
  /\ settled \cup {d} \subseteq settled'
  /\ \A e \in settled' \ (settled \cup {d}) : relevance[e] <= threshold'
  /\ UNCHANGED <<relevance, floor>>

Skip ==
  /\ settled' \in SUBSET Docs
  /\ settled \subseteq settled'
  /\ \A d \in settled' \ settled : ~WouldEnter(relevance[d])
  /\ UNCHANGED <<heap, threshold, relevance, floor>>

Next == Prime \/ (\E d \in Docs : Offer(d)) \/ Skip

Spec == Init /\ [][Next]_vars

-----------------------------------------------------------------------------

TypeOK ==
  /\ relevance \in [Docs -> Scores]
  /\ heap \subseteq Scores \X Docs
  /\ threshold \in Scores
  /\ floor \in Scores
  /\ settled \subseteq Docs

\* The heap holds the K best of the documents that score above the floor, or
\* all of them when there are fewer than K.
BestAbove(bound) ==
  /\ \A e \in heap : e = Entry(e[2]) /\ e[1] > bound
  /\ Cardinality(heap) <= K
  /\ \A d \in Docs :
       relevance[d] > bound /\ Entry(d) \notin heap
         => Cardinality(heap) = K /\ \A e \in heap : e[1] >= relevance[d]

\* Once every document is settled the heap is the exact result above the floor:
\* no document that was passed over or evicted on the way belongs to it.
ExactAboveFloor == settled = Docs => BestAbove(floor)

\* The threshold never falls while documents are being settled, so a document
\* passed over stays outside the result (topk_queue.hpp, insert; a query that is
\* run again starts over with nothing settled).
ThresholdNeverFalls ==
  [][settled # {} /\ settled' # {} => threshold' >= threshold]_vars
=============================================================================
