----------------------------- MODULE TopKQueue -----------------------------
(***************************************************************************)
(* The result heap of one query (topk_queue.hpp): at most K scored         *)
(* documents and the score a document must beat to enter.                  *)
(*                                                                         *)
(* The vector kept in min-heap order by std::push_heap and std::pop_heap   *)
(* is the set of its entries.  Which of several entries with the lowest    *)
(* score std::pop_heap removes depends on the heap's layout, and is left   *)
(* open here.  A query offers a document at most once, so no two entries   *)
(* are equal.                                                              *)
(***************************************************************************)
EXTENDS Integers, FiniteSets

CONSTANT K    \* capacity of the queue; the tools reject K = 0

ASSUME KAssumption == K \in Nat \ {0}

VARIABLES
  heap,       \* m_q, the set of entries <<score, document>>
  threshold   \* m_threshold

queueVars == <<heap, threshold>>

QueueInit == heap = {} /\ threshold = 0

WouldEnter(score) == score > threshold

\* Mutant of Lowest: the heap is ordered the other way round.
LowestMaxHeap(entries) == {e \in entries : \A f \in entries : e[1] >= f[1]}

\* The entries std::pop_heap may remove.
Lowest(entries) == {e \in entries : \A f \in entries : e[1] <= f[1]}

\* Mutant of FrontScore: the document of the front entry instead of its score.
FrontScoreDocument(entries) == (CHOOSE e \in Lowest(entries) : TRUE)[2]

\* m_q.front().first
FrontScore(entries) == (CHOOSE e \in Lowest(entries) : TRUE)[1]

Reject(score) == ~WouldEnter(score) /\ UNCHANGED queueVars

\* Mutant of Push: the threshold rises before the queue is full.
PushEarlyThreshold(score, doc) ==
  /\ WouldEnter(score)
  /\ Cardinality(heap) < K
  /\ heap' = heap \cup {<<score, doc>>}
  /\ threshold' = FrontScore(heap')

\* Mutant of Push: a document that cannot enter is pushed while there is room.
PushUnguarded(score, doc) ==
  /\ Cardinality(heap) < K
  /\ heap' = heap \cup {<<score, doc>>}
  /\ threshold' = IF Cardinality(heap) + 1 = K THEN FrontScore(heap') ELSE threshold

Push(score, doc) ==
  /\ WouldEnter(score)
  /\ Cardinality(heap) < K
  /\ heap' = heap \cup {<<score, doc>>}
  /\ threshold' = IF Cardinality(heap) + 1 = K THEN FrontScore(heap') ELSE threshold

PushPop(score, doc) ==
  /\ WouldEnter(score)
  /\ Cardinality(heap) >= K
  /\ LET pushed == heap \cup {<<score, doc>>}
     IN  \E least \in Lowest(pushed) : heap' = pushed \ {least}
  /\ threshold' = FrontScore(heap')

Insert(score, doc) ==
  \/ Reject(score)
  \/ Push(score, doc)
  \/ PushPop(score, doc)

\* Overwrites the threshold: a lower value than the one in force is taken too.
SetThreshold(t) == threshold' = t /\ UNCHANGED heap

Clear == heap' = {} /\ threshold' = 0

\* Entries that do not score above zero are dropped from the sorted result.
Finalize == heap' = {e \in heap : e[1] > 0} /\ UNCHANGED threshold
=============================================================================
