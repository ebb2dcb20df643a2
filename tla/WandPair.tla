------------------------------ MODULE WandPair ------------------------------
(***************************************************************************)
(* A cursor over the two lists of a term, read as one list                 *)
(* (max_scored_paired_cursor.hpp, block_max_scored_paired_cursor.hpp), and *)
(* WAND over such cursors (wand_pair_query.hpp).  A pair is a record       *)
(*   lists  the LOW and the HIGH list, in the order a query names them,    *)
(*          as cursors of one field, post                                  *)
(*   max    the largest score of each, query weight included               *)
(*   same   the term has one list only, which is both                      *)
(* and a position is a record                                              *)
(*   cur    m_current_list, the list whose document is docid()             *)
(*   at     the document each list stands on                               *)
(* A posting scores its impact: the query weight is in the bounds alone.   *)
(*                                                                         *)
(* The bound of a pair is that of its current list, so while the LOW list  *)
(* is the current one the documents from the next one of the HIGH list on  *)
(* are not covered: the search does not pass such a document by the        *)
(* bounds.  A step is one turn of the main loop.                           *)
(***************************************************************************)
EXTENDS PairedIndex, TopKQueue

CONSTANTS
  Workload,    \* the calls: records with a field cursors, a sequence of pairs
  Thresholds   \* initial thresholds a thresholds file may hold

-----------------------------------------------------------------------------
(* The two lists of a term as one cursor.                                  *)

Other(cur) == 3 - cur

\* The list that is behind becomes the current one.
Foremost(pair, p) ==
  IF ~pair.same /\ p.at[p.cur] > p.at[Other(p.cur)] THEN [p EXCEPT !.cur = Other(@)] ELSE p

PairStart(pair) ==
  Foremost(pair, [cur |-> 1, at |-> [l \in 1..2 |-> FirstGeq(pair.lists[l], 0)]])

Docid(p) == p.at[p.cur]

PairNext(pair, p) == Foremost(pair, [p EXCEPT !.at[p.cur] = NextFrom(pair.lists[p.cur], @)])

\* Only the current list moves: the pair may still stand before d.
PairNextGeq(pair, p, d) == Foremost(pair, [p EXCEPT !.at[p.cur] = NextGeq(pair.lists[p.cur], @, d)])

\* next_geq of the cursor with blocks: both lists move.
PairBothGeq(pair, p, d) ==
  Foremost(pair, [p EXCEPT !.at = [l \in 1..2 |-> IF pair.same /\ l # p.cur THEN @[l]
                                               ELSE NextGeq(pair.lists[l], @[l], d)]])

MaxScore(pair, p) == pair.max[p.cur]
Score(pair, p)    == pair.lists[p.cur].post[Docid(p)]

\* Mutant of NonConsideredHigh: the HIGH list is taken for considered.
NonConsideredNone(pair, p) == NumDocs + 1

\* The document of the HIGH list while the bound is that of the LOW one.
NonConsideredHigh(pair, p) == IF pair.same \/ p.cur = 2 THEN NumDocs + 1 ELSE p.at[2]

-----------------------------------------------------------------------------

\* make_scored_paired_cursors; a term of the index has its HIGH list first.
PairOf(lists, weight) ==
  LET high == lists[1]
      low  == lists[Len(lists)]
  IN  [lists |-> <<[post |-> low], [post |-> high]>>,
       max   |-> <<weight * MaxImpact(low), weight * MaxImpact(high)>>,
       same  |-> Len(lists) = 1]

\* One pair per term; a hash map leaves them in any order.
MakePairs(index, weights, numbering) ==
  [i \in DOMAIN index |-> PairOf(index[numbering[i]], weights[numbering[i]])]

\* What document d scores: the impacts of its postings.
ListScore(list, d) == IF d \in Posted(list) THEN list.post[d] ELSE 0
PairScore(pair, d) ==
  IF pair.same THEN ListScore(pair.lists[1], d)
  ELSE ListScore(pair.lists[1], d) + ListScore(pair.lists[2], d)

-----------------------------------------------------------------------------
(* The loop of WAND.                                                       *)

VARIABLES
  call,        \* the call being served, an element of Workload
  pos,         \* the position of each pair
  order,       \* ordered_cursors
  pc,          \* "start", "loop" or "done"
  floor        \* the threshold the search started from (history)

vars == <<heap, threshold, call, pos, order, pc, floor>>

pairs == call.cursors
n == Len(pairs)

DocidsOf(p) == [i \in DOMAIN p |-> Docid(p[i])]
docids == DocidsOf(pos)

\* The orders and moves of WAND, over the documents of the pairs.
W == INSTANCE Wand WITH pos <- docids

-----------------------------------------------------------------------------

\* upper_bound after the first i pairs of the order.
UpperBound(i) == SumTo([j \in 1..n |-> MaxScore(pairs[order[j]], pos[order[j]])], i)

IsPivot(i) ==
  /\ docids[order[i]] < NumDocs
  /\ WouldEnter(UpperBound(i))
  /\ \A j \in 1..(i - 1) : ~WouldEnter(UpperBound(j))

NoPivot == \A i \in 1..n : ~IsPivot(i)

\* min_high_non_considered over the pairs at places I of the order.
MinHigh(I) ==
  Earliest({NonConsideredHigh(pairs[order[i]], pos[order[i]]) : i \in I} \cup {NumDocs + 1})

Unfinished == {i \in 1..n : docids[order[i]] < NumDocs}

-----------------------------------------------------------------------------

Init ==
  /\ call \in Workload
  /\ threshold \in Thresholds
  /\ heap = {}
  /\ pos = [i \in 1..n |-> PairStart(pairs[i])]
  /\ order = [i \in 1..n |-> i]
  /\ pc = "start"
  /\ floor = threshold

ReturnEmpty ==
  /\ pc = "start"
  /\ pairs = << >>
  /\ pc' = "done"
  /\ UNCHANGED <<heap, threshold, call, pos, order, floor>>

Start ==
  /\ pc = "start"
  /\ pairs # << >>
  /\ order' \in W!Sorted(docids)
  /\ pc' = "loop"
  /\ UNCHANGED <<heap, threshold, call, pos, floor>>

\* The pairs at places I that stand before the HIGH document move up to it.
MoveToHigh(I, high) ==
  /\ pos' = [c \in 1..n |-> IF docids[c] < high /\ \E i \in I : order[i] = c
                            THEN PairNextGeq(pairs[c], pos[c], high) ELSE pos[c]]
  /\ order' \in W!Sorted(DocidsOf(pos'))
  /\ UNCHANGED <<heap, threshold, call, pc, floor>>

\* No pivot, but a HIGH list that no bound has considered.
LookAtHigh ==
  /\ pc = "loop"
  /\ NoPivot
  /\ MinHigh(Unfinished) < NumDocs
  /\ MoveToHigh(1..n, MinHigh(Unfinished))

Stop ==
  /\ pc = "loop"
  /\ NoPivot
  /\ MinHigh(Unfinished) >= NumDocs
  /\ pc' = "done"
  /\ UNCHANGED <<heap, threshold, call, pos, order, floor>>

\* A HIGH list has a document before the pivot.
HighBeforePivot(i) ==
  /\ pc = "loop"
  /\ IsPivot(i)
  /\ docids[order[i]] > MinHigh(1..i)
  /\ MoveToHigh(1..(i - 1), MinHigh(1..i))

\* The pairs that stand on document d before any other: they are scored and move on.
Here(d) == {order[i] : i \in {j \in 1..n : \A l \in 1..j : docids[order[l]] = d}}
ScoreHere(d) ==
  SumOver([c \in 1..n |-> IF docids[c] = d THEN Score(pairs[c], pos[c]) ELSE 0], Here(d), n)

Evaluate(i) ==
  LET d == docids[order[i]]
  IN  /\ pc = "loop"
      /\ IsPivot(i)
      /\ d <= MinHigh(1..i)
      /\ docids[order[1]] = d
      /\ Insert(ScoreHere(d), d)
      /\ pos' = [c \in 1..n |-> IF c \in Here(d) THEN PairNext(pairs[c], pos[c]) ELSE pos[c]]
      /\ order' \in W!Sorted(DocidsOf(pos'))
      /\ UNCHANGED <<call, pc, floor>>

AdvanceTo(i, j, target) ==
  LET c == order[j]
  IN  /\ pc = "loop"
      /\ IsPivot(i)
      /\ docids[order[i]] <= MinHigh(1..i)
      /\ docids[order[1]] # docids[order[i]]
      /\ pos' = [pos EXCEPT ![c] = PairNextGeq(pairs[c], @, target)]
      /\ order' = W!BubbleDown(j, DocidsOf(pos'))
      /\ UNCHANGED <<heap, threshold, call, pc, floor>>

\* Mutant of Advance: the last pair behind the pivot is asked for its own document.
AdvanceNowhere(i) ==
  LET j == W!LastBehind(i, docids[order[i]]) IN AdvanceTo(i, j, docids[order[j]])

\* The last pair behind the pivot moves up to its document.
Advance(i) == AdvanceTo(i, W!LastBehind(i, docids[order[i]]), docids[order[i]])

Next ==
  \/ ReturnEmpty \/ Start \/ LookAtHigh \/ Stop
  \/ \E i \in 1..n : HighBeforePivot(i) \/ Evaluate(i) \/ Advance(i)

\* The loop is sequential code that never waits.
Spec == Init /\ [][Next]_vars /\ WF_vars(Next)

-----------------------------------------------------------------------------

\* A document is settled when one of the lists it is in is past it.
Passed(d) ==
  \E c \in 1..n : \E l \in (IF pairs[c].same THEN {1} ELSE 1..2) :
    d \in Posted(pairs[c].lists[l]) /\ pos[c].at[l] > d

Retrieval ==
  INSTANCE RankedRetrieval WITH
    Scores <- Nat,
    relevance <- [d \in Docs |-> SumTo([c \in 1..n |-> PairScore(pairs[c], d)], n)],
    settled <- IF pc = "done" THEN Docs ELSE {d \in Docs : Passed(d)}

\* Over the lists of a split index each step offers a document with its full
\* score, or passes over documents that cannot enter: the bounds of the current
\* lists and the next documents of the HIGH ones together lose nothing.
IsRankedRetrieval == Retrieval!Spec

\* The search ends: in every turn a list moves, though a pair that is moved up to
\* a document may be left standing before it.
SearchEnds == <>(pc = "done")

\* When the search stops the queue holds the exact result above the threshold it
\* started from.
ExactResult == pc = "done" => Retrieval!BestAbove(floor)
=============================================================================
