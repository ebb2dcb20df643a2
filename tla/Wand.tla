-------------------------------- MODULE Wand --------------------------------
(***************************************************************************)
(* WAND over a query's cursors (wand_query.hpp): operator() and its        *)
(* variant pair_aware_wand, each with or without priming.  A step is one   *)
(* turn of the main loop.                                                  *)
(***************************************************************************)
EXTENDS Cursors, TopKQueue

CONSTANTS
  Workload,    \* the calls: records with fields cursors, pairAware, prime
  Thresholds   \* initial thresholds a thresholds file may hold

ASSUME WorkloadAssumption ==
  \A w \in Workload : IsQuery(w.cursors) /\ (w.prime => PrimingHolds(w.cursors))
ASSUME ThresholdsAssumption == Thresholds \subseteq Nat

VARIABLES
  call,        \* the call being served, an element of Workload
  pos,         \* docid() of each cursor
  order,       \* ordered_cursors
  pc,          \* "start", "loop" or "done"
  floor        \* the threshold in force when the loop starts (history)

vars == <<heap, threshold, call, pos, order, pc, floor>>

cursors == call.cursors
n == Len(cursors)

-----------------------------------------------------------------------------

\* The permutations std::sort may leave: it orders by document, ties anyhow.
Sorted(p) ==
  {o \in [1..n -> 1..n] :
     /\ \A i, j \in 1..n : i # j => o[i] # o[j]
     /\ \A i, j \in 1..n : i < j => p[o[i]] <= p[o[j]]}

\* upper_bound after the first i cursors of the order.
UpperBound(i) == Accumulated(cursors, order, i, call.pairAware).bound

\* The place in the order of the first cursor with which the bound can enter.
IsPivot(i) ==
  /\ pos[order[i]] < NumDocs
  /\ WouldEnter(UpperBound(i))
  /\ \A j \in 1..(i - 1) : ~WouldEnter(UpperBound(j))

-----------------------------------------------------------------------------

Init ==
  /\ call \in Workload
  /\ threshold \in Thresholds
  /\ heap = {}
  /\ pos = [i \in 1..n |-> FirstGeq(cursors[i], 0)]
  /\ order = [i \in 1..n |-> i]
  /\ pc = "start"
  /\ floor = threshold

\* No cursors: the query returns before it primes.
ReturnEmpty ==
  /\ pc = "start"
  /\ cursors = <<>>
  /\ pc' = "done"
  /\ UNCHANGED <<heap, threshold, call, pos, order, floor>>

Start ==
  /\ pc = "start"
  /\ cursors # <<>>
  /\ IF call.prime THEN SetThreshold(PrimedThreshold(cursors, K)) ELSE UNCHANGED queueVars
  /\ order' \in Sorted(pos)
  /\ pc' = "loop"
  /\ floor' = threshold'
  /\ UNCHANGED <<call, pos>>

\* All cursors up to the pivot stand on its document: score it and move on.
Evaluate(i) ==
  LET d == pos[order[i]]
      here == {c \in 1..n : pos[c] = d}
  IN  /\ pc = "loop"
      /\ IsPivot(i)
      /\ pos[order[1]] = d
      /\ Insert(SumOver(Contribution(cursors, d), here, n), d)
      /\ pos' = [c \in 1..n |-> IF c \in here THEN NextFrom(cursors[c], d) ELSE pos[c]]
      /\ order' \in Sorted(pos')
      /\ UNCHANGED <<call, pc, floor>>

\* The cursor at place j is bubbled down to place `last`.
MovedTo(j, last) ==
  [i \in 1..n |-> IF i < j \/ i > last THEN order[i]
                  ELSE IF i = last THEN order[j] ELSE order[i + 1]]

\* It stops before the first cursor that it has not overtaken.
BubbleDown(j, p) ==
  MovedTo(j, CHOOSE m \in j..n :
               /\ \A i \in (j + 1)..m : p[order[i]] < p[order[j]]
               /\ m < n => p[order[m + 1]] >= p[order[j]])

\* The last cursor up to place i that is behind document d.
LastBehind(i, d) ==
  CHOOSE j \in 1..i :
    /\ pos[order[j]] # d
    /\ \A l \in (j + 1)..i : pos[order[l]] = d

\* Some cursor is behind the pivot: the last such one moves up to `target`.
AdvanceTo(i, target) ==
  LET j == LastBehind(i, pos[order[i]])
      moved == order[j]
  IN  /\ pc = "loop"
      /\ IsPivot(i)
      /\ pos[order[1]] # pos[order[i]]
      /\ pos' = [pos EXCEPT ![moved] = NextGeq(cursors[moved], @, target)]
      /\ order' = BubbleDown(j, pos')
      /\ UNCHANGED <<heap, threshold, call, pc, floor>>

\* Mutants of Advance: the cursor moves past the pivot's document, or only up to
\* that of the first cursor.
AdvancePastPivot(i) == AdvanceTo(i, pos[order[i]] + 1)
AdvanceToFirst(i) == AdvanceTo(i, pos[order[1]])

\* It moves up to the pivot's document.
Advance(i) == AdvanceTo(i, pos[order[i]])

\* No pivot: the search stops.
Stop ==
  /\ pc = "loop"
  /\ \A i \in 1..n : ~IsPivot(i)
  /\ pc' = "done"
  /\ UNCHANGED <<heap, threshold, call, pos, order, floor>>

Next ==
  \/ ReturnEmpty
  \/ Start
  \/ \E i \in 1..n : Evaluate(i) \/ Advance(i)
  \/ Stop

\* The loop is sequential code that never waits.
Spec == Init /\ [][Next]_vars /\ WF_vars(Next)

-----------------------------------------------------------------------------

\* Type invariant of the WAND loop.
TypeOK ==
  /\ \A i \in 1..n : IsCursor(cursors[i])
  /\ heap \subseteq Nat \X Docs
  /\ threshold \in Nat
  /\ floor \in Nat
  /\ pos \in [1..n -> 0..NumDocs]
  /\ order \in [1..n -> 1..n]
  /\ pc \in {"start", "loop", "done"}

\* A document is settled when a cursor over one of its lists is past it.
Passed(d) == \E c \in 1..n : d \in Posted(cursors[c]) /\ pos[c] > d

\* WAND keeps the promise of every ranked query: each of its steps offers a
\* document with its full score, or passes over documents that cannot enter.
Retrieval ==
  INSTANCE RankedRetrieval WITH
    Scores <- Nat,
    relevance <- [d \in Docs |-> FullScore(cursors, d)],
    settled <- IF pc = "done" THEN Docs ELSE {d \in Docs : Passed(d)}

\* Skipping is rank safe: every step of WAND is a step of a ranked retrieval.
IsRankedRetrieval == Retrieval!Spec

\* When the search stops the queue holds the exact result above the threshold
\* the loop started from, and the exact top K when that is zero or was primed.
ExactResult ==
  pc = "done" =>
    /\ Retrieval!BestAbove(floor)
    /\ call.prime \/ floor = 0 => Retrieval!BestAbove(0)

\* The bound accumulated over the first cursors covers every document whose
\* lists are all among them, in whichever order a pair's lists are met.
BoundCoversDocuments ==
  pc = "loop" =>
    \A i \in 0..n : \A d \in Docs :
      (\A c \in 1..n : d \in Posted(cursors[c]) => \E j \in 1..i : order[j] = c)
        => FullScore(cursors, d) <= UpperBound(i)

\* The search ends: every turn of the loop moves a cursor forward.
SearchEnds == <>(pc = "done")
=============================================================================
