------------------------------ MODULE MaxScore ------------------------------
(***************************************************************************)
(* MaxScore over a query's cursors (maxscore_query.hpp): operator(),       *)
(* length_sorted_maxscore and pair_aware_maxscore, each with or without    *)
(* priming.  A step of the loop considers one document.                    *)
(***************************************************************************)
EXTENDS Cursors, TopKQueue

CONSTANTS
  Workload,    \* the calls: records with fields cursors, algorithm, prime
  Thresholds   \* initial thresholds a thresholds file may hold

ASSUME WorkloadAssumption ==
  \A w \in Workload : IsQuery(w.cursors) /\ (w.prime => PrimingHolds(w.cursors))
ASSUME ThresholdsAssumption == Thresholds \subseteq Nat

VARIABLES
  call,        \* the call being served, an element of Workload
  pos,         \* docid() of each cursor
  order,       \* the cursors as sorted by the algorithm
  lookup,      \* first_lookup: the first `lookup` lists are the essential ones
  nextDoc,     \* next_docid
  pc,          \* "start", "primed", "loop" or "done"
  floor        \* the threshold after priming (history)

vars == <<heap, threshold, call, pos, order, lookup, nextDoc, pc, floor>>

cursors == call.cursors
n == Len(cursors)

-----------------------------------------------------------------------------

\* sorted_by_bound and sorted_by_length; std::sort leaves ties anyhow.
Before(c, d) ==
  IF call.algorithm = "maxscore" THEN c.max >= d.max
  ELSE Cardinality(Posted(c)) <= Cardinality(Posted(d))

Sorted ==
  {o \in [1..n -> 1..n] :
     /\ \A i, j \in 1..n : i # j => o[i] # o[j]
     /\ \A i, j \in 1..n : i < j => Before(cursors[o[i]], cursors[o[j]])}

\* upper_bounds[i]: the bound of the lists from place i on, accumulated from the
\* last list to the first.
Backwards == [j \in 1..n |-> order[n + 1 - j]]
Bound(i) ==
  Accumulated(cursors, Backwards, n + 1 - i, call.algorithm = "pair_aware_maxscore").bound

\* Mutant of Essential: the first list is given up with no list before it.
EssentialBelowZero(t) ==
  LET enough == {i \in 1..lookup : Bound(i) > t}
  IN  IF enough = {} THEN -1 ELSE CHOOSE i \in enough : \A j \in enough : j <= i

\* Mutant of Essential: a list is given up for its own bound, not for that of the
\* lists from it on.
EssentialOwnBound(t) ==
  LET enough == {i \in 1..lookup : cursors[order[i]].max > t}
  IN  IF enough = {} THEN 0 ELSE CHOOSE i \in enough : \A j \in enough : j <= i

\* update_non_essential_lists: essential lists give up their place from the last
\* one on, as long as they and those after them cannot beat threshold t.
Essential(t) ==
  LET enough == {i \in 1..lookup : Bound(i) > t}
  IN  IF enough = {} THEN 0 ELSE CHOOSE i \in enough : \A j \in enough : j <= i

-----------------------------------------------------------------------------

Init ==
  /\ call \in Workload
  /\ threshold \in Thresholds
  /\ heap = {}
  /\ pos = [i \in 1..n |-> FirstGeq(cursors[i], 0)]
  /\ order = [i \in 1..n |-> i]
  /\ lookup = n
  /\ nextDoc = 0
  /\ pc = "start"
  /\ floor = threshold

\* No cursors: the query returns before it primes.
ReturnEmpty ==
  /\ pc = "start"
  /\ cursors = <<>>
  /\ pc' = "done"
  /\ UNCHANGED <<heap, threshold, call, pos, order, lookup, nextDoc, floor>>

\* The call primes the heap if asked to and sorts the cursors.
Prime ==
  /\ pc = "start"
  /\ cursors # <<>>
  /\ IF call.prime THEN SetThreshold(PrimedThreshold(cursors, K)) ELSE UNCHANGED queueVars
  /\ order' \in Sorted
  /\ pc' = "primed"
  /\ floor' = threshold'
  /\ UNCHANGED <<call, pos, lookup, nextDoc>>

\* run_sorted up to its loop; without an essential list it returns at once.
Begin ==
  /\ pc = "primed"
  /\ lookup' = Essential(threshold)
  /\ nextDoc' = Earliest({pos[c] : c \in 1..n})
  /\ pc' = IF lookup' = 0 THEN "done" ELSE "loop"
  /\ UNCHANGED <<heap, threshold, call, pos, order, floor>>

-----------------------------------------------------------------------------

\* Whether the list at place i stands on nextDoc when its turn comes: the
\* essential lists as they are, a lookup list after next_geq.
Stands(i) ==
  LET c == order[i]
  IN  IF i <= lookup THEN pos[c] = nextDoc
      ELSE NextGeq(cursors[c], pos[c], nextDoc) = nextDoc

\* The score of nextDoc in the lists at the first i places.
CurrentScore(i) ==
  SumOver([j \in 1..n |-> Contribution(cursors, nextDoc)[order[j]]],
          {j \in 1..i : Stands(j)}, n)

\* Mutant of Promising: the bound leaves out the list about to be looked up.
PromisingWithoutOwn(i) == WouldEnter(CurrentScore(i - 1) + Bound(i + 1))

\* Before the lookup of list i the document can still enter.
Promising(i) == WouldEnter(CurrentScore(i - 1) + Bound(i))

\* The essential lists move past nextDoc, and the lookup lists before place
\* `until` move up to it.
MovePostings(until) ==
  pos' = [c \in 1..n |->
    LET i == CHOOSE j \in 1..n : order[j] = c
    IN  IF i <= lookup
        THEN IF pos[c] = nextDoc THEN NextFrom(cursors[c], pos[c]) ELSE pos[c]
        ELSE IF i < until THEN NextGeq(cursors[c], pos[c], nextDoc) ELSE pos[c]]

\* Mutants of MoveCursors: next_docid is read before the cursors move, or they do not
\* move.
MoveCursorsStale(until) ==
  MovePostings(until) /\ nextDoc' = Earliest({pos[order[i]] : i \in 1..lookup} \cup {NumDocs})
MoveCursorsNever(until) == UNCHANGED <<pos, nextDoc>>

\* next_docid is the first document ahead in an essential list.
MoveCursors(until) ==
  MovePostings(until) /\ nextDoc' = Earliest({pos'[order[i]] : i \in 1..lookup} \cup {NumDocs})

\* A lookup shows that the document cannot enter.
SkipDocument ==
  /\ pc = "loop"
  /\ nextDoc < NumDocs
  /\ \E i \in (lookup + 1)..n :
       /\ ~Promising(i)
       /\ \A j \in (lookup + 1)..(i - 1) : Promising(j)
       /\ MoveCursors(i)
  /\ UNCHANGED <<heap, threshold, call, order, lookup, pc, floor>>

\* The document is fully scored and offered; if it enters, fewer lists may be
\* essential, and with none left the query returns.
InsertDocument ==
  /\ pc = "loop"
  /\ nextDoc < NumDocs
  /\ \A i \in (lookup + 1)..n : Promising(i)
  /\ Insert(CurrentScore(n), nextDoc)
  /\ MoveCursors(n + 1)
  /\ lookup' = IF WouldEnter(CurrentScore(n)) THEN Essential(threshold') ELSE lookup
  /\ pc' = IF lookup' = 0 THEN "done" ELSE "loop"
  /\ UNCHANGED <<call, order, floor>>

\* The essential lists are exhausted.
Stop ==
  /\ pc = "loop"
  /\ nextDoc >= NumDocs
  /\ pc' = "done"
  /\ UNCHANGED <<heap, threshold, call, pos, order, lookup, nextDoc, floor>>

Next == ReturnEmpty \/ Prime \/ Begin \/ SkipDocument \/ InsertDocument \/ Stop

\* The loop is sequential code that never waits.
Spec == Init /\ [][Next]_vars /\ WF_vars(Next)

-----------------------------------------------------------------------------

\* Type invariant of the MaxScore loop.
TypeOK ==
  /\ \A i \in 1..n : IsCursor(cursors[i])
  /\ heap \subseteq Nat \X Docs
  /\ threshold \in Nat
  /\ floor \in Nat
  /\ pos \in [1..n -> 0..NumDocs]
  /\ order \in [1..n -> 1..n]
  /\ lookup \in 0..n
  /\ nextDoc \in 0..NumDocs
  /\ pc \in {"start", "primed", "loop", "done"}

\* MaxScore keeps the promise of every ranked query: documents are considered in
\* order, and those only in non-essential lists are passed over.
Retrieval ==
  INSTANCE RankedRetrieval WITH
    Scores <- Nat,
    relevance <- [d \in Docs |-> FullScore(cursors, d)],
    settled <- IF pc = "done" THEN Docs ELSE {d \in Docs : d < nextDoc}

\* Skipping is rank safe: every step of MaxScore is a step of a ranked retrieval.
IsRankedRetrieval == Retrieval!Spec

\* When the query returns the queue holds the exact result above the threshold
\* it started from, and the exact top K when that is zero or was primed.
ExactResult ==
  pc = "done" =>
    /\ Retrieval!BestAbove(floor)
    /\ call.prime \/ floor = 0 => Retrieval!BestAbove(0)

\* A document that is left has a posting ahead in an essential list, or its
\* lists are all non-essential and it cannot enter: lists are only given up when
\* what they hold together cannot beat the threshold.
NonEssentialCannotEnter ==
  pc = "loop" =>
    \A d \in Docs :
      nextDoc <= d /\ (\A i \in 1..lookup : d \notin Posted(cursors[order[i]]))
        => ~WouldEnter(FullScore(cursors, d))

\* No posting of an essential list is jumped: the essential cursors stand on
\* their first posting at or after nextDoc.
EssentialCursorsInStep ==
  pc = "loop" =>
    \A i \in 1..lookup :
      LET c == order[i] IN pos[c] = FirstGeq(cursors[c], nextDoc)

\* The query returns.
QueryEnds == <>(pc = "done")
=============================================================================
