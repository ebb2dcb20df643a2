----------------------------- MODULE SafeQuery -----------------------------
(***************************************************************************)
(* One query of the query benchmark (tools/queries.cpp, op_perftest and    *)
(* the query functions it calls): the query runs from a threshold read     *)
(* from a file, which may be wrong, and with --safe a run that returns too *)
(* few results is repeated from threshold zero with a queue of its own.    *)
(***************************************************************************)
EXTENDS RankedRetrieval

VARIABLES
  safe,     \* the --safe flag
  phase     \* "first" and "rerun" while a query function runs, then "returned"

safeVars == <<vars, safe, phase>>

SafeInit == Init /\ safe \in BOOLEAN /\ phase = "first"

\* A step of the query algorithm.
ScanOffer ==
  /\ phase # "returned"
  /\ \E d \in Docs : Offer(d)
  /\ UNCHANGED <<safe, phase>>

ScanSkip ==
  /\ phase # "returned"
  /\ Prime \/ Skip
  /\ UNCHANGED <<safe, phase>>

Finished == phase # "returned" /\ settled = Docs

\* The results, fewer than K of them, are thrown away with their queue.
RerunFrom(phases) ==
  /\ Finished
  /\ phase \in phases /\ safe /\ Cardinality(heap) < K
  /\ Clear
  /\ floor' = 0
  /\ settled' = {}
  /\ phase' = "rerun"
  /\ UNCHANGED <<relevance, safe>>

\* Mutant of Rerun: a rerun that comes out short is repeated.
RerunForever == RerunFrom({"first", "rerun"})

Rerun == RerunFrom({"first"})

ReturnWith(enough) ==
  /\ Finished
  /\ phase = "rerun" \/ ~safe \/ Cardinality(heap) >= enough
  /\ Finalize
  /\ phase' = "returned"
  /\ UNCHANGED <<relevance, floor, settled, safe>>

\* Mutant of Return: one result too few passes for enough.
ReturnOneShort == ReturnWith(K - 1)

Return == ReturnWith(K)

SafeNext == ScanOffer \/ ScanSkip \/ Rerun \/ Return

\* The loop over a query's postings never pauses: documents keep being settled
\* until none is left, and the query function then returns.
Fairness ==
  /\ WF_safeVars(ScanOffer)
  /\ WF_safeVars(Rerun \/ Return)

SafeSpec == SafeInit /\ [][SafeNext]_safeVars /\ Fairness

-----------------------------------------------------------------------------

\* Type invariant of the benchmark's query loop.
SafeTypeOK ==
  /\ TypeOK
  /\ safe \in BOOLEAN
  /\ phase \in {"first", "rerun", "returned"}

\* --safe repairs every wrong threshold: the results returned are the exact top
\* K, however many documents the first run missed (op_perftest, safe rerun).
SafeIsExact == phase = "returned" /\ safe => BestAbove(0)

\* Without --safe the results are still exact among the documents above the
\* threshold the query ran with.
UnsafeIsExactAboveFloor == phase = "returned" => BestAbove(floor)

\* A query returns: a rerun happens at most once and itself ends.
QueryReturns == <>(phase = "returned")
=============================================================================
