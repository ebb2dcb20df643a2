------------------------------ MODULE QueryRun -------------------------------
(***************************************************************************)
(* The queries that use no bound on a list, and their state.  The threads  *)
(* of evaluate_queries.cpp answer the queries of a batch at the same time, *)
(* and this is one of them, with a query after the other.  Each query has  *)
(* a queue and cursors of its own, but the term-at-a-time ones have one    *)
(* accumulator for all threads, which nothing guards: what the others do   *)
(* to it is Interfere.  range_query and range_taat_query run an algorithm  *)
(* on one range of documents after the other: it stops at the first        *)
(* document that is not below limit, and begins again where the cursors    *)
(* stand.                                                                  *)
(***************************************************************************)
EXTENDS Cursors, TopKQueue

CONSTANTS
  Workload,     \* records of an algorithm, cursors, their blocks, a range size (0: none),
                \* the number of cursors that are on HIGH lists, and of threads at work
  Thresholds,   \* initial thresholds
  Queries,      \* how many queries of a term-at-a-time batch this thread answers
  Size,         \* documents that have an accumulator
  Cycle,        \* values of a counter: 2^counter_bit_size
  PerBlock,     \* counters_in_descriptor
  Leftovers     \* sums that writes of several threads may leave

\* The queries of the tools, over lists of the collection; the blocks of a list end
\* with its last posting.
ASSUME WorkloadAssumption ==
  \A w \in Workload :
    /\ IsQuery(w.cursors)
    /\ w.range \in Nat /\ w.high \in 0..Len(w.cursors) /\ w.workers \in Nat \ {0}
    /\ w.algorithm = "block_max_ranked_and" =>
         \A c \in 1..Len(w.cursors) :
           /\ BlocksHold(w.cursors[c], w.blocks[c])
           /\ \A d \in Posted(w.cursors[c]) : d <= w.blocks[c][Len(w.blocks[c])].last

ASSUME ThresholdsAssumption == Thresholds \subseteq Nat

\* Every document has an accumulator.
ASSUME AccumulatorsAssumption ==
  /\ Size \in Nat /\ Size >= NumDocs
  /\ Cycle \in Nat \ {0} /\ PerBlock \in Nat \ {0}
  /\ Leftovers \subseteq Nat

VARIABLES
  call,         \* the call being served, an element of Workload
  served,       \* the queries answered before
  pos,          \* docid() of each cursor
  block,        \* the block each block enumerator stands on
  order,        \* ordered_cursors
  limit,        \* max_docid of the algorithm: where the range ends
  candidate,    \* candidate, cur_doc; in aggregate docid
  list,         \* the place in the order of the next list to look at
  results,      \* results of the Boolean queries; scored_documents
  acc,          \* the accumulator, of all threads
  pc,           \* "begin", "scan", "aggregate" or "answered"
  floor         \* the threshold the query started from (history)

scanVars == <<pos, block, order, limit, candidate, list, results>>
vars     == <<heap, threshold, call, served, scanVars, acc, pc, floor>>

cursors == call.cursors
n == Len(cursors)
Alg(names) == call.algorithm \in names

LeastOf(p, C) == Earliest({p[c] : c \in C} \cup {NumDocs})

-----------------------------------------------------------------------------
(***************************************************************************)
(* The accumulators of term-at-a-time queries, kept from one query to the  *)
(* next (simple_accumulator.hpp, lazy_accumulator.hpp).  The lazy one      *)
(* clears a document's accumulator when a query first adds to it: each     *)
(* document has a counter, and what is accumulated counts in the query     *)
(* whose counter it carries.  Counters wrap, and all of it is cleared in   *)
(* the query that begins a cycle.                                          *)
(***************************************************************************)

\* The accumulators of the lazy one fill whole blocks.
Slots(kind) == IF kind = "simple" THEN 0..(Size - 1)
               ELSE 0..(((Size + PerBlock - 1) \div PerBlock) * PerBlock - 1)

Cleared(kind, counter) ==
  [kind |-> kind, counter |-> counter,
   sums |-> [d \in Slots(kind) |-> 0], counters |-> [d \in Slots(kind) |-> 0]]

New(kind) == Cleared(kind, 0)

\* Mutant of InitAccumulator: nothing is cleared when the counter wraps.
InitNever(a) == a

InitAccumulator(a) ==
  IF a.kind = "simple" \/ a.counter = 0 THEN Cleared(a.kind, a.counter) ELSE a

\* What aggregate offers of document d, 0 when this query has not touched it.
AccumulatedScore(a, d) == IF a.counters[d] = a.counter THEN a.sums[d] ELSE 0

Accumulate(a, d, score) ==
  [kind |-> a.kind, counter |-> a.counter,
   sums |-> [a.sums EXCEPT ![d] = AccumulatedScore(a, d) + score],
   counters |-> [a.counters EXCEPT ![d] = a.counter]]

\* The end of aggregate.
NextCounter(a) ==
  IF a.kind = "simple" THEN a
  ELSE [kind |-> a.kind, counter |-> (a.counter + 1) % Cycle,
        sums |-> a.sums, counters |-> a.counters]

-----------------------------------------------------------------------------

\* The ends of the ranges: all but the last, of range_size documents.
RangeAfter(c, end) ==
  IF c.range = 0 \/ end + 2 * c.range >= NumDocs THEN NumDocs ELSE end + c.range

TermAtATime == {"taat_simple", "taat_lazy"}

Unranked == {"or", "and", "scored_and"}

\* range_query clears the queue and the threshold with it, range_taat_query does not.
StartingFrom(c, t) ==
  IF c.algorithm \in Unranked \/ (c.range # 0 /\ c.algorithm \notin TermAtATime) THEN 0 ELSE t

Postings(c)  == [i \in DOMAIN c.cursors |-> FirstGeq(c.cursors[i], 0)]
FirstBlocks(c) == [i \in DOMAIN c.cursors |-> 1]
InOrder(c)   == [i \in DOMAIN c.cursors |-> i]
Begin(c)     == IF c.cursors = << >> THEN "answered" ELSE "begin"

Init ==
  /\ call \in Workload
  /\ \E t \in Thresholds : threshold = StartingFrom(call, t) /\ floor = StartingFrom(call, t)
  /\ heap = {} /\ results = << >>
  /\ pos = Postings(call) /\ block = FirstBlocks(call) /\ order = InOrder(call)
  /\ limit = RangeAfter(call, 0) /\ candidate = 0 /\ list = 1
  /\ acc = New(IF Alg({"taat_simple"}) THEN "simple" ELSE "lazy")
  /\ served = 0
  /\ pc = Begin(call)

\* The calls that share an accumulator, and those of a batch.
TermAtATimeCalls == {c \in Workload : c.algorithm \in TermAtATime}

Session ==
  {c \in TermAtATimeCalls :
     c.algorithm = call.algorithm /\ c.range = call.range /\ c.workers = call.workers}

\* The thread turns to another query: a queue and cursors of its own, the accumulator
\* as it is.
NextQuery ==
  /\ pc = "answered"
  /\ Alg(TermAtATime)
  /\ served + 1 < Queries
  /\ served' = served + 1
  /\ call' \in Session
  /\ \E t \in Thresholds : threshold' = StartingFrom(call', t) /\ floor' = StartingFrom(call', t)
  /\ heap' = {} /\ results' = << >>
  /\ pos' = Postings(call') /\ block' = FirstBlocks(call') /\ order' = InOrder(call')
  /\ limit' = RangeAfter(call', 0) /\ candidate' = 0 /\ list' = 1
  /\ pc' = Begin(call')
  /\ UNCHANGED acc

\* The documents whose accumulators the batch writes to.
Touched == UNION {UNION {Posted(cursor) : cursor \in Range(c.cursors)} : c \in Session}

Counters == IF acc.kind = "simple" THEN {0} ELSE 0..(Cycle - 1)

\* Other threads run init, accumulate and aggregate of their queries on the accumulator,
\* at any time and between the reads and writes of this one: a data race, in which
\* sums, counters and the counter of the query may come out as anything written.
Interfere ==
  /\ Alg(TermAtATime)
  /\ call.workers > 1
  /\ \E d \in Touched, sum \in Leftovers, counter, now \in Counters :
       acc' = [acc EXCEPT !.sums[d] = sum, !.counters[d] = counter, !.counter = now]
  /\ UNCHANGED <<queueVars, call, served, scanVars, pc, floor>>

\* The algorithm has come to its limit.
EndRange ==
  /\ limit' = IF limit = NumDocs THEN limit ELSE RangeAfter(call, limit)
  /\ pc' = IF limit = NumDocs THEN "answered" ELSE "begin"
=============================================================================
