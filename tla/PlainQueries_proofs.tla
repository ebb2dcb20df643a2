------------------------- MODULE PlainQueries_proofs -------------------------
(***************************************************************************)
(* Proofs about PlainQueries: queries are answered exactly, for every      *)
(* collection, workload, range size and session of queries, if no other    *)
(* thread writes to their accumulator; and what waves answer.  Each kind   *)
(* of algorithm has its own account of the documents that are done with:   *)
(* the exhaustive ones work up to a document, term at a time fills an      *)
(* accumulator for a range of them, and conjunctions leave behind what no  *)
(* cursor and no candidate can come to again.                              *)
(***************************************************************************)
EXTENDS PlainQueries, Cursors_proofs

-----------------------------------------------------------------------------
(* The inductive invariant: what has been answered so far.                 *)

Boolean == Alg(Unranked)

\* A Boolean query lists a document, with its score if it is scored.
Row(d) == IF Alg({"scored_and"}) THEN <<d, FullScore(cursors, d)>> ELSE d
DocOf(row) == IF Alg({"scored_and"}) THEN row[1] ELSE row

\* The answer holds d: in the list of results, or in the queue.
Held(d) ==
  IF Boolean THEN \E i \in 1..Len(results) : DocOf(results[i]) = d ELSE <<Worth[d], d>> \in heap

\* Nothing more has to be done about d.
Answered(d) == IF Boolean THEN d \in Matches => Held(d) ELSE Held(d) \/ Worth[d] <= threshold

\* The results of a Boolean query, in the order of documents.
ListInv ==
  /\ results \in Seq({Row(d) : d \in Matches})
  /\ \A i, j \in 1..Len(results) : i < j => DocOf(results[i]) < DocOf(results[j])

\* The queue of a ranked query.
BestInv ==
  /\ heap \subseteq Nat \X Docs
  /\ IsFiniteSet(heap) /\ Cardinality(heap) <= K
  /\ \A e \in heap : e = <<Worth[e[2]], e[2]>> /\ e[1] > floor
  /\ threshold >= floor
  /\ Cardinality(heap) < K => threshold = floor
  /\ Cardinality(heap) = K => \A e \in heap : e[1] >= threshold

OutputInv == IF Boolean THEN ListInv ELSE BestInv

RunInv ==
  /\ call \in Workload
  /\ threshold \in Nat /\ floor \in Nat
  /\ pos \in [1..n -> 0..NumDocs]
  /\ limit \in 0..NumDocs /\ candidate \in Nat /\ list \in Nat \ {0}
  /\ pc \in {"begin", "scan", "aggregate", "answered"}
  /\ n = 0 => pc = "answered"
  /\ pc = "aggregate" => Alg(TermAtATime)
  /\ pc = "answered" => \A d \in Docs : Answered(d)

\* All documents before `from` are done with, and no other is held.
DoneBefore(from) == \A d \in Docs : (d < from => Answered(d)) /\ (Held(d) => d < from)

\* The exhaustive algorithms work up to a document, where the cursors stand they take
\* their documents from; the others of a wave may lag behind.
Frontier(from) ==
  /\ DoneBefore(from)
  /\ \A c \in Leading : pos[c] = FirstGeq(cursors[c], from)
  /\ \A c \in 1..n : \E m \in 0..from : pos[c] = FirstGeq(cursors[c], m)

DisjunctionInv ==
  Alg(DocumentAtATime \cup {"wave"}) /\ pc \in {"begin", "scan"} =>
    /\ \E from \in 0..NumDocs : Frontier(from)
    /\ pc = "scan" => \/ candidate = LeastOf(pos, Leading)
                      \/ /\ Alg(DocumentAtATime)
                         /\ candidate = limit /\ limit <= LeastOf(pos, Leading)

\* The accumulator between queries and in one: counters from the future or, when
\* accumulators are about to be filled, of the present would make stale sums count.
AccumulatorInv ==
  Alg(TermAtATime) =>
    /\ acc.kind \in {"simple", "lazy"}
    /\ acc.counter \in 0..(Cycle - 1)
    /\ acc.sums \in [Slots(acc.kind) -> Nat] /\ acc.counters \in [Slots(acc.kind) -> Nat]
    /\ acc.kind = "simple" => acc.counter = 0
    /\ \A d \in Slots(acc.kind) :
         IF pc \in {"begin", "answered"}
         THEN acc.kind = "simple" \/ acc.counter = 0 \/ acc.counters[d] < acc.counter
         ELSE acc.counters[d] <= acc.counter

\* The lists before the present one have been accumulated up to limit.
Summed(from) ==
  /\ \A c \in 1..n : c < list => pos[c] = FirstGeq(cursors[c], limit)
  /\ \A c \in 1..n : c > list => pos[c] = FirstGeq(cursors[c], from)
  /\ list <= n => \E m \in from..limit : pos[list] = FirstGeq(cursors[list], m)
  /\ \A d \in Slots(acc.kind) :
       AccumulatedScore(acc, d) =
         IF d \in from..(limit - 1)
         THEN SumOver(Contribution(cursors, d), {c \in 1..n : d < pos[c]}, n) ELSE 0

\* Of the range of an aggregation, the documents before the candidate are done with.
InPart(d, from) == d < from \/ (d < limit /\ d < candidate)

Aggregated(from) ==
  /\ \A c \in 1..n : pos[c] = FirstGeq(cursors[c], limit)
  /\ \A d \in Docs : (InPart(d, from) => Answered(d)) /\ (Held(d) => InPart(d, from))
  /\ \A d \in Slots(acc.kind) :
       AccumulatedScore(acc, d) = IF d \in from..(limit - 1) THEN FullScore(cursors, d) ELSE 0

RangeInv ==
  Alg(TermAtATime) /\ pc # "answered" =>
    \E from \in 0..limit :
      CASE pc = "begin" -> DoneBefore(from) /\ \A c \in 1..n : pos[c] = FirstGeq(cursors[c], from)
        [] pc = "scan"  -> DoneBefore(from) /\ Summed(from)
        [] OTHER        -> Aggregated(from)

\* What a conjunction still has to find is behind no cursor and, in the range, not
\* behind the candidate nor behind a block.
ConjunctionInv ==
  Alg(Conjunctions) /\ pc \in {"begin", "scan"} =>
    /\ \A c \in 1..n : pos[c] < NumDocs => pos[c] \in Posted(cursors[c])
    /\ \A d \in Docs : Held(d) => \E c \in 1..n : d < pos[c]
    /\ \A d \in Matches : ~ Answered(d) =>
         /\ \A c \in 1..n : pos[c] <= d
         /\ pc = "scan" => candidate <= d \/ limit <= d
    /\ pc = "scan" => /\ order \in BySize /\ list \in {1, 2}
                      /\ list = 2 => pos[order[1]] = candidate

BlocksInv ==
  Alg(WithBlocks) /\ pc \in {"begin", "scan"} =>
    \A c \in 1..n :
      /\ block[c] \in 1..Len(call.blocks[c])
      /\ \A d \in Matches : ~ Answered(d) =>
           \A a \in 1..(block[c] - 1) : call.blocks[c][a].last < d

SessionInv ==
  /\ RunInv /\ OutputInv
  /\ DisjunctionInv /\ AccumulatorInv /\ RangeInv /\ ConjunctionInv /\ BlocksInv

-----------------------------------------------------------------------------
(* The query and its documents.                                            *)

LEMMA QueryIs ==
  ASSUME call \in Workload
  PROVE  /\ n \in Nat /\ n = Len(cursors) /\ IsQuery(cursors)
         /\ \A c \in 1..n : IsCursor(cursors[c]) /\ Posted(cursors[c]) \subseteq Docs
         /\ call.range \in Nat /\ call.high \in 0..n
         /\ Leading \subseteq 1..n
<1>1. /\ n \in Nat /\ n = Len(cursors) /\ IsQuery(cursors) /\ call.range \in Nat
      /\ \A c \in 1..n : IsCursor(cursors[c]) /\ Posted(cursors[c]) \subseteq Docs
  BY WorkloadAssumption DEF IsQuery, IsCursor, cursors, n
<1>2. call.high \in 0..n
  BY WorkloadAssumption DEF cursors, n
<1>3. 1..call.high \subseteq 1..n
  BY <1>1, <1>2
<1> QED  BY <1>1, <1>2, <1>3 DEF Leading

LEMMA DocIs == \A d : d \in Docs <=> d \in Nat /\ d < NumDocs
BY NumDocsAssumption DEF Docs

\* A match is on a list, and its worth is its full score; no other document is worth
\* anything.
LEMMA MatchIs ==
  ASSUME call \in Workload, NEW d \in Docs
  PROVE  /\ Worth[d] \in Nat
         /\ d \notin Matches => Worth[d] = 0
         /\ d \in Matches => Worth[d] = FullScore(cursors, d) /\ n # 0
         /\ d \in Matches <=>
              n # 0 /\ IF Alg(Conjunctions) THEN \A c \in 1..n : d \in Posted(cursors[c])
                       ELSE \E c \in Leading : d \in Posted(cursors[c])
         /\ FullScore(cursors, d) \in Nat
<1>1. FullScore(cursors, d) \in Nat
  <2>1. \A i \in 1..Len(cursors) : d \in Posted(cursors[i]) => i \in 1..Len(cursors)
    OBVIOUS
  <2>2. Len(cursors) \in Nat /\ \A i \in 1..Len(cursors) : IsCursor(cursors[i])
    BY QueryIs
  <2> QED  BY <2>1, <2>2, FullScoreOver
<1>2. Worth[d] = IF d \in Matches THEN FullScore(cursors, d) ELSE 0
  BY DEF Worth
<1>3. d \in Matches <=>
        n # 0 /\ IF Alg(Conjunctions) THEN \A c \in 1..n : d \in Posted(cursors[c])
                 ELSE \E c \in Leading : d \in Posted(cursors[c])
  BY DEF Matches
<1> QED  BY <1>1, <1>2, <1>3

\* What an exhaustive query that takes documents from all its lists finds a document
\* worth is its full score.
LEMMA WorthIsFull ==
  ASSUME call \in Workload, NEW d \in Docs, ~ Alg(Conjunctions), Leading = 1..n
  PROVE  Worth[d] = FullScore(cursors, d)
<1>1. CASE d \in Matches
  BY <1>1, MatchIs
<1>2. CASE d \notin Matches
  <2>1. Worth[d] = 0
    BY <1>2, MatchIs
  <2>2. n \in Nat /\ n = Len(cursors) /\ \A i \in 1..Len(cursors) : IsCursor(cursors[i])
    BY QueryIs
  <2>3. \A i \in 1..Len(cursors) : d \in Posted(cursors[i]) => i \in {}
    BY <1>2, <2>2, MatchIs
  <2>4. FullScore(cursors, d) = SumOver(Contribution(cursors, d), {}, Len(cursors))
    BY <2>2, <2>3, FullScoreOver
  <2>5. NatsTo(Contribution(cursors, d), Len(cursors))
    BY <2>2, ContributionNat
  <2> QED  BY <2>1, <2>2, <2>4, <2>5, SumOverEmpty
<1> QED  BY <1>1, <1>2

LEMMA RowIsOf == \A d : DocOf(Row(d)) = d
BY DEF Row, DocOf

-----------------------------------------------------------------------------
(* Answering a document.                                                   *)

\* A nonempty set of entries has a front: the lowest score in it.
LEMMA FrontIsLowest ==
  ASSUME NEW q, q \subseteq Nat \X Docs, q # {}
  PROVE  /\ FrontScore(q) \in {e[1] : e \in q}
         /\ \A e \in q : FrontScore(q) <= e[1]
<1> DEFINE S == {e[1] : e \in q}
<1>1. S \subseteq Nat /\ S # {}
  OBVIOUS
<1>2. PICK m \in S : \A k \in S : m <= k
  BY <1>1, LeastNat
<1>3. PICK e \in q : e[1] = m
  OBVIOUS
<1>4. e \in Lowest(q)
  BY <1>2, <1>3 DEF Lowest
<1>5. PICK f \in Lowest(q) : FrontScore(q) = f[1]
  BY <1>4 DEF FrontScore
<1> QED  BY <1>4, <1>5 DEF Lowest

\* A document that is worth nothing changes nothing.
LEMMA NothingOffered ==
  ASSUME threshold \in Nat, NEW d, Insert(0, d)
  PROVE  UNCHANGED queueVars
<1>1. ~ WouldEnter(0)
  BY DEF WouldEnter
<1> QED  BY <1>1 DEF Insert, Reject, Push, PushPop

\* The query stays the same, and with it what its documents are worth.
LEMMA SameQuery ==
  ASSUME UNCHANGED call
  PROVE  /\ n' = n /\ cursors' = cursors /\ Matches' = Matches /\ Worth' = Worth
         /\ Leading' = Leading /\ Boolean' = Boolean
         /\ \A names : Alg(names)' <=> Alg(names)
         /\ \A d : Row(d)' = Row(d) /\ DocOf(d)' = DocOf(d)
<1>1. n' = n /\ cursors' = cursors /\ Leading' = Leading /\ Boolean' = Boolean
      /\ \A names : Alg(names)' <=> Alg(names)
  BY DEF n, cursors, Leading, Boolean, Alg
<1>2. Matches' = Matches
  BY <1>1 DEF Matches, Alg
<1>3. Worth' = Worth
  BY <1>1, <1>2 DEF Worth
<1>4. \A d : Row(d)' = Row(d) /\ DocOf(d)' = DocOf(d)
  BY <1>1 DEF Row, DocOf, Alg
<1> QED  BY <1>1, <1>2, <1>3, <1>4

\* What a step may do to the answer when it is done with document d.
Gives(d) ==
  /\ OutputInv' /\ threshold' \in Nat
  /\ \A e \in Docs : Answered(e) \/ e = d => Answered(e)'
  /\ \A e \in Docs : Held(e)' => Held(e) \/ e = d

\* An answer that is left alone.
LEMMA SameAnswer ==
  ASSUME UNCHANGED <<call, queueVars, floor>>, UNCHANGED results \/ ~ Boolean
  PROVE  /\ OutputInv => OutputInv'
         /\ \A d : Held(d)' <=> Held(d)
         /\ \A d : Answered(d)' <=> Answered(d)
<1>1. /\ Matches' = Matches /\ Worth' = Worth /\ Boolean' = Boolean
      /\ \A d : Row(d)' = Row(d) /\ DocOf(d)' = DocOf(d)
  BY SameQuery
<1>2. UNCHANGED <<heap, threshold>>
  BY DEF queueVars
<1>3. \A d : Held(d)' <=> Held(d)
  BY <1>1, <1>2 DEF Held
<1>4. \A d : Answered(d)' <=> Answered(d)
  BY <1>1, <1>2, <1>3 DEF Answered
<1>5. BestInv => BestInv'
  BY <1>1, <1>2 DEF BestInv
<1>6. UNCHANGED results /\ ListInv => ListInv'
  BY <1>1 DEF ListInv
<1> QED  BY <1>1, <1>3, <1>4, <1>5, <1>6 DEF OutputInv

\* A Boolean query lists a match behind those listed before.
LEMMA ListGives ==
  ASSUME Boolean, OutputInv, threshold \in Nat, UNCHANGED <<call, queueVars>>,
         NEW d \in Matches, d \in Docs, \A e \in Docs : Held(e) => e < d,
         results' = Append(results, Row(d))
  PROVE  Gives(d)
<1> DEFINE Rows == {Row(e) : e \in Matches}
           len == Len(results)
<1>1. /\ Matches' = Matches /\ Boolean' = Boolean
      /\ \A e : Row(e)' = Row(e) /\ DocOf(e)' = DocOf(e)
  BY SameQuery
<1>2. results \in Seq(Rows) /\ Row(d) \in Rows
      /\ \A i, j \in 1..len : i < j => DocOf(results[i]) < DocOf(results[j])
  BY DEF OutputInv, ListInv
<1>3. results' \in Seq(Rows) /\ len \in Nat /\ Len(results') = len + 1
      /\ results'[len + 1] = Row(d) /\ \A i \in 1..len : results'[i] = results[i]
  BY <1>2
<1>4. \A i \in 1..len : DocOf(results[i]) \in Docs
  <2> TAKE i \in 1..len
  <2>1. results[i] \in Rows
    BY <1>2
  <2>2. PICK e \in Matches : results[i] = Row(e)
    BY <2>1
  <2>3. Matches \subseteq Docs
    BY DEF Matches
  <2> QED  BY <2>2, <2>3, RowIsOf
<1>5. \A i \in 1..len : DocOf(results[i]) < d
  BY <1>4 DEF Held
<1>6. DocOf(results'[len + 1]) = d
  BY <1>3, RowIsOf
<1>7. \A e : Held(e)' <=> \E i \in 1..(len + 1) : DocOf(results'[i]) = e
  BY <1>1, <1>3 DEF Held
<1>8. ASSUME NEW e PROVE Held(e)' <=> Held(e) \/ e = d
  <2>1. Held(e) <=> \E i \in 1..len : DocOf(results[i]) = e
    BY DEF Held
  <2>2. 1..(len + 1) = (1..len) \cup {len + 1}
    BY <1>3
  <2> HIDE DEF len
  <2> QED  BY <1>3, <1>6, <1>7, <2>1, <2>2
<1>9. ListInv'
  <2>1. Rows' = Rows
    BY <1>1
  <2>2. ASSUME NEW i \in 1..(len + 1), NEW j \in 1..(len + 1), i < j
        PROVE  DocOf(results'[i]) < DocOf(results'[j])
    <3>1. i \in 1..len /\ (j \in 1..len \/ j = len + 1)
      BY <1>3, <2>2
    <3>2. CASE j \in 1..len
      BY <1>2, <1>3, <2>2, <3>1, <3>2
    <3>3. CASE j = len + 1
      BY <1>3, <1>5, <1>6, <3>1, <3>3
    <3> QED  BY <3>1, <3>2, <3>3
  <2>3. \A i, j \in 1..Len(results') : i < j => DocOf(results'[i]) < DocOf(results'[j])
    BY <1>3, <2>2
  <2>4. results' \in Seq({Row(e) : e \in Matches}')
    BY <1>3, <2>1
  <2> HIDE DEF Rows
  <2> QED  BY <1>1, <2>3, <2>4 DEF ListInv
<1>10. threshold' \in Nat
  BY DEF queueVars
<1> QED  BY <1>1, <1>8, <1>9, <1>10 DEF Gives, OutputInv, Answered

\* A document without an entry makes the queue one larger.
LEMMA FreshEntry ==
  ASSUME BestInv, call \in Workload, NEW d \in Docs, <<Worth[d], d>> \notin heap
  PROVE  LET pushed == heap \cup {<<Worth[d], d>>}
         IN  /\ Worth[d] \in Nat /\ IsFiniteSet(pushed) /\ Cardinality(heap) \in Nat
             /\ Cardinality(pushed) = Cardinality(heap) + 1
             /\ pushed \subseteq Nat \X Docs
<1>1. IsFiniteSet(heap) /\ heap \subseteq Nat \X Docs
  BY DEF BestInv
<1>2. Worth[d] \in Nat
  BY MatchIs
<1> QED  BY <1>1, <1>2, FS_AddElement, FS_CardinalityType

\* The queue after a document was offered, and how it got there.
Pushed(d) ==
  LET pushed == heap \cup {<<Worth[d], d>>}
  IN  /\ heap' \subseteq pushed /\ threshold' \in Nat /\ threshold' >= threshold
      /\ \A e \in pushed \ heap' : e[1] <= threshold'
      /\ BestInv'

\* A push below capacity.
LEMMA PushGives ==
  ASSUME BestInv, call \in Workload, threshold \in Nat, floor \in Nat,
         NEW d \in Docs, <<Worth[d], d>> \notin heap,
         Push(Worth[d], d), UNCHANGED <<call, floor>>
  PROVE  Pushed(d)
<1> DEFINE pushed == heap \cup {<<Worth[d], d>>}
<1>1. /\ heap' = pushed /\ Cardinality(heap) < K /\ Worth[d] > threshold
      /\ threshold' = IF Cardinality(heap) + 1 = K THEN FrontScore(heap') ELSE threshold
  BY DEF Push, WouldEnter
<1>2. /\ Worth[d] \in Nat /\ IsFiniteSet(heap') /\ Cardinality(heap) \in Nat
      /\ Cardinality(heap') = Cardinality(heap) + 1 /\ heap' \subseteq Nat \X Docs
  BY <1>1, FreshEntry
<1>3. threshold = floor
  BY <1>1 DEF BestInv
<1>4. \A e \in heap' : e = <<Worth[e[2]], e[2]>> /\ e[1] > floor /\ e[1] \in Nat
  BY <1>1, <1>2, <1>3 DEF BestInv
<1>5. Worth' = Worth /\ floor' = floor
  BY SameQuery
<1>6. Cardinality(heap') <= K
  BY <1>1, <1>2, KAssumption
<1>7. CASE Cardinality(heap) + 1 = K
  <2>1. heap' # {}
    BY <1>1
  <2>2. /\ threshold' \in {e[1] : e \in heap'}
        /\ \A e \in heap' : threshold' <= e[1]
    BY <1>1, <1>2, <1>7, <2>1, FrontIsLowest
  <2>3. threshold' \in Nat /\ threshold' > floor
    BY <1>4, <2>2
  <2>4. \A e \in heap' : e[1] >= threshold'
    BY <1>4, <2>2, <2>3
  <2>5. ~ (Cardinality(heap') < K)
    BY <1>2, <1>7, KAssumption
  <2>6. BestInv'
    BY <1>2, <1>4, <1>5, <1>6, <2>3, <2>4, <2>5 DEF BestInv
  <2> QED  BY <1>1, <1>3, <2>3, <2>6 DEF Pushed
<1>8. CASE Cardinality(heap) + 1 # K
  <2>1. threshold' = threshold
    BY <1>1, <1>8
  <2>2. Cardinality(heap') < K /\ Cardinality(heap') # K
    BY <1>1, <1>2, <1>8, KAssumption
  <2>3. BestInv'
    BY <1>2, <1>3, <1>4, <1>5, <1>6, <2>1, <2>2 DEF BestInv
  <2> QED  BY <1>1, <2>1, <2>3 DEF Pushed
<1> QED  BY <1>7, <1>8

\* At capacity the entry that leaves scores no more than any that stays.
LEMMA PushPopGives ==
  ASSUME BestInv, call \in Workload, threshold \in Nat, floor \in Nat,
         NEW d \in Docs, <<Worth[d], d>> \notin heap,
         PushPop(Worth[d], d), UNCHANGED <<call, floor>>
  PROVE  Pushed(d)
<1> DEFINE pushed == heap \cup {<<Worth[d], d>>}
<1>1. /\ Worth[d] > threshold /\ Cardinality(heap) >= K /\ threshold' = FrontScore(heap')
  BY DEF PushPop, WouldEnter
<1>2. PICK least \in Lowest(pushed) : heap' = pushed \ {least}
  BY DEF PushPop
<1>3. /\ Worth[d] \in Nat /\ IsFiniteSet(pushed) /\ Cardinality(heap) \in Nat
      /\ Cardinality(pushed) = Cardinality(heap) + 1 /\ pushed \subseteq Nat \X Docs
  BY FreshEntry
<1>4. least \in pushed /\ \A e \in pushed : least[1] <= e[1]
  BY DEF Lowest
<1>5. Cardinality(heap) = K
  BY <1>1, <1>3, KAssumption DEF BestInv
<1>6. IsFiniteSet(heap') /\ Cardinality(heap') = K
  <2>1. IsFiniteSet(pushed) /\ least \in pushed
    BY <1>3, <1>4
  <2>2. IsFiniteSet(pushed \ {least}) /\ Cardinality(pushed \ {least}) = Cardinality(pushed) - 1
    BY <2>1, FS_RemoveElement
  <2> HIDE DEF pushed
  <2> QED  BY <1>2, <1>3, <1>5, <2>2, KAssumption
<1>7. heap' # {} /\ heap' \subseteq Nat \X Docs
  BY <1>2, <1>3, <1>6, KAssumption, FS_EmptySet
<1>8. /\ threshold' \in {e[1] : e \in heap'}
      /\ \A e \in heap' : threshold' <= e[1]
  BY <1>1, <1>7, FrontIsLowest
<1>9. \A e \in pushed : e[1] \in Nat /\ e[1] >= threshold
  <2>1. \A e \in heap : e[1] \in Nat /\ e[1] >= threshold
    BY <1>3, <1>5 DEF BestInv
  <2> QED  BY <1>1, <1>3, <2>1
<1>10. threshold' \in Nat /\ threshold' >= threshold /\ threshold >= floor
  <2>1. PICK e \in heap' : threshold' = e[1]
    BY <1>8
  <2>2. e \in pushed
    BY <1>2, <2>1
  <2>3. threshold >= floor
    BY DEF BestInv
  <2> QED  BY <1>9, <2>1, <2>2, <2>3
<1>11. \A e \in pushed : e = <<Worth[e[2]], e[2]>> /\ e[1] > floor
  BY <1>1, <1>3, <1>10 DEF BestInv
<1>12. Worth' = Worth /\ floor' = floor
  BY SameQuery
<1>13. \A e \in heap' : e \in pushed
  BY <1>2
<1>14. \A e \in heap' : e = <<Worth[e[2]], e[2]>> /\ e[1] > floor
  BY <1>11, <1>13
<1>15. \A e \in heap' : e[1] >= threshold'
  BY <1>8, <1>9, <1>10, <1>13
<1>16. Cardinality(heap') <= K /\ ~ (Cardinality(heap') < K) /\ threshold' >= floor
  BY <1>6, <1>10, KAssumption
<1>17. BestInv'
  BY <1>6, <1>7, <1>12, <1>14, <1>15, <1>16 DEF BestInv
<1>18. \A e \in pushed \ heap' : e[1] <= threshold'
  <2>1. \A e \in pushed \ heap' : e = least
    BY <1>2
  <2>2. PICK f \in heap' : threshold' = f[1]
    BY <1>8
  <2>3. least[1] <= threshold'
    BY <1>4, <1>13, <2>2
  <2> QED  BY <2>1, <2>3
<1>19. heap' \subseteq pushed
  BY <1>13
<1> HIDE DEF pushed
<1> QED  BY <1>10, <1>17, <1>18, <1>19 DEF Pushed, pushed

\* A ranked query offers a document to the queue with what it is worth.
LEMMA OfferGives ==
  ASSUME ~ Boolean, OutputInv, call \in Workload, threshold \in Nat, floor \in Nat,
         NEW d \in Docs, ~ Held(d), Insert(Worth[d], d), UNCHANGED <<call, floor>>
  PROVE  Gives(d)
<1>1. Worth' = Worth /\ Boolean' = Boolean
  BY SameQuery
<1>2. BestInv /\ <<Worth[d], d>> \notin heap
  BY DEF OutputInv, Held
<1>3. \A e : (Held(e) <=> <<Worth[e], e>> \in heap) /\ (Held(e)' <=> <<Worth[e], e>> \in heap')
  BY <1>1 DEF Held
<1>4. \A e : /\ Answered(e) <=> Held(e) \/ Worth[e] <= threshold
             /\ Answered(e)' <=> Held(e)' \/ Worth[e] <= threshold'
  BY <1>1 DEF Answered
<1>5. \A e \in Docs : Worth[e] \in Nat
  BY MatchIs
<1>6. CASE Reject(Worth[d])
  <2>1. UNCHANGED queueVars /\ Worth[d] <= threshold
    BY <1>5, <1>6 DEF Reject, WouldEnter
  <2>2. UNCHANGED <<heap, threshold>>
    BY <2>1 DEF queueVars
  <2>3. OutputInv'
    BY <2>1, SameAnswer
  <2> QED  BY <1>3, <1>4, <2>1, <2>2, <2>3 DEF Gives
<1>7. CASE Pushed(d)
  <2> DEFINE pushed == heap \cup {<<Worth[d], d>>}
  <2>1. /\ heap' \subseteq pushed /\ threshold' \in Nat /\ threshold' >= threshold
        /\ \A e \in pushed \ heap' : e[1] <= threshold' /\ BestInv'
    BY <1>7 DEF Pushed
  <2>2. ASSUME NEW e \in Docs, Answered(e) \/ e = d PROVE Answered(e)'
    <3>1. CASE <<Worth[e], e>> \in pushed
      <4>1. <<Worth[e], e>> \notin heap' => <<Worth[e], e>>[1] <= threshold'
        BY <2>1, <3>1
      <4> QED  BY <1>3, <1>4, <4>1
    <3>2. CASE <<Worth[e], e>> \notin pushed
      <4>1. Worth[e] <= threshold
        BY <1>3, <1>4, <2>2, <3>2
      <4> QED  BY <1>4, <1>5, <2>1, <4>1
    <3> QED  BY <3>1, <3>2
  <2>3. \A e \in Docs : Held(e)' => Held(e) \/ e = d
    BY <1>3, <2>1
  <2>4. OutputInv'
    BY <1>1, <1>7 DEF OutputInv, Pushed
  <2> QED  BY <2>1, <2>2, <2>3, <2>4 DEF Gives
<1> QED  BY <1>2, <1>6, <1>7, PushGives, PushPopGives DEF Insert

-----------------------------------------------------------------------------
(* Answers that are complete.                                              *)

\* The i-th member of a set.
InPlace(S, i) == CHOOSE d \in S : Cardinality({e \in S : e < d}) = i - 1

\* The members of a set, in order: each has as many before it as its place says.
LEMMA PlaceOf ==
  ASSUME NEW m \in Nat, NEW S, S \subseteq Nat, NEW s \in [1..m -> S],
         \A i, j \in 1..m : i < j => s[i] < s[j], \A d \in S : \E i \in 1..m : s[i] = d
  PROVE  /\ IsFiniteSet(S) /\ Cardinality(S) = m
         /\ \A i \in 1..m : s[i] = InPlace(S, i)
<1>1. \A i, j \in 1..m : s[i] = s[j] => i = j
  <2> SUFFICES ASSUME NEW i \in 1..m, NEW j \in 1..m, s[i] = s[j], i # j PROVE FALSE
    OBVIOUS
  <2>1. i < j \/ j < i
    OBVIOUS
  <2>2. s[i] < s[j] \/ s[j] < s[i]
    BY <2>1
  <2>3. s[i] \in Nat /\ s[j] \in Nat
    OBVIOUS
  <2> QED  BY <2>2, <2>3
<1>2. ASSUME NEW i \in 1..m
      PROVE  Cardinality({e \in S : e < s[i]}) = i - 1
  <2> DEFINE T == {e \in S : e < s[i]}
             f == [j \in 1..(i - 1) |-> s[j]]
  <2>1. i - 1 \in Nat /\ \A j \in 1..(i - 1) : j \in 1..m /\ j < i
    OBVIOUS
  <2>2. \A j \in 1..(i - 1) : s[j] \in S /\ s[j] < s[i]
    BY <2>1
  <2>3. f \in [1..(i - 1) -> T]
    BY <2>2
  <2>4. \A j, k \in 1..(i - 1) : f[j] = f[k] => j = k
    BY <1>1, <2>1
  <2>5. \A d \in T : \E j \in 1..(i - 1) : f[j] = d
    <3> TAKE d \in T
    <3>1. PICK j \in 1..m : s[j] = d
      OBVIOUS
    <3>2. ~ (j = i) /\ ~ (i < j)
      <4>1. d < s[i] /\ d \in Nat /\ s[i] \in Nat
        OBVIOUS
      <4>2. i < j => s[i] < s[j]
        OBVIOUS
      <4> HIDE DEF T, f
      <4> QED  BY <3>1, <4>1, <4>2
    <3>3. j \in 1..(i - 1)
      BY <3>2
    <3> QED  BY <3>1, <3>3
  <2>6. f \in Bijection(1..(i - 1), T)
    BY <2>3, <2>4, <2>5 DEF Bijection, Injection, Surjection, IsInjective
  <2> HIDE DEF T, f
  <2>7. IsFiniteSet(1..(i - 1)) /\ Cardinality(1..(i - 1)) = i - 1
    BY <2>1, FS_Interval
  <2>8. Cardinality(T) = Cardinality(1..(i - 1))
    BY <2>6, <2>7, FS_Bijection DEF ExistsBijection
  <2> QED  BY <2>7, <2>8 DEF T
<1>3. IsFiniteSet(S) /\ Cardinality(S) = m
  <2>1. s \in Bijection(1..m, S)
    BY <1>1 DEF Bijection, Injection, Surjection, IsInjective
  <2>2. IsFiniteSet(1..m) /\ Cardinality(1..m) = m
    BY FS_Interval
  <2> QED  BY <2>1, <2>2, FS_Bijection DEF ExistsBijection
<1>4. ASSUME NEW i \in 1..m
      PROVE  s[i] = InPlace(S, i)
  <2>1. \A d \in S : Cardinality({e \in S : e < d}) = i - 1 => d = s[i]
    <3> SUFFICES ASSUME NEW d \in S, Cardinality({e \in S : e < d}) = i - 1 PROVE d = s[i]
      OBVIOUS
    <3>1. PICK j \in 1..m : s[j] = d
      OBVIOUS
    <3>2. j - 1 = i - 1
      BY <1>2, <3>1
    <3> QED  BY <3>1, <3>2
  <2>2. s[i] \in S /\ Cardinality({e \in S : e < s[i]}) = i - 1
    BY <1>2
  <2> QED  BY <2>1, <2>2 DEF InPlace
<1> QED  BY <1>3, <1>4

\* A list of all matches gives them in turn.
LEMMA ListIsInTurn ==
  ASSUME call \in Workload, Boolean, ListInv, \A d \in Docs : Answered(d)
  PROVE  results = [i \in 1..Cardinality(Matches) |-> Row(InPlace(Matches, i))]
<1> DEFINE m == Len(results)
           s == [i \in 1..m |-> DocOf(results[i])]
           Rows == {Row(d) : d \in Matches}
<1>1. results \in Seq(Rows) /\ m \in Nat
  BY DEF ListInv
<1>2. Matches \subseteq Docs /\ Matches \subseteq Nat
  BY DocIs DEF Matches
<1>3. ASSUME NEW i \in 1..m PROVE s[i] \in Matches /\ results[i] = Row(s[i])
  <2>1. results[i] \in Rows
    BY <1>1
  <2>2. PICK d \in Matches : results[i] = Row(d)
    BY <2>1
  <2> QED  BY <2>2, RowIsOf
<1>4. s \in [1..m -> Matches]
  BY <1>3
<1>5. \A i, j \in 1..m : i < j => s[i] < s[j]
  BY DEF ListInv
<1>6. \A d \in Matches : \E i \in 1..m : s[i] = d
  <2> TAKE d \in Matches
  <2>1. d \in Docs
    BY <1>2
  <2>2. Held(d)
    BY <2>1 DEF Answered
  <2> QED  BY <2>2 DEF Held
<1>7. results = [i \in 1..m |-> Row(s[i])]
  <2>1. results = [i \in 1..m |-> results[i]]
    BY <1>1
  <2> QED  BY <1>3, <2>1
<1> HIDE DEF s, m
<1>8. /\ Cardinality(Matches) = m
      /\ \A i \in 1..m : s[i] = InPlace(Matches, i)
  BY <1>1, <1>2, <1>4, <1>5, <1>6, PlaceOf
<1> QED  BY <1>7, <1>8

LEMMA SameCardinality == \A S : Ranking!Cardinality(S) = Cardinality(S)
BY DEF Cardinality, Ranking!Cardinality

\* A queue with no document left to offer is the best above the floor.
LEMMA QueueIsBest ==
  ASSUME call \in Workload, ~ Boolean, BestInv, threshold \in Nat, floor \in Nat,
         \A d \in Docs : Answered(d)
  PROVE  Ranking!BestAbove(floor)
<1>1. /\ heap \subseteq Nat \X Docs /\ Cardinality(heap) \in Nat /\ Cardinality(heap) <= K
      /\ \A e \in heap : e = <<Worth[e[2]], e[2]>> /\ e[1] > floor
  BY FS_CardinalityType DEF BestInv
<1>2. ASSUME NEW d \in Docs, Worth[d] > floor, <<Worth[d], d>> \notin heap
      PROVE  Cardinality(heap) = K /\ \A e \in heap : e[1] >= Worth[d]
  <2>1. Worth[d] <= threshold /\ Worth[d] \in Nat
    BY <1>2, MatchIs DEF Answered, Held
  <2>2. threshold # floor
    BY <1>2, <2>1
  <2>3. Cardinality(heap) = K
    BY <1>1, <2>2, KAssumption DEF BestInv
  <2>4. \A e \in heap : e[1] \in Nat /\ e[1] >= threshold
    BY <1>1, <2>3 DEF BestInv
  <2> QED  BY <2>1, <2>3, <2>4
<1> QED  BY <1>1, <1>2, SameCardinality DEF Ranking!BestAbove, Ranking!Entry

LEMMA AnswerGivesMatches == RunInv /\ OutputInv /\ pc = "answered" => GivesMatches
<1> SUFFICES ASSUME RunInv, OutputInv, pc = "answered"
             PROVE  CASE Alg({"or", "and"})   -> results = InTurn(LAMBDA d : d)
                      [] Alg({"scored_and"})  ->
                           results = InTurn(LAMBDA d : <<d, FullScore(cursors, d)>>)
                      [] OTHER                -> Ranking!BestAbove(floor)
  BY DEF GivesMatches
<1>1. call \in Workload /\ threshold \in Nat /\ floor \in Nat /\ \A d \in Docs : Answered(d)
  BY DEF RunInv
<1>2. CASE Boolean
  <2>1. results = [i \in 1..Cardinality(Matches) |-> Row(InPlace(Matches, i))]
    BY <1>1, <1>2, ListIsInTurn DEF OutputInv
  <2>2. CASE Alg({"scored_and"})
    <3>1. ~ Alg({"or", "and"})
      BY <2>2 DEF Alg
    <3>2. \A d : Row(d) = <<d, FullScore(cursors, d)>>
      BY <2>2 DEF Row
    <3>3. results = InTurn(LAMBDA d : <<d, FullScore(cursors, d)>>)
      BY <2>1, <2>2 DEF InTurn, Row, InPlace
    <3> QED  BY <2>2, <3>1, <3>3
  <2>3. CASE ~ Alg({"scored_and"})
    <3>1. Alg({"or", "and"})
      BY <1>2, <2>3 DEF Alg, Boolean, Unranked
    <3>2. \A d : Row(d) = d
      BY <2>3 DEF Row
    <3>3. results = InTurn(LAMBDA d : d)
      BY <2>1, <3>2 DEF InTurn, InPlace
    <3> QED  BY <2>3, <3>1, <3>3
  <2> QED  BY <2>2, <2>3
<1>3. CASE ~ Boolean
  <2>1. Ranking!BestAbove(floor)
    BY <1>1, <1>3, QueueIsBest DEF OutputInv
  <2>2. ~ Alg({"or", "and"}) /\ ~ Alg({"scored_and"})
    BY <1>3 DEF Alg, Boolean, Unranked
  <2> QED  BY <2>1, <2>2
<1> QED  BY <1>2, <1>3

-----------------------------------------------------------------------------
(* Queries that begin.                                                     *)

LEMMA RangeIsAfter ==
  ASSUME NEW c, c.range \in Nat, NEW end \in 0..NumDocs
  PROVE  RangeAfter(c, end) \in 0..NumDocs /\ end <= RangeAfter(c, end)
<1>1. CASE c.range = 0 \/ end + 2 * c.range >= NumDocs
  BY <1>1, NumDocsAssumption DEF RangeAfter
<1>2. CASE ~ (c.range = 0 \/ end + 2 * c.range >= NumDocs)
  <2>1. RangeAfter(c, end) = end + c.range
    BY <1>2 DEF RangeAfter
  <2> QED  BY <1>2, <2>1, NumDocsAssumption
<1> QED  BY <1>1, <1>2

\* A query as it begins: an empty answer and cursors on the first postings.
Begins ==
  /\ call \in Workload
  /\ \E t \in Thresholds : threshold = StartingFrom(call, t) /\ floor = StartingFrom(call, t)
  /\ heap = {} /\ results = << >>
  /\ pos = Postings(call) /\ block = FirstBlocks(call)
  /\ limit = RangeAfter(call, 0) /\ candidate = 0 /\ list = 1
  /\ pc = Begin(call)

LEMMA BeginsIs ==
  ASSUME Begins
  PROVE  /\ call \in Workload
         /\ threshold \in Nat /\ floor = threshold
         /\ pos \in [1..n -> 0..NumDocs] /\ \A c \in 1..n : pos[c] = FirstGeq(cursors[c], 0)
         /\ block = [c \in 1..n |-> 1]
         /\ limit \in 0..NumDocs /\ candidate = 0 /\ list = 1
         /\ pc = (IF n = 0 THEN "answered" ELSE "begin")
         /\ \A d : ~ Held(d)
         /\ OutputInv
<1>1. /\ call \in Workload /\ heap = {} /\ results = << >> /\ candidate = 0 /\ list = 1
      /\ pos = Postings(call) /\ block = FirstBlocks(call) /\ limit = RangeAfter(call, 0)
      /\ pc = Begin(call)
  BY DEF Begins
<1>2. /\ n \in Nat /\ IsQuery(cursors) /\ call.range \in Nat
      /\ \A c \in 1..n : Posted(cursors[c]) \subseteq Docs
  BY <1>1, QueryIs
<1>3. cursors = [i \in 1..n |-> cursors[i]]
  BY <1>2 DEF IsQuery, n
<1>4. DOMAIN call.cursors = 1..n
  BY <1>3 DEF cursors
<1>5. pos = [c \in 1..n |-> FirstGeq(cursors[c], 0)] /\ block = [c \in 1..n |-> 1]
  BY <1>1, <1>4 DEF Postings, FirstBlocks, cursors
<1>6. 0 \in 0..NumDocs
  BY NumDocsAssumption
<1>7. \A c \in 1..n : FirstGeq(cursors[c], 0) \in 0..NumDocs
  BY <1>2, <1>6, FirstGeqIsNext
<1>8. limit \in 0..NumDocs
  BY <1>1, <1>2, <1>6, RangeIsAfter
<1>9. threshold \in Nat /\ floor = threshold
  <2>1. PICK t \in Thresholds : threshold = StartingFrom(call, t) /\ floor = StartingFrom(call, t)
    BY DEF Begins
  <2> QED  BY <2>1, ThresholdsAssumption DEF StartingFrom
<1>10. call.cursors = << >> <=> n = 0
  <2>1. n = 0 => cursors = << >>
    BY <1>3
  <2> QED  BY <2>1 DEF cursors, n
<1>11. pc = IF n = 0 THEN "answered" ELSE "begin"
  BY <1>1, <1>10 DEF Begin
<1>12. \A d : ~ Held(d)
  BY <1>1 DEF Held
<1>13. ListInv
  BY <1>1 DEF ListInv
<1>14. BestInv
  BY <1>1, <1>9, FS_EmptySet, KAssumption DEF BestInv
<1> QED
  BY <1>1, <1>5, <1>7, <1>8, <1>9, <1>11, <1>12, <1>13, <1>14 DEF OutputInv

LEMMA BeginsInv == Begins /\ AccumulatorInv => SessionInv
<1> SUFFICES ASSUME Begins, AccumulatorInv PROVE SessionInv
  OBVIOUS
<1>1. /\ call \in Workload
      /\ threshold \in Nat /\ floor = threshold
      /\ pos \in [1..n -> 0..NumDocs] /\ \A c \in 1..n : pos[c] = FirstGeq(cursors[c], 0)
      /\ block = [c \in 1..n |-> 1]
      /\ limit \in 0..NumDocs /\ candidate = 0 /\ list = 1
      /\ pc = (IF n = 0 THEN "answered" ELSE "begin")
      /\ \A d : ~ Held(d)
      /\ OutputInv
  BY BeginsIs
<1>2. n \in Nat /\ \A c \in 1..n : Posted(cursors[c]) \subseteq Docs
  BY <1>1, QueryIs
<1>3. n = 0 => \A d \in Docs : Answered(d)
  <2> SUFFICES ASSUME n = 0, NEW d \in Docs PROVE Answered(d)
    OBVIOUS
  <2>1. d \notin Matches /\ Worth[d] = 0
    BY <1>1, MatchIs
  <2> QED  BY <1>1, <2>1 DEF Answered
<1>4. RunInv
  BY <1>1, <1>3 DEF RunInv
<1>5. 0 \in 0..NumDocs /\ 0 \in 0..limit /\ 0 \in 0..0
  BY <1>1, NumDocsAssumption
<1>6. DoneBefore(0)
  BY <1>1, DocIs DEF DoneBefore
<1>7. Leading \subseteq 1..n
  BY <1>1, QueryIs
<1>8. Frontier(0)
  BY <1>1, <1>5, <1>6, <1>7 DEF Frontier
<1>9. pc # "scan"
  BY <1>1
<1>10. DisjunctionInv
  BY <1>5, <1>8, <1>9 DEF DisjunctionInv
<1>11. RangeInv
  <2>1. pc # "answered" => pc = "begin"
    BY <1>1
  <2> QED  BY <1>1, <1>5, <1>6, <2>1 DEF RangeInv
<1>12. \A c \in 1..n : /\ pos[c] < NumDocs => pos[c] \in Posted(cursors[c])
                       /\ \A d \in Posted(cursors[c]) : pos[c] <= d
  <2> TAKE c \in 1..n
  <2>1. /\ pos[c] < NumDocs => pos[c] \in Posted(cursors[c])
        /\ \A d \in Posted(cursors[c]) : 0 <= d => pos[c] <= d
    BY <1>1, <1>2, <1>5, FirstGeqIsNext
  <2> QED  BY <1>2, <2>1, DocIs
<1>13. ConjunctionInv
  <2> SUFFICES ASSUME Alg(Conjunctions), NEW d \in Matches
               PROVE  \A c \in 1..n : pos[c] <= d
    BY <1>1, <1>9, <1>12 DEF ConjunctionInv
  <2>1. d \in Docs
    BY DEF Matches
  <2>2. \A c \in 1..n : d \in Posted(cursors[c])
    BY <1>1, <2>1, MatchIs
  <2> QED  BY <1>12, <2>2
<1>14. BlocksInv
  <2> SUFFICES ASSUME Alg(WithBlocks), NEW c \in 1..n
               PROVE  /\ block[c] \in 1..Len(call.blocks[c])
                      /\ \A a \in 1..(block[c] - 1) : FALSE
    BY DEF BlocksInv
  <2>1. block[c] = 1
    BY <1>1
  <2>2. BlocksHold(cursors[c], call.blocks[c])
    BY <1>1, WorkloadAssumption DEF Alg, WithBlocks, cursors, n
  <2>3. Len(call.blocks[c]) \in Nat \ {0}
    BY <2>2 DEF BlocksHold
  <2> QED  BY <2>1, <2>3
<1> QED  BY <1>1, <1>4, <1>10, <1>11, <1>13, <1>14 DEF SessionInv

LEMMA BeginsNextInv == Begins' /\ AccumulatorInv' => SessionInv'
BY BeginsInv, PTL

\* Every document has an accumulator, and they are numbered from 0.
LEMMA SlotsAre ==
  ASSUME NEW kind
  PROVE  \E last \in Nat : Slots(kind) = 0..last /\ NumDocs - 1 <= last
<1>1. NumDocs \in Nat \ {0} /\ NumDocs - 1 \in Nat /\ Size \in Nat /\ NumDocs <= Size
  BY NumDocsAssumption, AccumulatorsAssumption
<1>2. CASE kind = "simple"
  <2>1. Slots(kind) = 0..(Size - 1)
    BY <1>2 DEF Slots
  <2>2. Size - 1 \in Nat /\ NumDocs - 1 <= Size - 1
    BY <1>1
  <2> QED  BY <2>1, <2>2
<1>3. CASE kind # "simple"
  <2> DEFINE a == Size + PerBlock - 1
             q == a \div PerBlock
  <2>1. a \in Nat /\ PerBlock \in Nat \ {0}
    BY <1>1, AccumulatorsAssumption
  <2> HIDE DEF a
  <2>2. /\ q \in Nat /\ q * PerBlock + (a % PerBlock) = a
        /\ a % PerBlock < PerBlock /\ a % PerBlock \in Nat
    BY <2>1, Z3
  <2>3. q * PerBlock \in Nat
    BY <2>1, <2>2
  <2>4. q * PerBlock - 1 \in Nat /\ NumDocs - 1 <= q * PerBlock - 1
    <3> DEFINE r == a % PerBlock
               p == q * PerBlock
    <3>1. p \in Nat /\ r \in Nat /\ p + r = a /\ r < PerBlock
      BY <2>2, <2>3
    <3> HIDE DEF r, p
    <3>2. p \in Nat /\ NumDocs <= p
      BY <1>1, <2>1, <3>1 DEF a
    <3> QED  BY <1>1, <3>2 DEF p
  <2>5. Slots(kind) = 0..(q * PerBlock - 1)
    BY <1>3 DEF Slots, a
  <2> QED  BY <2>4, <2>5
<1> QED  BY <1>2, <1>3

LEMMA InitInv == Init => SessionInv
<1> SUFFICES ASSUME Init PROVE SessionInv
  OBVIOUS
<1>1. Begins
  BY DEF Init, Begins
<1>2. PICK kind \in {"simple", "lazy"} : acc = New(kind)
  BY DEF Init
<1>3. /\ acc.kind = kind /\ acc.counter = 0 /\ 0 \in 0..(Cycle - 1)
      /\ acc.sums = [d \in Slots(kind) |-> 0] /\ acc.counters = [d \in Slots(kind) |-> 0]
  BY <1>2, AccumulatorsAssumption DEF New, Cleared
<1>4. AccumulatorInv
  BY <1>3 DEF AccumulatorInv
<1> QED  BY <1>1, <1>4, BeginsInv

LEMMA NextQueryInv == SessionInv /\ NextQuery => SessionInv'
<1> SUFFICES ASSUME SessionInv, NextQuery PROVE SessionInv'
  OBVIOUS
<1>1. Begins'
  <2>1. call' \in Workload
    BY DEF NextQuery, Session, TermAtATimeCalls
  <2> QED  BY <2>1 DEF NextQuery, Begins
<1>2. pc = "answered" /\ Alg(TermAtATime) /\ UNCHANGED acc
  BY DEF NextQuery
<1>3. pc' \in {"begin", "answered"}
  BY DEF NextQuery, Begin
<1>4. AccumulatorInv'
  BY <1>2, <1>3 DEF SessionInv, AccumulatorInv
<1> QED  BY <1>1, <1>4, BeginsNextInv

-----------------------------------------------------------------------------
(* The exhaustive algorithms.                                              *)

\* Each query has the account of its own algorithm only.
LEMMA OnlyDisjunction ==
  ASSUME UNCHANGED call, Alg(DocumentAtATime \cup {"wave"})
  PROVE  AccumulatorInv' /\ RangeInv' /\ ConjunctionInv' /\ BlocksInv' /\ ~ Alg(Conjunctions)
<1>1. /\ ~ Alg(TermAtATime) /\ ~ Alg(Conjunctions) /\ ~ Alg(WithBlocks)
  BY DEF Alg, DocumentAtATime, TermAtATime, Conjunctions, WithBlocks
<1>2. /\ ~ Alg(TermAtATime)' /\ ~ Alg(Conjunctions)' /\ ~ Alg(WithBlocks)'
  BY <1>1, SameQuery DEF Alg
<1> QED  BY <1>1, <1>2 DEF AccumulatorInv, RangeInv, ConjunctionInv, BlocksInv

LEMMA LeastOfIs ==
  ASSUME NEW p, NEW C, \A c \in C : p[c] \in 0..NumDocs
  PROVE  /\ LeastOf(p, C) \in 0..NumDocs
         /\ \A c \in C : LeastOf(p, C) <= p[c]
         /\ LeastOf(p, C) = NumDocs \/ \E c \in C : LeastOf(p, C) = p[c]
<1> DEFINE S == {p[c] : c \in C} \cup {NumDocs}
<1>1. S \subseteq 0..NumDocs /\ S \subseteq Nat /\ S # {}
  BY NumDocsAssumption
<1>2. Earliest(S) \in S /\ \A e \in S : Earliest(S) <= e
  BY <1>1, EarliestIsLeast
<1>3. LeastOf(p, C) = Earliest(S)
  BY DEF LeastOf
<1> HIDE DEF S
<1>4. LeastOf(p, C) \in S /\ LeastOf(p, C) \in 0..NumDocs /\ \A e \in S : LeastOf(p, C) <= e
  BY <1>1, <1>2, <1>3
<1> QED  BY <1>4 DEF S

\* A cursor that has not come to d yet, or stands there already.
LEMMA NextGeqIs ==
  ASSUME NEW c, Posted(c) \subseteq Docs, NEW d \in 0..NumDocs, NEW m \in 0..d
  PROVE  /\ NextGeq(c, FirstGeq(c, m), d) = FirstGeq(c, d)
         /\ FirstGeq(c, m) >= d => FirstGeq(c, m) = FirstGeq(c, d)
<1>1. m \in 0..NumDocs
  BY NumDocsAssumption
<1>2. /\ FirstGeq(c, m) \in 0..NumDocs
      /\ FirstGeq(c, m) < NumDocs => FirstGeq(c, m) \in Posted(c)
      /\ \A e \in Posted(c) : m <= e => FirstGeq(c, m) <= e
  BY <1>1, FirstGeqIsNext
<1>3. \A e \in Posted(c) : d <= e => m <= e
  BY DocIs, NumDocsAssumption
<1>4. FirstGeq(c, m) >= d => FirstGeq(c, m) = FirstGeq(c, d)
  BY <1>2, <1>3, FirstGeqUnique
<1>5. FirstGeq(c, m) \in Int /\ d \in Int
  BY <1>2, NumDocsAssumption
<1> QED  BY <1>4, <1>5 DEF NextGeq

\* A cursor on d moves on, and one behind it stays.
LEMMA MovedOnIs ==
  ASSUME NEW c, Posted(c) \subseteq Docs, NEW d \in Docs
  PROVE  /\ d + 1 \in 0..NumDocs
         /\ (IF FirstGeq(c, d) = d THEN NextFrom(c, FirstGeq(c, d)) ELSE FirstGeq(c, d))
              = FirstGeq(c, d + 1)
<1>1. d \in 0..NumDocs /\ d + 1 \in 0..NumDocs /\ d \in 0..(d + 1)
  BY DocIs, NumDocsAssumption
<1>2. FirstGeq(c, d) >= d /\ FirstGeq(c, d) \in 0..NumDocs
  BY <1>1, FirstGeqIsNext
<1>3. CASE FirstGeq(c, d) = d
  BY <1>1, <1>3 DEF NextFrom
<1>4. CASE FirstGeq(c, d) # d
  <2>1. FirstGeq(c, d) >= d + 1
    BY <1>1, <1>2, <1>4
  <2> QED  BY <1>1, <1>4, <2>1, NextGeqIs
<1> QED  BY <1>1, <1>3, <1>4

\* The lists that stand on a match are those it is on.
LEMMA ScoreIs ==
  ASSUME call \in Workload, NEW d \in Docs, d \in Matches,
         NEW at, \A c \in 1..n : at[c] = FirstGeq(cursors[c], d)
  PROVE  SumOver(Contribution(cursors, d), {c \in 1..n : at[c] = d}, n) = Worth[d]
<1> DEFINE here == {c \in 1..n : at[c] = d}
<1>1. /\ n \in Nat /\ n = Len(cursors)
      /\ \A c \in 1..n : IsCursor(cursors[c]) /\ Posted(cursors[c]) \subseteq Docs
  BY QueryIs
<1>2. d \in 0..NumDocs
  BY DocIs, NumDocsAssumption
<1>3. ASSUME NEW c \in 1..n, d \in Posted(cursors[c]) PROVE c \in here
  <2>1. FirstGeq(cursors[c], d) \in 0..NumDocs /\ FirstGeq(cursors[c], d) >= d
    BY <1>1, <1>2, FirstGeqIsNext
  <2>2. FirstGeq(cursors[c], d) <= d
    BY <1>1, <1>2, <1>3, FirstGeqIsNext
  <2>3. FirstGeq(cursors[c], d) = d
    BY <1>2, <2>1, <2>2
  <2> QED  BY <2>3
<1> HIDE DEF here
<1>4. SumOver(Contribution(cursors, d), here, n) = FullScore(cursors, d)
  BY <1>1, <1>3, FullScoreOver
<1> QED  BY <1>4, MatchIs DEF here

\* Up to where the leading cursors stand nothing is left to do.
LEMMA BeforeLeast ==
  ASSUME RunInv, ~ Alg(Conjunctions), NEW from \in 0..NumDocs, Frontier(from)
  PROVE  /\ LeastOf(pos, Leading) \in 0..NumDocs
         /\ \A c \in Leading : LeastOf(pos, Leading) <= pos[c]
         /\ LeastOf(pos, Leading) = NumDocs \/ \E c \in Leading : LeastOf(pos, Leading) = pos[c]
         /\ \A d \in Docs : d < LeastOf(pos, Leading) => Answered(d)
<1> DEFINE least == LeastOf(pos, Leading)
<1>1. call \in Workload /\ pos \in [1..n -> 0..NumDocs] /\ threshold \in Nat
  BY DEF RunInv
<1>2. Leading \subseteq 1..n /\ \A c \in 1..n : Posted(cursors[c]) \subseteq Docs
  BY <1>1, QueryIs
<1>3. \A c \in Leading : pos[c] \in 0..NumDocs
  BY <1>1, <1>2
<1>4. /\ least \in 0..NumDocs
      /\ \A c \in Leading : least <= pos[c]
      /\ least = NumDocs \/ \E c \in Leading : least = pos[c]
  BY <1>3, LeastOfIs
<1> HIDE DEF least
<1>5. ASSUME NEW d \in Docs, d < least PROVE Answered(d)
  <2>1. CASE d < from
    BY <2>1 DEF Frontier, DoneBefore
  <2>2. CASE ~ (d < from)
    <3>1. \A c \in Leading : d \notin Posted(cursors[c])
      <4> SUFFICES ASSUME NEW c \in Leading, d \in Posted(cursors[c]) PROVE FALSE
        OBVIOUS
      <4>1. pos[c] = FirstGeq(cursors[c], from) /\ Posted(cursors[c]) \subseteq Docs
        BY <1>2 DEF Frontier
      <4>2. from <= d
        BY <2>2, DocIs, NumDocsAssumption
      <4>3. pos[c] <= d
        BY <4>1, <4>2, FirstGeqIsNext
      <4>4. pos[c] \in Nat /\ d \in Nat /\ least \in Nat /\ least <= pos[c]
        BY <1>3, <1>4, DocIs, NumDocsAssumption
      <4> QED  BY <1>5, <4>3, <4>4
    <3>2. d \notin Matches /\ Worth[d] = 0
      BY <1>1, <3>1, MatchIs
    <3> QED  BY <1>1, <3>2 DEF Answered
  <2> QED  BY <2>1, <2>2
<1> QED  BY <1>4, <1>5 DEF least

\* The document the leading cursors come to next is a match that is not held yet.
LEMMA LeastIsNew ==
  ASSUME RunInv, ~ Alg(Conjunctions), NEW from \in 0..NumDocs, Frontier(from),
         candidate = LeastOf(pos, Leading), candidate < NumDocs
  PROVE  /\ candidate \in Docs /\ candidate \in Matches /\ from <= candidate
         /\ ~ Held(candidate) /\ \A e \in Docs : Held(e) => e < candidate
         /\ \A c \in Leading : candidate <= pos[c] /\ pos[c] = FirstGeq(cursors[c], candidate)
         /\ \A c \in 1..n : NextGeq(cursors[c], pos[c], candidate) = FirstGeq(cursors[c], candidate)
<1>1. call \in Workload /\ pos \in [1..n -> 0..NumDocs] /\ (n = 0 => pc = "answered")
  BY DEF RunInv
<1>2. /\ Leading \subseteq 1..n /\ n \in Nat
      /\ \A c \in 1..n : Posted(cursors[c]) \subseteq Docs
  BY <1>1, QueryIs
<1>3. /\ candidate \in 0..NumDocs
      /\ \A c \in Leading : candidate <= pos[c]
      /\ candidate = NumDocs \/ \E c \in Leading : candidate = pos[c]
  BY BeforeLeast
<1>4. candidate \in Docs
  BY <1>3, DocIs, NumDocsAssumption
<1>5. PICK l \in Leading : candidate = pos[l]
  BY <1>3, <1>4, DocIs, NumDocsAssumption
<1>6. pos[l] = FirstGeq(cursors[l], from)
  BY DEF Frontier
<1>7. candidate \in Posted(cursors[l]) /\ from <= candidate
  BY <1>2, <1>5, <1>6, FirstGeqIsNext
<1>8. candidate \in Matches
  <2>1. n # 0
    BY <1>2
  <2> QED  BY <1>1, <1>4, <1>7, <2>1, MatchIs
<1>9. \A e \in Docs : Held(e) => e < candidate
  <2> SUFFICES ASSUME NEW e \in Docs, Held(e) PROVE e < candidate
    OBVIOUS
  <2>1. e < from
    BY DEF Frontier, DoneBefore
  <2> QED  BY <1>4, <1>7, <2>1, DocIs, NumDocsAssumption
<1>10. ~ Held(candidate)
  BY <1>4, <1>9, DocIs
<1>11. from \in 0..candidate
  BY <1>3, <1>7, NumDocsAssumption
<1>12. ASSUME NEW c \in Leading
       PROVE  candidate <= pos[c] /\ pos[c] = FirstGeq(cursors[c], candidate)
  <2>1. pos[c] = FirstGeq(cursors[c], from) /\ candidate <= pos[c]
    BY <1>3 DEF Frontier
  <2>2. pos[c] >= candidate
    BY <1>1, <1>2, <1>3, <2>1, NumDocsAssumption
  <2> QED  BY <1>2, <1>3, <1>11, <2>1, <2>2, NextGeqIs
<1>13. ASSUME NEW c \in 1..n
       PROVE  NextGeq(cursors[c], pos[c], candidate) = FirstGeq(cursors[c], candidate)
  <2>1. PICK m \in 0..from : pos[c] = FirstGeq(cursors[c], m)
    BY DEF Frontier
  <2>2. m \in 0..candidate
    BY <1>3, <1>7, <2>1, NumDocsAssumption
  <2> QED  BY <1>2, <1>3, <2>1, <2>2, NextGeqIs
<1> QED  BY <1>4, <1>7, <1>8, <1>9, <1>10, <1>12, <1>13

\* A step of a query that has not been answered yet.
LEMMA RunGoesOn ==
  ASSUME RunInv, pc # "answered", UNCHANGED <<call, floor>>,
         threshold' \in Nat, pos' \in [1..n -> 0..NumDocs], limit' \in 0..NumDocs,
         candidate' \in Nat, list' \in Nat \ {0},
         pc' \in {"begin", "scan", "aggregate", "answered"},
         pc' = "aggregate" => Alg(TermAtATime),
         pc' = "answered" => \A d \in Docs : Answered(d)'
  PROVE  RunInv'
<1>1. n' = n /\ (Alg(TermAtATime)' <=> Alg(TermAtATime))
  BY SameQuery
<1> QED  BY <1>1 DEF RunInv

\* The algorithm has come to its limit: if that is the end of the collection, all
\* documents must be done with.
LEMMA RangeEnds ==
  ASSUME RunInv, OutputInv, pc # "answered", EndRange,
         limit = NumDocs => \A d \in Docs : Answered(d),
         UNCHANGED <<queueVars, call, pos, candidate, list, results, floor>>
  PROVE  RunInv' /\ OutputInv' /\ limit <= limit' /\ pc' # "scan" /\ pc' # "aggregate"
<1>1. /\ OutputInv' /\ \A d : Held(d)' <=> Held(d)
      /\ \A d : Answered(d)' <=> Answered(d)
  BY SameAnswer
<1>2. call.range \in Nat /\ limit \in 0..NumDocs
  BY QueryIs DEF RunInv
<1>3. limit' \in 0..NumDocs /\ limit <= limit'
  <2>1. CASE limit = NumDocs
    BY <1>2, <2>1, NumDocsAssumption DEF EndRange
  <2>2. CASE limit # NumDocs
    BY <1>2, <2>2, RangeIsAfter DEF EndRange
  <2> QED  BY <2>1, <2>2
<1>4. pc' = "answered" => limit = NumDocs
  BY DEF EndRange
<1>5. pc' \in {"begin", "answered"} /\ threshold' = threshold
  BY DEF EndRange, queueVars
<1>6. RunInv'
  BY <1>1, <1>3, <1>4, <1>5, RunGoesOn DEF RunInv
<1> QED  BY <1>1, <1>3, <1>5, <1>6

LEMMA BeginDisjunctionInv == SessionInv /\ BeginDisjunction => SessionInv'
<1> SUFFICES ASSUME SessionInv, BeginDisjunction PROVE SessionInv'
  OBVIOUS
<1>1. /\ pc = "begin" /\ pc' = "scan" /\ Alg(DocumentAtATime \cup {"wave"})
      /\ candidate' = LeastOf(pos, Leading)
      /\ UNCHANGED <<queueVars, call, floor, results, pos, limit, list>>
  BY DEF BeginDisjunction
<1>2. RunInv /\ OutputInv
  BY DEF SessionInv
<1>3. /\ OutputInv' /\ \A d : Held(d)' <=> Held(d)
      /\ \A d : Answered(d)' <=> Answered(d)
  BY <1>1, <1>2, SameAnswer
<1>4. AccumulatorInv' /\ RangeInv' /\ ConjunctionInv' /\ BlocksInv' /\ ~ Alg(Conjunctions)
  BY <1>1, OnlyDisjunction
<1>5. PICK from \in 0..NumDocs : Frontier(from)
  BY <1>1 DEF SessionInv, DisjunctionInv
<1>6. candidate' \in 0..NumDocs /\ candidate' \in Nat
  <2>1. candidate' \in 0..NumDocs
    BY <1>1, <1>2, <1>4, <1>5, BeforeLeast
  <2> QED  BY <2>1, NumDocsAssumption
<1>7. Leading' = Leading /\ cursors' = cursors /\ n' = n
  BY <1>1, SameQuery
<1>8. Frontier(from)'
  BY <1>1, <1>3, <1>5, <1>7 DEF Frontier, DoneBefore
<1>9. LeastOf(pos, Leading)' = LeastOf(pos, Leading)
  BY <1>1, <1>7 DEF LeastOf
<1>10. DisjunctionInv'
  BY <1>1, <1>8, <1>9 DEF DisjunctionInv
<1>11. RunInv'
  <2>1. threshold' = threshold
    BY <1>1 DEF queueVars
  <2> QED  BY <1>1, <1>2, <1>6, <2>1, RunGoesOn DEF RunInv
<1> QED  BY <1>3, <1>4, <1>10, <1>11 DEF SessionInv

\* A document is done with and the cursors on it have moved on.
LEMMA FrontierMoves ==
  ASSUME RunInv, UNCHANGED call, candidate \in Docs, Gives(candidate),
         \A d \in Docs : d < candidate => Answered(d),
         \A d \in Docs : Held(d) => d < candidate,
         NEW m, m = candidate + 1,
         \A c \in Leading : pos'[c] = FirstGeq(cursors[c], m),
         \A c \in 1..n : \E k \in 0..m : pos'[c] = FirstGeq(cursors[c], k)
  PROVE  Frontier(m)'
<1>1. n' = n /\ cursors' = cursors /\ Leading' = Leading
  BY SameQuery
<1>2. ASSUME NEW d \in Docs PROVE (d < m => Answered(d)') /\ (Held(d)' => d < m)
  <2>1. d \in Nat /\ candidate \in Nat
    BY DocIs
  <2>2. d < m <=> d < candidate \/ d = candidate
    BY <2>1
  <2> QED  BY <2>2 DEF Gives
<1> QED  BY <1>1, <1>2 DEF Frontier, DoneBefore

LEMMA NextDocumentInv == SessionInv /\ NextDocument => SessionInv'
<1> SUFFICES ASSUME SessionInv, NextDocument PROVE SessionInv'
  OBVIOUS
<1> DEFINE here == {c \in 1..n : pos[c] = candidate}
<1>1. /\ pc = "scan" /\ pc' = "scan" /\ Alg(DocumentAtATime) /\ candidate < limit
      /\ pos' = [c \in 1..n |-> IF c \in here THEN NextFrom(cursors[c], pos[c]) ELSE pos[c]]
      /\ candidate' = Earliest({limit, LeastOf(pos', 1..n)})
      /\ UNCHANGED <<call, floor, limit, list>>
  BY DEF NextDocument
<1>2. IF Alg({"or"}) THEN results' = Append(results, candidate) /\ UNCHANGED queueVars
      ELSE Insert(SumOver(Contribution(cursors, candidate), here, n), candidate)
  BY DEF NextDocument
<1>3. RunInv /\ OutputInv /\ call \in Workload /\ limit \in 0..NumDocs /\ candidate \in Nat
      /\ threshold \in Nat /\ floor \in Nat
  BY DEF SessionInv, RunInv
<1>4. AccumulatorInv' /\ RangeInv' /\ ConjunctionInv' /\ BlocksInv' /\ ~ Alg(Conjunctions)
  BY <1>1, OnlyDisjunction DEF Alg
<1>5. Leading = 1..n
  BY <1>1 DEF Leading, Alg, DocumentAtATime
<1>6. PICK from \in 0..NumDocs : Frontier(from)
  BY <1>1 DEF SessionInv, DisjunctionInv, Alg
<1>7. candidate = LeastOf(pos, Leading) /\ candidate < NumDocs
  <2>1. candidate = LeastOf(pos, Leading) \/ candidate = limit
    BY <1>1 DEF SessionInv, DisjunctionInv, Alg
  <2> QED  BY <1>1, <1>3, <2>1, NumDocsAssumption
<1>8. /\ candidate \in Docs /\ candidate \in Matches
      /\ ~ Held(candidate) /\ \A e \in Docs : Held(e) => e < candidate
      /\ \A c \in Leading : pos[c] = FirstGeq(cursors[c], candidate)
  BY <1>3, <1>4, <1>6, <1>7, LeastIsNew
<1>9. \A d \in Docs : d < candidate => Answered(d)
  BY <1>3, <1>4, <1>6, <1>7, BeforeLeast
<1>10. Gives(candidate)
  <2>1. CASE Alg({"or"})
    <3>1. Boolean /\ Row(candidate) = candidate
      BY <2>1 DEF Boolean, Alg, Unranked, Row
    <3> QED  BY <1>1, <1>2, <1>3, <1>8, <2>1, <3>1, ListGives
  <2>2. CASE ~ Alg({"or"})
    <3>1. ~ Boolean
      BY <1>1, <2>2 DEF Boolean, Alg, Unranked, DocumentAtATime
    <3>2. SumOver(Contribution(cursors, candidate), here, n) = Worth[candidate]
      BY <1>3, <1>5, <1>8, ScoreIs
    <3>3. Insert(Worth[candidate], candidate)
      BY <1>2, <2>2, <3>2
    <3> QED  BY <1>1, <1>3, <1>8, <3>1, <3>3, OfferGives
  <2> QED  BY <2>1, <2>2
<1>11. PICK m : m = candidate + 1
  OBVIOUS
<1>12. \A c \in 1..n : Posted(cursors[c]) \subseteq Docs
  BY <1>3, QueryIs
<1>13. ASSUME NEW c \in 1..n
       PROVE  pos'[c] = FirstGeq(cursors[c], m) /\ m \in 0..NumDocs
  <2>1. pos[c] = FirstGeq(cursors[c], candidate)
    BY <1>5, <1>8
  <2>2. pos'[c] = IF FirstGeq(cursors[c], candidate) = candidate
                  THEN NextFrom(cursors[c], FirstGeq(cursors[c], candidate))
                  ELSE FirstGeq(cursors[c], candidate)
    BY <1>1, <2>1
  <2> QED  BY <1>8, <1>11, <1>12, <2>2, MovedOnIs
<1>14. m \in 0..NumDocs /\ m \in 0..m
  BY <1>8, <1>11, DocIs, NumDocsAssumption
<1>15. \A c \in 1..n : pos'[c] \in 0..NumDocs
  BY <1>12, <1>13, <1>14, FirstGeqIsNext
<1>16. pos' \in [1..n -> 0..NumDocs]
  BY <1>1, <1>15
<1>17. Frontier(m)'
  BY <1>1, <1>3, <1>5, <1>8, <1>9, <1>10, <1>11, <1>13, <1>14, FrontierMoves
<1>18. /\ LeastOf(pos', 1..n) \in 0..NumDocs
       /\ candidate' \in {limit, LeastOf(pos', 1..n)}
       /\ candidate' <= LeastOf(pos', 1..n)
  <2>1. LeastOf(pos', 1..n) \in 0..NumDocs
    BY <1>15, LeastOfIs
  <2> DEFINE S == {limit, LeastOf(pos', 1..n)}
  <2>2. S \subseteq Nat /\ S # {}
    BY <1>3, <2>1, NumDocsAssumption
  <2>3. Earliest(S) \in S /\ \A e \in S : Earliest(S) <= e
    BY <2>2, EarliestIsLeast
  <2> QED  BY <1>1, <2>1, <2>3
<1>19. LeastOf(pos, Leading)' = LeastOf(pos', 1..n)
  <2>1. Leading' = 1..n
    BY <1>1, <1>5, SameQuery
  <2> QED  BY <2>1 DEF LeastOf
<1>20. DisjunctionInv'
  <2>1. Alg(DocumentAtATime)'
    BY <1>1, SameQuery DEF Alg
  <2>2. \/ candidate' = LeastOf(pos, Leading)'
        \/ candidate' = limit' /\ limit' <= LeastOf(pos, Leading)'
    BY <1>1, <1>18, <1>19
  <2> QED  BY <1>14, <1>17, <2>1, <2>2 DEF DisjunctionInv
<1>21. RunInv'
  <2>1. candidate' \in Nat
    BY <1>3, <1>18, NumDocsAssumption
  <2>2. threshold' \in Nat
    BY <1>10 DEF Gives
  <2> QED  BY <1>1, <1>3, <1>16, <2>1, <2>2, RunGoesOn DEF RunInv
<1> QED  BY <1>4, <1>10, <1>20, <1>21 DEF SessionInv, Gives

LEMMA EndDisjunctionInv == SessionInv /\ EndDisjunction => SessionInv'
<1> SUFFICES ASSUME SessionInv, EndDisjunction PROVE SessionInv'
  OBVIOUS
<1>1. /\ pc = "scan" /\ Alg(DocumentAtATime) /\ candidate >= limit /\ EndRange
      /\ UNCHANGED <<queueVars, call, pos, candidate, list, results, floor>>
  BY DEF EndDisjunction
<1>2. RunInv /\ OutputInv /\ limit \in 0..NumDocs
  BY DEF SessionInv, RunInv
<1>3. AccumulatorInv' /\ RangeInv' /\ ConjunctionInv' /\ BlocksInv' /\ ~ Alg(Conjunctions)
  BY <1>1, OnlyDisjunction DEF Alg
<1>4. PICK from \in 0..NumDocs : Frontier(from)
  BY <1>1 DEF SessionInv, DisjunctionInv, Alg
<1>5. /\ LeastOf(pos, Leading) \in 0..NumDocs
      /\ \A d \in Docs : d < LeastOf(pos, Leading) => Answered(d)
  BY <1>2, <1>3, <1>4, BeforeLeast
<1>6. limit <= LeastOf(pos, Leading)
  <2>1. candidate = LeastOf(pos, Leading) \/ limit <= LeastOf(pos, Leading)
    BY <1>1 DEF SessionInv, DisjunctionInv, Alg
  <2> QED  BY <1>1, <1>2, <1>5, <2>1, NumDocsAssumption
<1>7. limit = NumDocs => \A d \in Docs : Answered(d)
  BY <1>2, <1>5, <1>6, DocIs, NumDocsAssumption
<1>8. RunInv' /\ OutputInv' /\ pc' # "scan"
  BY <1>1, <1>2, <1>7, RangeEnds
<1>9. /\ \A d : Held(d)' <=> Held(d)
      /\ \A d : Answered(d)' <=> Answered(d)
      /\ n' = n /\ cursors' = cursors /\ Leading' = Leading
  BY <1>1, SameAnswer, SameQuery
<1>10. Frontier(from)'
  BY <1>1, <1>4, <1>9 DEF Frontier, DoneBefore
<1> QED  BY <1>3, <1>8, <1>10 DEF SessionInv, DisjunctionInv

\* The lists of a wave that documents are taken from, and those they are looked up in.
LEMMA LowIs ==
  ASSUME call \in Workload, Alg({"wave"})
  PROVE  /\ Leading = 1..call.high /\ Leading \subseteq 1..n
         /\ \A c \in 1..n : c \in Low <=> c \notin Leading
         /\ ~ Boolean /\ ~ Alg(DocumentAtATime)
<1>1. Leading = 1..call.high /\ Leading \subseteq 1..n /\ call.high \in 0..n /\ n \in Nat
  BY QueryIs DEF Leading
<1>2. \A c \in 1..n : c \in Low <=> c \notin Leading
  BY <1>1 DEF Low
<1>3. ~ Boolean /\ ~ Alg(DocumentAtATime)
  BY DEF Boolean, Alg, Unranked, DocumentAtATime
<1> QED  BY <1>1, <1>2, <1>3

LEMMA NextHighDocumentInv == SessionInv /\ NextHighDocument => SessionInv'
<1> SUFFICES ASSUME SessionInv, NextHighDocument PROVE SessionInv'
  OBVIOUS
<1> DEFINE at == [c \in 1..n |->
                    IF c \in Low THEN NextGeq(cursors[c], pos[c], candidate) ELSE pos[c]]
           here == {c \in 1..n : at[c] = candidate}
<1>1. /\ pc = "scan" /\ pc' = "scan" /\ Alg({"wave"}) /\ candidate < NumDocs
      /\ Insert(SumOver(Contribution(cursors, candidate), here, n), candidate)
      /\ pos' = [c \in 1..n |-> IF c \in here \ Low THEN NextFrom(cursors[c], at[c]) ELSE at[c]]
      /\ candidate' = LeastOf(pos', 1..call.high)
      /\ UNCHANGED <<call, floor, limit, list>>
  BY DEF NextHighDocument
<1>2. RunInv /\ OutputInv /\ call \in Workload /\ limit \in 0..NumDocs
      /\ threshold \in Nat /\ floor \in Nat
  BY DEF SessionInv, RunInv
<1>3. AccumulatorInv' /\ RangeInv' /\ ConjunctionInv' /\ BlocksInv' /\ ~ Alg(Conjunctions)
  BY <1>1, OnlyDisjunction DEF Alg
<1>4. /\ Leading = 1..call.high /\ Leading \subseteq 1..n
      /\ \A c \in 1..n : c \in Low <=> c \notin Leading
      /\ ~ Boolean /\ ~ Alg(DocumentAtATime)
  BY <1>1, <1>2, LowIs
<1>5. PICK from \in 0..NumDocs : Frontier(from)
  BY <1>1 DEF SessionInv, DisjunctionInv, Alg
<1>6. candidate = LeastOf(pos, Leading)
  BY <1>1, <1>4 DEF SessionInv, DisjunctionInv, Alg
<1>7. /\ candidate \in Docs /\ candidate \in Matches
      /\ ~ Held(candidate) /\ \A e \in Docs : Held(e) => e < candidate
      /\ \A c \in Leading : pos[c] = FirstGeq(cursors[c], candidate)
      /\ \A c \in 1..n : NextGeq(cursors[c], pos[c], candidate) = FirstGeq(cursors[c], candidate)
  BY <1>1, <1>2, <1>3, <1>5, <1>6, LeastIsNew
<1>8. \A d \in Docs : d < candidate => Answered(d)
  BY <1>2, <1>3, <1>5, <1>6, BeforeLeast
<1>9. \A c \in 1..n : at[c] = FirstGeq(cursors[c], candidate)
  BY <1>4, <1>7
<1>10. \A c \in 1..n : pos'[c] = IF at[c] = candidate /\ c \in Leading
                                 THEN NextFrom(cursors[c], at[c]) ELSE at[c]
  BY <1>1, <1>4
<1>11. Insert(SumOver(Contribution(cursors, candidate), {c \in 1..n : at[c] = candidate}, n),
              candidate)
  BY <1>1
<1>12. pos' \in [1..n -> {pos'[c] : c \in 1..n}]
  BY <1>1
<1> HIDE DEF at
<1>13. Gives(candidate)
  <2>1. SumOver(Contribution(cursors, candidate), {c \in 1..n : at[c] = candidate}, n)
          = Worth[candidate]
    BY <1>2, <1>7, <1>9, ScoreIs
  <2>2. Insert(Worth[candidate], candidate)
    BY <1>11, <2>1
  <2> QED  BY <1>1, <1>2, <1>4, <1>7, <2>2, OfferGives
<1>14. PICK m : m = candidate + 1
  OBVIOUS
<1>15. \A c \in 1..n : Posted(cursors[c]) \subseteq Docs
  BY <1>2, QueryIs
<1>16. m \in 0..NumDocs /\ m \in 0..m /\ candidate \in 0..m /\ candidate \in 0..NumDocs
  BY <1>7, <1>14, DocIs, NumDocsAssumption
<1>17. \A c \in Leading : pos'[c] = FirstGeq(cursors[c], m)
  <2> TAKE c \in Leading
  <2>1. pos'[c] = IF FirstGeq(cursors[c], candidate) = candidate
                  THEN NextFrom(cursors[c], FirstGeq(cursors[c], candidate))
                  ELSE FirstGeq(cursors[c], candidate)
    BY <1>4, <1>9, <1>10
  <2> QED  BY <1>4, <1>7, <1>14, <1>15, <2>1, MovedOnIs
<1>18. ASSUME NEW c \in 1..n
       PROVE  \E k \in 0..m : pos'[c] = FirstGeq(cursors[c], k) /\ k \in 0..NumDocs
  <2>1. CASE c \in Leading
    BY <1>16, <1>17, <2>1
  <2>2. CASE c \notin Leading
    BY <1>9, <1>10, <1>16, <2>2
  <2> QED  BY <2>1, <2>2
<1>19. \A c \in 1..n : pos'[c] \in 0..NumDocs
  <2> TAKE c \in 1..n
  <2>1. PICK k \in 0..m : pos'[c] = FirstGeq(cursors[c], k) /\ k \in 0..NumDocs
    BY <1>18
  <2> QED  BY <1>15, <2>1, FirstGeqIsNext
<1>20. pos' \in [1..n -> 0..NumDocs]
  BY <1>12, <1>19
<1>21. Frontier(m)'
  BY <1>1, <1>2, <1>7, <1>8, <1>13, <1>14, <1>17, <1>18, FrontierMoves
<1>22. candidate' = LeastOf(pos, Leading)' /\ candidate' \in 0..NumDocs
  <2>1. Leading' = 1..call.high
    BY <1>1, <1>4, SameQuery
  <2>2. LeastOf(pos, Leading)' = LeastOf(pos', 1..call.high)
    BY <2>1 DEF LeastOf
  <2>3. \A c \in 1..call.high : pos'[c] \in 0..NumDocs
    BY <1>4, <1>19
  <2>4. LeastOf(pos', 1..call.high) \in 0..NumDocs
    BY <2>3, LeastOfIs
  <2> QED  BY <1>1, <2>2, <2>4
<1>23. DisjunctionInv'
  BY <1>16, <1>21, <1>22 DEF DisjunctionInv
<1>24. RunInv'
  <2>1. candidate' \in Nat
    BY <1>22, NumDocsAssumption
  <2>2. threshold' \in Nat
    BY <1>13 DEF Gives
  <2> QED  BY <1>1, <1>2, <1>20, <2>1, <2>2, RunGoesOn DEF RunInv
<1> QED  BY <1>3, <1>13, <1>23, <1>24 DEF SessionInv, Gives

LEMMA GiveUpLowInv == SessionInv /\ GiveUpLow => SessionInv'
<1> SUFFICES ASSUME SessionInv, GiveUpLow PROVE SessionInv'
  OBVIOUS
<1>1. /\ pc = "scan" /\ pc' = "answered" /\ Alg({"wave"}) /\ candidate >= NumDocs
      /\ pos' = [c \in 1..n |-> IF c \in Low
                                THEN Earliest({NumDocs} \cup {d \in Posted(cursors[c]) :
                                                ~\E i \in DOMAIN results : results[i] = d})
                                ELSE pos[c]]
      /\ UNCHANGED <<queueVars, call, floor, limit, candidate, list, results>>
  BY DEF GiveUpLow
<1>2. RunInv /\ OutputInv /\ call \in Workload /\ pos \in [1..n -> 0..NumDocs]
  BY DEF SessionInv, RunInv
<1>3. AccumulatorInv' /\ RangeInv' /\ ConjunctionInv' /\ BlocksInv' /\ ~ Alg(Conjunctions)
  BY <1>1, OnlyDisjunction DEF Alg
<1>4. PICK from \in 0..NumDocs : Frontier(from)
  BY <1>1 DEF SessionInv, DisjunctionInv, Alg
<1>5. candidate = LeastOf(pos, Leading)
  <2>1. ~ Alg(DocumentAtATime)
    BY <1>1 DEF Alg, DocumentAtATime
  <2> QED  BY <1>1, <2>1 DEF SessionInv, DisjunctionInv, Alg
<1>6. \A d \in Docs : Answered(d)
  <2>1. \A d \in Docs : d < candidate => Answered(d)
    BY <1>2, <1>3, <1>4, <1>5, BeforeLeast
  <2>2. candidate \in Nat
    BY DEF SessionInv, RunInv
  <2> QED  BY <1>1, <2>1, <2>2, DocIs, NumDocsAssumption
<1>7. /\ OutputInv' /\ \A d : Answered(d)' <=> Answered(d)
  BY <1>1, <1>2, SameAnswer
<1>8. ASSUME NEW c \in 1..n PROVE pos'[c] \in 0..NumDocs
  <2> DEFINE S == {NumDocs} \cup {d \in Posted(cursors[c]) :
                                    ~\E i \in DOMAIN results : results[i] = d}
  <2>1. Posted(cursors[c]) \subseteq 0..NumDocs
    BY <1>2, QueryIs, DocIs, NumDocsAssumption
  <2>2. S \subseteq 0..NumDocs /\ S \subseteq Nat /\ S # {}
    BY <2>1, NumDocsAssumption
  <2>3. Earliest(S) \in S
    BY <2>2, EarliestIsLeast
  <2>4. pos'[c] = Earliest(S) \/ pos'[c] = pos[c]
    BY <1>1
  <2> HIDE DEF S
  <2> QED  BY <1>2, <2>2, <2>3, <2>4
<1>9. pos' \in [1..n -> 0..NumDocs]
  <2>1. pos' \in [1..n -> {pos'[c] : c \in 1..n}]
    BY <1>1
  <2> QED  BY <1>8, <2>1
<1>10. RunInv'
  <2>1. threshold' = threshold /\ threshold \in Nat
    BY <1>1, <1>2 DEF queueVars, RunInv
  <2> QED  BY <1>1, <1>2, <1>6, <1>7, <1>9, <2>1, RunGoesOn DEF RunInv
<1>11. DisjunctionInv'
  BY <1>1 DEF DisjunctionInv
<1> QED  BY <1>3, <1>7, <1>10, <1>11 DEF SessionInv

-----------------------------------------------------------------------------
(* Term at a time.                                                         *)

LEMMA OnlyTermAtATime ==
  ASSUME UNCHANGED call, Alg(TermAtATime)
  PROVE  /\ DisjunctionInv' /\ ConjunctionInv' /\ BlocksInv'
         /\ ~ Boolean /\ ~ Alg(Conjunctions) /\ Leading = 1..n /\ Alg(TermAtATime)'
<1>1. /\ ~ Alg(DocumentAtATime \cup {"wave"}) /\ ~ Alg(Conjunctions) /\ ~ Alg(WithBlocks)
      /\ ~ Alg({"wave"}) /\ ~ Boolean
  BY DEF Alg, DocumentAtATime, TermAtATime, Conjunctions, WithBlocks, Boolean, Unranked
<1>2. /\ ~ Alg(DocumentAtATime \cup {"wave"})' /\ ~ Alg(Conjunctions)' /\ ~ Alg(WithBlocks)'
      /\ Alg(TermAtATime)'
  BY <1>1, SameQuery DEF Alg
<1>3. Leading = 1..n
  BY <1>1 DEF Leading
<1> QED  BY <1>1, <1>2, <1>3 DEF DisjunctionInv, ConjunctionInv, BlocksInv

\* Which lists without the document are summed over makes no difference.
LEMMA SummedSame ==
  ASSUME call \in Workload, NEW d, NEW S, NEW T,
         \A c \in 1..n : d \in Posted(cursors[c]) => (c \in S <=> c \in T)
  PROVE  SumOver(Contribution(cursors, d), S, n) = SumOver(Contribution(cursors, d), T, n)
<1> DEFINE f == Contribution(cursors, d)
<1>1. /\ n \in Nat /\ n = Len(cursors) /\ \A c \in 1..n : IsCursor(cursors[c])
  BY QueryIs
<1>2. NatsTo(f, n) /\ \A c \in 1..n : d \notin Posted(cursors[c]) => f[c] = 0
  BY <1>1, ContributionNat
<1> HIDE DEF f
<1>3. \A c \in 1..n : (IF c \in S THEN f[c] ELSE 0) = (IF c \in T THEN f[c] ELSE 0)
  BY <1>2
<1>4. SumOver(f, S, n) = SumOver(f, T, n)
  BY <1>1, <1>2, <1>3, SumOverSame
<1> QED  BY <1>4 DEF f

\* An accumulator with the given slots, and what becomes of it when document d is
\* added to.
HasSlots(a, S) == a.sums \in [S -> Nat] /\ a.counters \in [S -> Nat] /\ a.counter \in Nat

AddedTo(a, b, S, d, score) ==
  /\ b.kind = a.kind /\ b.counter = a.counter
  /\ b.sums \in [S -> Nat] /\ b.counters \in [S -> Nat]
  /\ \A e \in S : AccumulatedScore(b, e) =
       IF e = d THEN AccumulatedScore(a, d) + score ELSE AccumulatedScore(a, e)
  /\ \A e \in S : b.counters[e] = a.counters[e] \/ b.counters[e] = a.counter
  /\ AccumulatedScore(a, d) \in Nat

LEMMA AccumulateIs ==
  ASSUME NEW a, NEW S, HasSlots(a, S), NEW d \in S, NEW score \in Nat
  PROVE  AddedTo(a, Accumulate(a, d, score), S, d, score)
<1> DEFINE b == Accumulate(a, d, score)
<1>1. a.sums \in [S -> Nat] /\ a.counters \in [S -> Nat] /\ a.counter \in Nat
  BY DEF HasSlots
<1> DEFINE sum == AccumulatedScore(a, d)
<1>2. sum \in Nat
  BY <1>1 DEF AccumulatedScore
<1>3. /\ b.kind = a.kind /\ b.counter = a.counter
      /\ b.sums = [a.sums EXCEPT ![d] = sum + score]
      /\ b.counters = [a.counters EXCEPT ![d] = a.counter]
  BY DEF Accumulate
<1> HIDE DEF sum, b
<1>4. sum + score \in Nat
  BY <1>2
<1>5. b.sums \in [S -> Nat] /\ b.counters \in [S -> Nat]
  BY <1>1, <1>3, <1>4
<1>6. \A e \in S : /\ b.sums[e] = IF e = d THEN sum + score ELSE a.sums[e]
                   /\ b.counters[e] = IF e = d THEN a.counter ELSE a.counters[e]
  BY <1>1, <1>3
<1>7. \A e \in S : AccumulatedScore(b, e) = IF e = d THEN sum + score ELSE AccumulatedScore(a, e)
  BY <1>3, <1>6 DEF AccumulatedScore
<1> QED  BY <1>2, <1>3, <1>5, <1>6, <1>7 DEF sum, b, AddedTo

LEMMA BeginAccumulatingInv == SessionInv /\ BeginAccumulating => SessionInv'
<1> SUFFICES ASSUME SessionInv, BeginAccumulating PROVE SessionInv'
  OBVIOUS
<1>1. /\ pc = "begin" /\ pc' = "scan" /\ Alg(TermAtATime)
      /\ acc' = InitAccumulator(acc) /\ list' = 1
      /\ UNCHANGED <<queueVars, call, pos, limit, candidate, results, floor>>
  BY DEF BeginAccumulating
<1>2. /\ RunInv /\ OutputInv /\ call \in Workload /\ limit \in 0..NumDocs
      /\ pos \in [1..n -> 0..NumDocs] /\ AccumulatorInv
  BY DEF SessionInv, RunInv
<1>3. /\ DisjunctionInv' /\ ConjunctionInv' /\ BlocksInv' /\ Alg(TermAtATime)'
  BY <1>1, OnlyTermAtATime
<1>4. /\ OutputInv' /\ \A d : Held(d)' <=> Held(d)
      /\ \A d : Answered(d)' <=> Answered(d)
      /\ n' = n /\ cursors' = cursors
  BY <1>1, <1>2, SameAnswer, SameQuery
<1>5. PICK from \in 0..limit :
        DoneBefore(from) /\ \A c \in 1..n : pos[c] = FirstGeq(cursors[c], from)
  BY <1>1 DEF SessionInv, RangeInv
<1>6. RunInv'
  <2>1. threshold' = threshold
    BY <1>1 DEF queueVars
  <2> QED  BY <1>1, <1>2, <2>1, RunGoesOn DEF RunInv
<1>7. /\ acc.kind \in {"simple", "lazy"} /\ acc.counter \in 0..(Cycle - 1)
      /\ acc.sums \in [Slots(acc.kind) -> Nat] /\ acc.counters \in [Slots(acc.kind) -> Nat]
      /\ acc.kind = "simple" => acc.counter = 0
      /\ \A d \in Slots(acc.kind) :
           acc.kind = "simple" \/ acc.counter = 0 \/ acc.counters[d] < acc.counter
  BY <1>1, <1>2 DEF AccumulatorInv
<1>8. acc.counter \in Nat /\ Cycle \in Nat
  BY <1>7, AccumulatorsAssumption
<1>9. /\ acc'.kind = acc.kind /\ acc'.counter = acc.counter
      /\ acc'.sums \in [Slots(acc.kind) -> Nat] /\ acc'.counters \in [Slots(acc.kind) -> Nat]
      /\ \A d \in Slots(acc.kind) :
           acc'.counters[d] <= acc.counter /\ AccumulatedScore(acc', d) = 0
  <2>1. CASE acc.kind = "simple" \/ acc.counter = 0
    <3>1. /\ acc'.kind = acc.kind /\ acc'.counter = acc.counter
          /\ acc'.sums = [d \in Slots(acc.kind) |-> 0]
          /\ acc'.counters = [d \in Slots(acc.kind) |-> 0]
      BY <1>1, <2>1 DEF InitAccumulator, Cleared
    <3> QED  BY <1>8, <3>1 DEF AccumulatedScore
  <2>2. CASE ~ (acc.kind = "simple" \/ acc.counter = 0)
    <3>1. acc' = acc
      BY <1>1, <2>2 DEF InitAccumulator
    <3>2. \A d \in Slots(acc.kind) : acc.counters[d] \in Nat /\ acc.counters[d] < acc.counter
      BY <1>7, <2>2
    <3>3. \A d \in Slots(acc.kind) : acc.counters[d] <= acc.counter /\ acc.counters[d] # acc.counter
      BY <1>8, <3>2
    <3> QED  BY <1>7, <3>1, <3>3 DEF AccumulatedScore
  <2> QED  BY <2>1, <2>2
<1>10. AccumulatorInv'
  BY <1>1, <1>7, <1>9 DEF AccumulatorInv
<1>11. /\ n \in Nat /\ n = Len(cursors)
       /\ \A c \in 1..n : IsCursor(cursors[c]) /\ Posted(cursors[c]) \subseteq Docs
  BY <1>2, QueryIs
<1>12. from \in 0..NumDocs /\ from \in from..limit
  BY <1>2, NumDocsAssumption
<1>13. ASSUME NEW d \in from..(limit - 1)
       PROVE  SumOver(Contribution(cursors, d), {c \in 1..n : d < pos[c]}, n) = 0
  <2>1. ASSUME NEW c \in 1..n, d \in Posted(cursors[c])
        PROVE  ~ (d < pos[c])
    <3>1. d \in Nat /\ from <= d
      BY <1>2, <1>12, NumDocsAssumption
    <3>2. pos[c] <= d
      BY <1>5, <1>11, <1>12, <2>1, <3>1, FirstGeqIsNext
    <3>3. pos[c] \in Nat
      BY <1>2, NumDocsAssumption
    <3> QED  BY <3>1, <3>2, <3>3
  <2> DEFINE S == {c \in 1..n : d < pos[c]}
  <2>2. SumOver(Contribution(cursors, d), S, n) = SumOver(Contribution(cursors, d), {}, n)
    <3>1. \A c \in 1..n : d \in Posted(cursors[c]) => (c \in S <=> c \in {})
      BY <2>1
    <3> HIDE DEF S
    <3> QED  BY <1>2, <3>1, SummedSame
  <2>3. NatsTo(Contribution(cursors, d), n)
    BY <1>11, ContributionNat
  <2> QED  BY <1>11, <2>2, <2>3, SumOverEmpty
<1>14. Summed(from)'
  <2>1. \A c \in 1..n : ~ (c < 1)
    OBVIOUS
  <2>2. 1 <= n => 1 \in 1..n
    BY <1>11
  <2>3. \A d \in Slots(acc.kind) : AccumulatedScore(acc', d) = 0
    BY <1>9
  <2> QED  BY <1>1, <1>4, <1>5, <1>9, <1>12, <1>13, <2>1, <2>2, <2>3 DEF Summed
<1>15. DoneBefore(from)'
  BY <1>4, <1>5 DEF DoneBefore
<1>16. RangeInv'
  BY <1>1, <1>14, <1>15 DEF RangeInv
<1> QED  BY <1>3, <1>4, <1>6, <1>10, <1>16 DEF SessionInv

\* Where the present list stands, in the range from `from` to limit.
LEMMA PresentList ==
  ASSUME RunInv, AccumulatorInv, Alg(TermAtATime), pc = "scan", list <= n,
         NEW from \in 0..limit, Summed(from)
  PROVE  /\ list \in 1..n /\ Posted(cursors[list]) \subseteq Docs
         /\ pos[list] >= limit => pos[list] = FirstGeq(cursors[list], limit)
         /\ pos[list] < limit =>
              /\ pos[list] \in Posted(cursors[list]) /\ from <= pos[list]
              /\ pos[list] \in Slots(acc.kind) /\ cursors[list].post[pos[list]] \in Nat
<1>1. /\ call \in Workload /\ limit \in 0..NumDocs /\ list \in Nat \ {0}
      /\ pos \in [1..n -> 0..NumDocs]
  BY DEF RunInv
<1>2. n \in Nat /\ \A c \in 1..n : IsCursor(cursors[c]) /\ Posted(cursors[c]) \subseteq Docs
  BY <1>1, QueryIs
<1>3. list \in 1..n
  BY <1>1, <1>2
<1>4. PICK m \in from..limit : pos[list] = FirstGeq(cursors[list], m)
  BY DEF Summed
<1>5. m \in 0..limit /\ m \in 0..NumDocs /\ from <= m
  BY <1>1, NumDocsAssumption
<1>6. pos[list] >= limit => pos[list] = FirstGeq(cursors[list], limit)
  BY <1>1, <1>2, <1>3, <1>4, <1>5, NextGeqIs
<1>7. ASSUME pos[list] < limit
      PROVE  /\ pos[list] \in Posted(cursors[list]) /\ from <= pos[list]
             /\ pos[list] \in Slots(acc.kind) /\ cursors[list].post[pos[list]] \in Nat
  <2>1. pos[list] \in Nat /\ pos[list] < NumDocs
    BY <1>1, <1>3, <1>7, NumDocsAssumption
  <2>2. pos[list] \in Posted(cursors[list]) /\ m <= pos[list]
    BY <1>2, <1>3, <1>4, <1>5, <2>1, FirstGeqIsNext
  <2>3. from <= pos[list]
    BY <1>5, <2>1, <2>2
  <2>4. PICK last \in Nat : Slots(acc.kind) = 0..last /\ NumDocs - 1 <= last
    BY SlotsAre
  <2>5. pos[list] \in Slots(acc.kind)
    BY <2>1, <2>4, NumDocsAssumption
  <2> QED  BY <1>2, <1>3, <2>2, <2>3, <2>5 DEF IsCursor
<1> QED  BY <1>2, <1>3, <1>6, <1>7

\* One more posting counts for its document and for no other.
LEMMA SummedPosting ==
  ASSUME call \in Workload, pos \in [1..n -> 0..NumDocs], NEW l \in 1..n,
         pos[l] \in Posted(cursors[l]), NEW q, q = NextFrom(cursors[l], pos[l]), NEW d \in Docs
  PROVE  SumOver(Contribution(cursors, d), {c \in 1..n : d < [pos EXCEPT ![l] = q][c]}, n)
           = SumOver(Contribution(cursors, d), {c \in 1..n : d < pos[c]}, n)
             + IF d = pos[l] THEN cursors[l].post[d] ELSE 0
<1> DEFINE f == Contribution(cursors, d)
           S == {c \in 1..n : d < pos[c]}
           T == {c \in 1..n : d < [pos EXCEPT ![l] = q][c]}
<1>1. /\ n \in Nat /\ n = Len(cursors)
      /\ \A c \in 1..n : IsCursor(cursors[c]) /\ Posted(cursors[c]) \subseteq Docs
  BY QueryIs
<1>2. NatsTo(f, n)
  BY <1>1, ContributionNat
<1>3. pos[l] \in Docs /\ pos[l] \in Nat /\ d \in Nat /\ pos[l] + 1 \in 0..NumDocs
  BY <1>1, DocIs, NumDocsAssumption
<1>4. q = FirstGeq(cursors[l], pos[l] + 1)
  BY DEF NextFrom
<1>5. /\ q \in 0..NumDocs /\ q >= pos[l] + 1
      /\ \A e \in Posted(cursors[l]) : pos[l] + 1 <= e => q <= e
  BY <1>1, <1>3, <1>4, FirstGeqIsNext
<1>6. q \in Nat
  BY <1>5, NumDocsAssumption
<1>7. \A c \in 1..n : c \in T <=> IF c = l THEN d < q ELSE c \in S
  OBVIOUS
<1>8. l \in S <=> d < pos[l]
  OBVIOUS
<1>9. CASE d = pos[l]
  <2>1. l \notin S /\ d < q
    BY <1>3, <1>5, <1>6, <1>8, <1>9
  <2>2. T = S \cup {l}
    BY <1>7, <2>1
  <2>3. f[l] = cursors[l].post[d]
    BY <1>1, <1>9 DEF Contribution
  <2> HIDE DEF f, S, T
  <2>4. SumOver(f, T, n) = SumOver(f, S, n) + f[l]
    BY <1>1, <1>2, <2>1, <2>2, SumOverAdd
  <2> QED  BY <1>9, <2>3, <2>4 DEF f, S, T
<1>10. CASE d # pos[l]
  <2>1. ASSUME NEW c \in 1..n, d \in Posted(cursors[c])
        PROVE  c \in S <=> c \in T
    <3>1. CASE c = l
      <4>1. pos[l] + 1 <= d => q <= d
        BY <1>5, <2>1, <3>1
      <4>2. d < q <=> d < pos[l]
        BY <1>3, <1>5, <1>6, <1>10, <4>1
      <4> QED  BY <1>7, <1>8, <3>1, <4>2
    <3>2. CASE c # l
      BY <1>7, <3>2
    <3> QED  BY <3>1, <3>2
  <2>2. SumOver(f, S, n) \in Nat
    BY <1>1, <1>2, SumOverNat
  <2> HIDE DEF S, T
  <2>3. SumOver(f, S, n) = SumOver(f, T, n)
    BY <2>1, SummedSame
  <2> HIDE DEF f
  <2> QED  BY <1>10, <2>2, <2>3 DEF f, S, T
<1> QED  BY <1>9, <1>10

LEMMA AccumulatePostingInv == SessionInv /\ AccumulatePosting => SessionInv'
<1> SUFFICES ASSUME SessionInv, AccumulatePosting PROVE SessionInv'
  OBVIOUS
<1>1. /\ pc = "scan" /\ pc' = "scan" /\ Alg(TermAtATime) /\ list <= n
      /\ UNCHANGED <<queueVars, call, limit, candidate, results, floor>>
  BY DEF AccumulatePosting
<1>2. IF pos[list] < limit
      THEN /\ acc' = Accumulate(acc, pos[list], cursors[list].post[pos[list]])
           /\ pos' = [pos EXCEPT ![list] = NextFrom(cursors[list], @)]
           /\ list' = list
      ELSE list' = list + 1 /\ acc' = acc /\ pos' = pos
  BY DEF AccumulatePosting
<1>3. /\ RunInv /\ OutputInv /\ call \in Workload /\ limit \in 0..NumDocs /\ list \in Nat \ {0}
      /\ pos \in [1..n -> 0..NumDocs] /\ AccumulatorInv
  BY DEF SessionInv, RunInv
<1>4. /\ DisjunctionInv' /\ ConjunctionInv' /\ BlocksInv' /\ Alg(TermAtATime)'
  BY <1>1, OnlyTermAtATime
<1>5. /\ OutputInv' /\ \A d : Held(d)' <=> Held(d)
      /\ \A d : Answered(d)' <=> Answered(d)
      /\ n' = n /\ cursors' = cursors
  BY <1>1, <1>3, SameAnswer, SameQuery
<1>6. PICK from \in 0..limit : DoneBefore(from) /\ Summed(from)
  BY <1>1 DEF SessionInv, RangeInv
<1>7. DoneBefore(from)'
  BY <1>5, <1>6 DEF DoneBefore
<1>8. /\ list \in 1..n /\ Posted(cursors[list]) \subseteq Docs
      /\ pos[list] >= limit => pos[list] = FirstGeq(cursors[list], limit)
      /\ pos[list] < limit =>
           /\ pos[list] \in Posted(cursors[list]) /\ from <= pos[list]
           /\ pos[list] \in Slots(acc.kind) /\ cursors[list].post[pos[list]] \in Nat
  BY <1>1, <1>3, <1>6, PresentList
<1>9. /\ \A c \in 1..n : c < list => pos[c] = FirstGeq(cursors[c], limit)
      /\ \A c \in 1..n : c > list => pos[c] = FirstGeq(cursors[c], from)
      /\ \A d \in Slots(acc.kind) :
           AccumulatedScore(acc, d) =
             IF d \in from..(limit - 1)
             THEN SumOver(Contribution(cursors, d), {c \in 1..n : d < pos[c]}, n) ELSE 0
  BY <1>6 DEF Summed
<1>10. pos[list] \in 0..NumDocs /\ pos[list] \in Nat /\ limit \in Nat /\ n \in Nat
  BY <1>3, <1>8, NumDocsAssumption, QueryIs
<1>11. threshold' = threshold /\ threshold \in Nat
  BY <1>1, <1>3 DEF queueVars, RunInv
<1>12. CASE pos[list] < limit
  <2> DEFINE d0 == pos[list]
             score == cursors[list].post[d0]
             q == NextFrom(cursors[list], d0)
  <2>1. /\ acc' = Accumulate(acc, d0, score) /\ pos' = [pos EXCEPT ![list] = q] /\ list' = list
    BY <1>2, <1>12
  <2>2. /\ acc.kind \in {"simple", "lazy"} /\ acc.counter \in 0..(Cycle - 1)
        /\ acc.sums \in [Slots(acc.kind) -> Nat] /\ acc.counters \in [Slots(acc.kind) -> Nat]
        /\ acc.kind = "simple" => acc.counter = 0
        /\ \A d \in Slots(acc.kind) : acc.counters[d] <= acc.counter
    BY <1>1, <1>3 DEF AccumulatorInv
  <2>3. acc.counter \in Nat
    BY <2>2, AccumulatorsAssumption
  <2>4. d0 \in Posted(cursors[list]) /\ from <= d0 /\ d0 \in Slots(acc.kind) /\ score \in Nat
    BY <1>8, <1>12
  <2>5. d0 \in Docs /\ d0 + 1 \in 0..NumDocs /\ d0 + 1 \in from..limit /\ d0 \in from..(limit - 1)
    BY <1>3, <1>8, <1>10, <1>12, <2>4, DocIs, NumDocsAssumption
  <2>6. q = FirstGeq(cursors[list], d0 + 1) /\ q \in 0..NumDocs
    BY <1>8, <2>5, FirstGeqIsNext DEF NextFrom
  <2> HIDE DEF score, q
  <2>7. /\ acc'.kind = acc.kind /\ acc'.counter = acc.counter
        /\ acc'.sums \in [Slots(acc.kind) -> Nat] /\ acc'.counters \in [Slots(acc.kind) -> Nat]
        /\ \A e \in Slots(acc.kind) : AccumulatedScore(acc', e) =
             IF e = d0 THEN AccumulatedScore(acc, d0) + score ELSE AccumulatedScore(acc, e)
        /\ \A e \in Slots(acc.kind) :
             acc'.counters[e] = acc.counters[e] \/ acc'.counters[e] = acc.counter
    <3>1. HasSlots(acc, Slots(acc.kind))
      BY <2>2, <2>3 DEF HasSlots
    <3> HIDE DEF d0
    <3>2. AddedTo(acc, acc', Slots(acc.kind), d0, score)
      BY <2>1, <2>4, <3>1, AccumulateIs
    <3> QED  BY <3>2 DEF AddedTo
  <2>8. AccumulatorInv'
    BY <1>1, <2>2, <2>3, <2>7 DEF AccumulatorInv
  <2>9. pos' \in [1..n -> 0..NumDocs] /\ \A c \in 1..n : pos'[c] = IF c = list THEN q ELSE pos[c]
    BY <1>3, <1>8, <2>1, <2>6
  <2>10. ASSUME NEW d \in Slots(acc.kind)
         PROVE  AccumulatedScore(acc', d) =
                  IF d \in from..(limit - 1)
                  THEN SumOver(Contribution(cursors, d), {c \in 1..n : d < pos'[c]}, n) ELSE 0
    <3> DEFINE old == SumOver(Contribution(cursors, d), {c \in 1..n : d < pos[c]}, n)
               new == SumOver(Contribution(cursors, d), {c \in 1..n : d < pos'[c]}, n)
    <3>1. CASE d \notin from..(limit - 1)
      BY <1>9, <2>5, <2>7, <3>1
    <3>2. CASE d \in from..(limit - 1)
      <4>1. d \in Docs
        BY <1>3, <3>2, DocIs, NumDocsAssumption
      <4>2. d0 = pos[list] /\ q = NextFrom(cursors[list], pos[list])
        BY DEF q
      <4>3. new = old + IF d = d0 THEN cursors[list].post[d] ELSE 0
        BY <1>3, <1>8, <2>1, <2>4, <4>1, <4>2, SummedPosting
      <4>4. AccumulatedScore(acc, d) = old
        BY <1>9, <3>2
      <4>5. old \in Nat
        BY <2>2, <4>4 DEF AccumulatedScore
      <4> HIDE DEF old, new
      <4>6. AccumulatedScore(acc', d) = new
        BY <2>7, <4>3, <4>4, <4>5 DEF score
      <4> QED  BY <3>2, <4>6 DEF new
    <3> QED  BY <3>1, <3>2
  <2>11. Summed(from)'
    <3>1. \A c \in 1..n : c # list => pos'[c] = pos[c]
      BY <2>9
    <3>2. \A c \in 1..n : (c < list \/ c > list) => c # list
      BY <1>8
    <3>3. pos'[list] = FirstGeq(cursors[list], d0 + 1)
      BY <1>8, <2>6, <2>9
    <3>4. \E m \in from..limit : pos'[list] = FirstGeq(cursors[list], m)
      BY <2>5, <3>3
    <3>5. \A c \in 1..n : c < list => pos'[c] = FirstGeq(cursors[c], limit)
      BY <1>9, <3>1, <3>2
    <3>6. \A c \in 1..n : c > list => pos'[c] = FirstGeq(cursors[c], from)
      BY <1>9, <3>1, <3>2
    <3> QED  BY <1>1, <1>5, <2>1, <2>7, <2>10, <3>4, <3>5, <3>6 DEF Summed
  <2>12. RangeInv'
    BY <1>1, <1>7, <2>11 DEF RangeInv
  <2>13. RunInv'
    BY <1>1, <1>3, <1>11, <2>1, <2>9, RunGoesOn DEF RunInv
  <2> QED  BY <1>4, <1>5, <2>8, <2>12, <2>13 DEF SessionInv
<1>13. CASE ~ (pos[list] < limit)
  <2>1. list' = list + 1 /\ acc' = acc /\ pos' = pos
    BY <1>2, <1>13
  <2>2. pos[list] = FirstGeq(cursors[list], limit)
    BY <1>8, <1>10, <1>13
  <2>3. AccumulatorInv'
    BY <1>1, <1>3, <1>4, <2>1 DEF AccumulatorInv
  <2>4. from \in from..limit
    BY <1>10
  <2>5. Summed(from)'
    <3>1. \A c \in 1..n : c < list + 1 => c = list \/ c < list
      BY <1>8
    <3>2. \A c \in 1..n : c > list + 1 => c > list
      BY <1>8
    <3>3. list + 1 <= n => list + 1 \in 1..n /\ list + 1 > list
      BY <1>8, <1>10
    <3>4. \A c \in 1..n : c < list' => pos'[c] = FirstGeq(cursors[c], limit)
      BY <1>9, <2>1, <2>2, <3>1
    <3>5. \A c \in 1..n : c > list' => pos'[c] = FirstGeq(cursors[c], from)
      BY <1>9, <2>1, <3>2
    <3>6. list' <= n => \E m \in from..limit : pos'[list'] = FirstGeq(cursors[list'], m)
      BY <1>9, <2>1, <2>4, <3>3
    <3> QED  BY <1>1, <1>5, <1>9, <2>1, <3>4, <3>5, <3>6 DEF Summed
  <2>6. RangeInv'
    BY <1>1, <1>7, <2>5 DEF RangeInv
  <2>7. RunInv'
    BY <1>1, <1>3, <1>11, <2>1, RunGoesOn DEF RunInv
  <2> QED  BY <1>4, <1>5, <2>3, <2>6, <2>7 DEF SessionInv
<1> QED  BY <1>12, <1>13

LEMMA BeginAggregatingInv == SessionInv /\ BeginAggregating => SessionInv'
<1> SUFFICES ASSUME SessionInv, BeginAggregating PROVE SessionInv'
  OBVIOUS
<1>1. /\ pc = "scan" /\ pc' = "aggregate" /\ Alg(TermAtATime) /\ list > n /\ candidate' = 0
      /\ UNCHANGED <<queueVars, call, pos, limit, list, results, acc, floor>>
  BY DEF BeginAggregating
<1>2. /\ RunInv /\ OutputInv /\ call \in Workload /\ limit \in 0..NumDocs /\ list \in Nat \ {0}
      /\ pos \in [1..n -> 0..NumDocs] /\ AccumulatorInv
  BY DEF SessionInv, RunInv
<1>3. /\ DisjunctionInv' /\ ConjunctionInv' /\ BlocksInv' /\ Alg(TermAtATime)'
  BY <1>1, OnlyTermAtATime
<1>4. /\ OutputInv' /\ \A d : Held(d)' <=> Held(d)
      /\ \A d : Answered(d)' <=> Answered(d)
      /\ n' = n /\ cursors' = cursors
  BY <1>1, <1>2, SameAnswer, SameQuery
<1>5. PICK from \in 0..limit : DoneBefore(from) /\ Summed(from)
  BY <1>1 DEF SessionInv, RangeInv
<1>6. RunInv'
  <2>1. threshold' = threshold
    BY <1>1 DEF queueVars
  <2> QED  BY <1>1, <1>2, <2>1, RunGoesOn DEF RunInv
<1>7. AccumulatorInv'
  BY <1>1, <1>2, <1>3 DEF AccumulatorInv
<1>8. /\ n \in Nat /\ n = Len(cursors)
      /\ \A c \in 1..n : IsCursor(cursors[c]) /\ Posted(cursors[c]) \subseteq Docs
  BY <1>2, QueryIs
<1>9. \A c \in 1..n : pos[c] = FirstGeq(cursors[c], limit)
  <2>1. \A c \in 1..n : c < list
    BY <1>1, <1>2, <1>8
  <2> QED  BY <1>5, <2>1 DEF Summed
<1>10. ASSUME NEW d \in from..(limit - 1)
       PROVE  SumOver(Contribution(cursors, d), {c \in 1..n : d < pos[c]}, n)
                = FullScore(cursors, d)
  <2> DEFINE S == {c \in 1..n : d < pos[c]}
  <2>1. ASSUME NEW c \in 1..n PROVE c \in S
    <3>1. pos[c] >= limit /\ pos[c] \in 0..NumDocs
      BY <1>2, <1>8, <1>9, FirstGeqIsNext
    <3>2. d < pos[c]
      BY <1>2, <3>1, NumDocsAssumption
    <3> QED  BY <3>2
  <2> HIDE DEF S
  <2>2. SumOver(Contribution(cursors, d), S, n) = FullScore(cursors, d)
    BY <1>8, <2>1, FullScoreOver
  <2> QED  BY <2>2 DEF S
<1>11. \A d \in Docs : InPart(d, from)' <=> d < from
  <2> TAKE d \in Docs
  <2>1. ~ (d < 0)
    BY DocIs
  <2> QED  BY <1>1, <2>1 DEF InPart
<1>12. \A d \in Docs : (InPart(d, from)' => Answered(d)') /\ (Held(d)' => InPart(d, from)')
  BY <1>4, <1>5, <1>11 DEF DoneBefore
<1>13. \A d \in Slots(acc.kind) :
         AccumulatedScore(acc, d) = IF d \in from..(limit - 1) THEN FullScore(cursors, d) ELSE 0
  BY <1>5, <1>10 DEF Summed
<1>14. Aggregated(from)'
  BY <1>1, <1>4, <1>9, <1>12, <1>13 DEF Aggregated
<1>15. RangeInv'
  BY <1>1, <1>14 DEF RangeInv
<1> QED  BY <1>3, <1>4, <1>6, <1>7, <1>15 DEF SessionInv

LEMMA AggregateInv == SessionInv /\ Aggregate => SessionInv'
<1> SUFFICES ASSUME SessionInv, Aggregate PROVE SessionInv'
  OBVIOUS
<1>1. /\ pc = "aggregate" /\ pc' = "aggregate" /\ candidate' = candidate + 1
      /\ candidate \in DOMAIN acc.sums
      /\ Insert(AccumulatedScore(acc, candidate), candidate)
      /\ UNCHANGED <<call, pos, limit, list, results, acc, floor>>
  BY DEF Aggregate
<1>2. /\ RunInv /\ OutputInv /\ call \in Workload /\ limit \in 0..NumDocs /\ candidate \in Nat
      /\ threshold \in Nat /\ floor \in Nat
      /\ pos \in [1..n -> 0..NumDocs] /\ AccumulatorInv
  BY DEF SessionInv, RunInv
<1>3. /\ DisjunctionInv' /\ ConjunctionInv' /\ BlocksInv' /\ Alg(TermAtATime)'
      /\ Alg(TermAtATime) /\ ~ Boolean /\ ~ Alg(Conjunctions) /\ Leading = 1..n
  <2>1. Alg(TermAtATime)
    BY <1>1, <1>2 DEF RunInv
  <2> QED  BY <1>1, <2>1, OnlyTermAtATime
<1>4. n' = n /\ cursors' = cursors
  BY <1>1, SameQuery
<1>5. PICK from \in 0..limit : Aggregated(from)
  BY <1>1, <1>3 DEF SessionInv, RangeInv
<1>6. candidate \in Slots(acc.kind)
  BY <1>1, <1>2, <1>3 DEF AccumulatorInv
<1>7. AccumulatorInv'
  BY <1>1, <1>2, <1>3 DEF AccumulatorInv
<1>8. AccumulatedScore(acc, candidate) =
        IF candidate \in from..(limit - 1) THEN FullScore(cursors, candidate) ELSE 0
  BY <1>5, <1>6 DEF Aggregated
<1>9. /\ OutputInv' /\ threshold' \in Nat
      /\ \A d \in Docs : InPart(d, from)' => Answered(d)'
      /\ \A d \in Docs : Held(d)' => InPart(d, from)'
  <2>1. \A d \in Docs : InPart(d, from)' <=> InPart(d, from) \/ (d = candidate /\ d < limit)
    <3> TAKE d \in Docs
    <3>1. d < candidate + 1 <=> d < candidate \/ d = candidate
      BY <1>2, DocIs
    <3> QED  BY <1>1, <3>1 DEF InPart
  <2>2. CASE candidate \in from..(limit - 1)
    <3>1. candidate \in Docs /\ ~ InPart(candidate, from)
      BY <1>2, <2>2, DocIs, NumDocsAssumption DEF InPart
    <3>2. ~ Held(candidate)
      BY <1>5, <3>1 DEF Aggregated
    <3>3. Insert(Worth[candidate], candidate)
      BY <1>1, <1>2, <1>3, <1>8, <2>2, <3>1, WorthIsFull
    <3>4. Gives(candidate)
      BY <1>1, <1>2, <1>3, <3>1, <3>2, <3>3, OfferGives
    <3>5. candidate < limit
      BY <1>2, <2>2, NumDocsAssumption
    <3>6. OutputInv' /\ threshold' \in Nat
      BY <3>4 DEF Gives
    <3>7. ASSUME NEW d \in Docs
          PROVE  (InPart(d, from)' => Answered(d)') /\ (Held(d)' => InPart(d, from)')
      <4>1. (InPart(d, from) => Answered(d)) /\ (Held(d) => InPart(d, from))
        BY <1>5 DEF Aggregated
      <4>2. (Answered(d) \/ d = candidate => Answered(d)') /\ (Held(d)' => Held(d) \/ d = candidate)
        BY <3>4 DEF Gives
      <4> QED  BY <2>1, <3>5, <4>1, <4>2
    <3> QED  BY <3>6, <3>7
  <2>3. CASE candidate \notin from..(limit - 1)
    <3>1. Insert(0, candidate)
      BY <1>1, <1>8, <2>3
    <3>2. UNCHANGED queueVars
      BY <1>2, <3>1, NothingOffered
    <3>3. /\ OutputInv' /\ \A d : Held(d)' <=> Held(d)
          /\ \A d : Answered(d)' <=> Answered(d)
      BY <1>1, <1>2, <3>2, SameAnswer
    <3>4. candidate < limit => candidate < from
      BY <1>2, <2>3, NumDocsAssumption
    <3>5. \A d \in Docs : InPart(d, from)' <=> InPart(d, from)
      BY <2>1, <3>4 DEF InPart
    <3>6. threshold' = threshold
      BY <3>2 DEF queueVars
    <3> QED  BY <1>2, <1>5, <3>3, <3>5, <3>6 DEF Aggregated
  <2> QED  BY <2>2, <2>3
<1>10. Aggregated(from)'
  BY <1>1, <1>4, <1>5, <1>9 DEF Aggregated
<1>11. RangeInv'
  BY <1>1, <1>10 DEF RangeInv
<1>12. RunInv'
  <2>1. candidate' \in Nat
    BY <1>1, <1>2
  <2> QED  BY <1>1, <1>2, <1>3, <1>9, <2>1, RunGoesOn DEF RunInv
<1> QED  BY <1>3, <1>7, <1>9, <1>11, <1>12 DEF SessionInv

LEMMA EndAggregatingInv == SessionInv /\ EndAggregating => SessionInv'
<1> SUFFICES ASSUME SessionInv, EndAggregating PROVE SessionInv'
  OBVIOUS
<1>1. /\ pc = "aggregate" /\ candidate \notin DOMAIN acc.sums
      /\ acc' = NextCounter(acc) /\ EndRange
      /\ UNCHANGED <<queueVars, call, pos, candidate, list, results, floor>>
  BY DEF EndAggregating
<1>2. /\ RunInv /\ OutputInv /\ limit \in 0..NumDocs /\ candidate \in Nat /\ AccumulatorInv
  BY DEF SessionInv, RunInv
<1>3. /\ DisjunctionInv' /\ ConjunctionInv' /\ BlocksInv' /\ Alg(TermAtATime)'
      /\ Alg(TermAtATime)
  <2>1. Alg(TermAtATime)
    BY <1>1, <1>2 DEF RunInv
  <2> QED  BY <1>1, <2>1, OnlyTermAtATime
<1>4. PICK from \in 0..limit : Aggregated(from)
  BY <1>1, <1>3 DEF SessionInv, RangeInv
<1>5. /\ acc.kind \in {"simple", "lazy"} /\ acc.counter \in 0..(Cycle - 1)
      /\ acc.sums \in [Slots(acc.kind) -> Nat] /\ acc.counters \in [Slots(acc.kind) -> Nat]
      /\ acc.kind = "simple" => acc.counter = 0
      /\ \A d \in Slots(acc.kind) : acc.counters[d] <= acc.counter
  BY <1>1, <1>2, <1>3 DEF AccumulatorInv
<1>6. \A d \in Docs : d < limit => d < candidate
  <2>1. PICK last \in Nat : Slots(acc.kind) = 0..last /\ NumDocs - 1 <= last
    BY SlotsAre
  <2>2. candidate > last
    BY <1>1, <1>2, <1>5, <2>1
  <2> QED  BY <1>2, <2>1, <2>2, DocIs, NumDocsAssumption
<1>7. \A d \in Docs : (d < limit => Answered(d)) /\ (Held(d) => d < limit)
  <2> TAKE d \in Docs
  <2>1. (InPart(d, from) => Answered(d)) /\ (Held(d) => InPart(d, from))
    BY <1>4 DEF Aggregated
  <2>2. d < from => d < limit
    BY <1>2, DocIs, NumDocsAssumption
  <2> QED  BY <1>6, <2>1, <2>2 DEF InPart
<1>8. limit = NumDocs => \A d \in Docs : Answered(d)
  BY <1>7, DocIs
<1>9. RunInv' /\ OutputInv' /\ limit <= limit' /\ pc' # "scan" /\ pc' # "aggregate"
  BY <1>1, <1>2, <1>8, RangeEnds
<1>10. /\ \A d : Held(d)' <=> Held(d)
       /\ \A d : Answered(d)' <=> Answered(d)
       /\ n' = n /\ cursors' = cursors
  BY <1>1, <1>2, SameAnswer, SameQuery
<1>11. AccumulatorInv'
  <2>1. CASE acc.kind = "simple"
    <3>1. acc' = acc
      BY <1>1, <2>1 DEF NextCounter
    <3> QED  BY <1>5, <1>9, <2>1, <3>1 DEF AccumulatorInv
  <2>2. CASE acc.kind # "simple"
    <3>1. /\ acc'.kind = acc.kind /\ acc'.counter = (acc.counter + 1) % Cycle
          /\ acc'.sums = acc.sums /\ acc'.counters = acc.counters
      BY <1>1, <2>2 DEF NextCounter
    <3>2. PICK k : k = acc.counter
      OBVIOUS
    <3>3. k \in 0..(Cycle - 1) /\ Cycle \in Nat \ {0}
      BY <1>5, <3>2, AccumulatorsAssumption
    <3>4. /\ (k + 1) % Cycle \in 0..(Cycle - 1)
          /\ (k + 1) % Cycle = 0 \/ (k + 1) % Cycle = k + 1
      BY <3>3, Z3
    <3>5. \A d \in Slots(acc.kind) : acc.counters[d] \in Nat /\ acc.counters[d] <= k
      BY <1>5, <3>2
    <3>6. acc'.counter = 0 \/ \A d \in Slots(acc.kind) : acc.counters[d] < acc'.counter
      BY <3>1, <3>2, <3>3, <3>4, <3>5
    <3>7. acc'.counter \in 0..(Cycle - 1)
      BY <3>1, <3>2, <3>4
    <3> QED  BY <1>5, <1>9, <2>2, <3>1, <3>6, <3>7 DEF AccumulatorInv, RunInv
  <2> QED  BY <2>1, <2>2
<1>12. PICK m : m = limit
  OBVIOUS
<1>13. m \in 0..limit'
  BY <1>2, <1>9, <1>12, NumDocsAssumption DEF RunInv
<1>14. DoneBefore(m)'
  BY <1>7, <1>10, <1>12 DEF DoneBefore
<1>15. \A c \in 1..n' : pos'[c] = FirstGeq(cursors'[c], m)
  BY <1>1, <1>4, <1>10, <1>12 DEF Aggregated
<1>16. RangeInv'
  BY <1>9, <1>13, <1>14, <1>15 DEF RangeInv, RunInv
<1> QED  BY <1>3, <1>9, <1>11, <1>16 DEF SessionInv

-----------------------------------------------------------------------------
(* Conjunctions.                                                           *)

LEMMA OnlyConjunction ==
  ASSUME UNCHANGED call, Alg(Conjunctions)
  PROVE  /\ DisjunctionInv' /\ AccumulatorInv' /\ RangeInv' /\ ~ Alg(TermAtATime)
         /\ BySize' = BySize
         /\ Boolean <=> Alg({"and", "scored_and"})
<1>1. /\ ~ Alg(DocumentAtATime \cup {"wave"}) /\ ~ Alg(TermAtATime)
      /\ Boolean <=> Alg({"and", "scored_and"})
  BY DEF Alg, DocumentAtATime, TermAtATime, Conjunctions, WithBlocks, Boolean, Unranked
<1>2. /\ ~ Alg(DocumentAtATime \cup {"wave"})' /\ ~ Alg(TermAtATime)'
  BY <1>1, SameQuery DEF Alg
<1>3. BySize' = BySize
  BY SameQuery DEF BySize, Length
<1> QED  BY <1>1, <1>2, <1>3 DEF DisjunctionInv, AccumulatorInv, RangeInv

\* A conjunction is about documents of all its lists; nothing has to be done about others.
LEMMA OnAllLists ==
  ASSUME RunInv, Alg(Conjunctions)
  PROVE  /\ \A d \in Matches : d \in Docs /\ \A c \in 1..n : d \in Posted(cursors[c])
         /\ \A d \in Docs : d \notin Matches => Answered(d)
<1>1. call \in Workload /\ threshold \in Nat
  BY DEF RunInv
<1>2. \A d \in Matches : d \in Docs
  BY DEF Matches
<1>3. \A d \in Matches : \A c \in 1..n : d \in Posted(cursors[c])
  BY <1>1, <1>2, MatchIs
<1>4. \A d \in Docs : d \notin Matches => Worth[d] = 0
  BY <1>1, MatchIs
<1>5. \A d \in Docs : d \notin Matches => Answered(d)
  BY <1>1, <1>4 DEF Answered
<1> QED  BY <1>2, <1>3, <1>5

LEMMA BySizeIs ==
  ASSUME n \in Nat, NEW o \in BySize
  PROVE  /\ o \in [1..n -> 1..n] /\ \A i, j \in 1..n : i # j => o[i] # o[j]
         /\ \A c \in 1..n : \E i \in 1..n : o[i] = c
<1>1. o \in [1..n -> 1..n] /\ \A i, j \in 1..n : i # j => o[i] # o[j]
  BY DEF BySize
<1>2. IsOrder(n, o)
  BY <1>1 DEF IsOrder
<1>3. \A c \in 1..n : \E i \in 1..n : o[i] = c
  BY <1>2, OrderIsOnto
<1> QED  BY <1>1, <1>3

LEMMA BeginConjunctionInv == SessionInv /\ BeginConjunction => SessionInv'
<1> SUFFICES ASSUME SessionInv, BeginConjunction PROVE SessionInv'
  OBVIOUS
<1>1. /\ pc = "begin" /\ pc' = "scan" /\ Alg(Conjunctions)
      /\ order' \in BySize /\ candidate' = pos[order'[1]] /\ list' = 2
      /\ UNCHANGED <<queueVars, call, pos, block, limit, results, floor>>
  BY DEF BeginConjunction
<1>2. /\ RunInv /\ OutputInv /\ call \in Workload /\ limit \in 0..NumDocs
      /\ pos \in [1..n -> 0..NumDocs] /\ n # 0
  BY <1>1 DEF SessionInv, RunInv
<1>3. DisjunctionInv' /\ AccumulatorInv' /\ RangeInv' /\ BySize' = BySize
  BY <1>1, OnlyConjunction
<1>4. /\ OutputInv' /\ \A d : Held(d)' <=> Held(d)
      /\ \A d : Answered(d)' <=> Answered(d)
      /\ n' = n /\ cursors' = cursors /\ Matches' = Matches
      /\ (Alg(WithBlocks)' <=> Alg(WithBlocks))
  BY <1>1, <1>2, SameAnswer, SameQuery
<1>5. n \in Nat
  BY <1>2, QueryIs
<1>6. order'[1] \in 1..n /\ candidate' \in 0..NumDocs /\ candidate' \in Nat
  <2>1. order' \in [1..n -> 1..n]
    BY <1>1, <1>5, BySizeIs
  <2> QED  BY <1>1, <1>2, <1>5, <2>1, NumDocsAssumption
<1>7. RunInv'
  <2>1. threshold' = threshold
    BY <1>1 DEF queueVars
  <2> QED  BY <1>1, <1>2, <1>6, <2>1, RunGoesOn DEF RunInv
<1>8. /\ \A c \in 1..n : pos[c] < NumDocs => pos[c] \in Posted(cursors[c])
      /\ \A d \in Docs : Held(d) => \E c \in 1..n : d < pos[c]
      /\ \A d \in Matches : ~ Answered(d) => \A c \in 1..n : pos[c] <= d
  BY <1>1 DEF SessionInv, ConjunctionInv
<1>9. \A d \in Matches : ~ Answered(d) => candidate' <= d
  BY <1>1, <1>6, <1>8
<1>10. ConjunctionInv'
  BY <1>1, <1>3, <1>4, <1>8, <1>9 DEF ConjunctionInv
<1>11. BlocksInv'
  BY <1>1, <1>4 DEF SessionInv, BlocksInv
<1> QED  BY <1>3, <1>4, <1>7, <1>10, <1>11 DEF SessionInv

\* Where the lists stand that are brought up to the candidate, up to place `last`.
LEMMA MovedIs ==
  ASSUME RunInv, candidate < limit, NEW last,
         \A c \in 1..n : pos[c] < NumDocs => pos[c] \in Posted(cursors[c])
  PROVE  LET at == MovedTo(pos, last)
         IN  /\ at \in [1..n -> 0..NumDocs]
             /\ \A c \in 1..n :
                  /\ pos[c] <= at[c] /\ (at[c] < NumDocs => at[c] \in Posted(cursors[c]))
                  /\ \A d \in Posted(cursors[c]) : candidate <= d /\ pos[c] <= d => at[c] <= d
                  /\ (~ \E i \in list..last : order[i] = c) => at[c] = pos[c]
<1> DEFINE at == MovedTo(pos, last)
<1>1. /\ call \in Workload /\ pos \in [1..n -> 0..NumDocs]
      /\ candidate \in Nat /\ limit \in 0..NumDocs
  BY DEF RunInv
<1>2. \A c \in 1..n : Posted(cursors[c]) \subseteq Docs
  BY <1>1, QueryIs
<1>3. candidate \in 0..NumDocs
  BY <1>1, NumDocsAssumption
<1>4. ASSUME NEW c \in 1..n
      PROVE  /\ at[c] \in 0..NumDocs
             /\ pos[c] <= at[c] /\ (at[c] < NumDocs => at[c] \in Posted(cursors[c]))
             /\ \A d \in Posted(cursors[c]) : candidate <= d /\ pos[c] <= d => at[c] <= d
             /\ (~ \E i \in list..last : order[i] = c) => at[c] = pos[c]
  <2>1. pos[c] \in 0..NumDocs /\ pos[c] \in Nat
    BY <1>1, NumDocsAssumption
  <2>2. at[c] = IF \E i \in list..last : order[i] = c
                THEN NextGeq(cursors[c], pos[c], candidate) ELSE pos[c]
    BY DEF MovedTo
  <2> HIDE DEF at
  <2>3. CASE (\E i \in list..last : order[i] = c) /\ pos[c] < candidate
    <3>1. at[c] = FirstGeq(cursors[c], candidate)
      BY <2>2, <2>3 DEF NextGeq
    <3>2. /\ at[c] \in 0..NumDocs /\ at[c] >= candidate
          /\ at[c] < NumDocs => at[c] \in Posted(cursors[c])
          /\ \A d \in Posted(cursors[c]) : candidate <= d => at[c] <= d
      BY <1>2, <1>3, <3>1, FirstGeqIsNext
    <3>3. pos[c] <= at[c]
      BY <1>3, <2>1, <2>3, <3>2, NumDocsAssumption
    <3> QED  BY <2>3, <3>2, <3>3
  <2>4. CASE ~ ((\E i \in list..last : order[i] = c) /\ pos[c] < candidate)
    <3>1. at[c] = pos[c]
      BY <2>2, <2>4 DEF NextGeq
    <3> QED  BY <2>1, <3>1
  <2> QED  BY <2>3, <2>4
<1>5. at \in [1..n -> 0..NumDocs]
  <2>1. at \in [1..n -> {at[c] : c \in 1..n}]
    BY DEF MovedTo
  <2> HIDE DEF at
  <2> QED  BY <1>4, <2>1
<1> QED  BY <1>4, <1>5

\* The blocks are brought up to the candidate, and not beyond a document that is left.
LEMMA BlocksMove ==
  ASSUME SessionInv, pc = "scan", Alg(WithBlocks), candidate < limit, block' = BlocksAtCandidate
  PROVE  /\ ~ Boolean
         /\ \A c \in 1..n :
              /\ BlocksHold(cursors[c], call.blocks[c])
              /\ \A d \in Posted(cursors[c]) : d <= call.blocks[c][Len(call.blocks[c])].last
              /\ block'[c] \in 1..Len(call.blocks[c])
              /\ call.blocks[c][block'[c]].last \in Nat /\ call.blocks[c][block'[c]].max \in Nat
              /\ \/ block'[c] = Len(call.blocks[c])
                 \/ call.blocks[c][block'[c]].last >= candidate
              /\ \A d \in Matches : ~ Answered(d) =>
                   \A a \in 1..(block'[c] - 1) : call.blocks[c][a].last < d
<1>1. /\ RunInv /\ call \in Workload /\ candidate \in Nat /\ limit \in 0..NumDocs
  BY DEF SessionInv, RunInv
<1>2. Alg(Conjunctions) /\ ~ Boolean /\ call.algorithm = "block_max_ranked_and"
  BY DEF Alg, Conjunctions, WithBlocks, Boolean, Unranked
<1>3. \A d \in Matches : ~ Answered(d) => candidate <= d /\ d \in Nat
  <2> SUFFICES ASSUME NEW d \in Matches, ~ Answered(d) PROVE candidate <= d /\ d \in Nat
    OBVIOUS
  <2>1. candidate <= d \/ limit <= d
    BY <1>2 DEF SessionInv, ConjunctionInv
  <2>2. d \in Nat
    BY DocIs DEF Matches
  <2> QED  BY <1>1, <2>1, <2>2, NumDocsAssumption
<1>4. ASSUME NEW c \in 1..n
      PROVE  /\ BlocksHold(cursors[c], call.blocks[c])
             /\ \A d \in Posted(cursors[c]) : d <= call.blocks[c][Len(call.blocks[c])].last
             /\ block'[c] \in 1..Len(call.blocks[c])
             /\ call.blocks[c][block'[c]].last \in Nat /\ call.blocks[c][block'[c]].max \in Nat
             /\ \/ block'[c] = Len(call.blocks[c])
                \/ call.blocks[c][block'[c]].last >= candidate
             /\ \A d \in Matches : ~ Answered(d) =>
                  \A a \in 1..(block'[c] - 1) : call.blocks[c][a].last < d
  <2> DEFINE bs == call.blocks[c]
             S == {b \in block[c]..Len(bs) : b = Len(bs) \/ bs[b].last >= candidate}
  <2>1. /\ BlocksHold(cursors[c], bs)
        /\ \A d \in Posted(cursors[c]) : d <= bs[Len(bs)].last
    BY <1>1, <1>2, WorkloadAssumption DEF cursors, n
  <2>2. block'[c] = Earliest(S)
    BY DEF BlocksAtCandidate
  <2>3. /\ block[c] \in 1..Len(bs)
        /\ \A d \in Matches : ~ Answered(d) => \A a \in 1..(block[c] - 1) : bs[a].last < d
    BY DEF SessionInv, BlocksInv
  <2> HIDE DEF bs
  <2>4. /\ Len(bs) \in Nat \ {0}
        /\ \A b \in 1..Len(bs) : bs[b].last \in Nat /\ bs[b].max \in Nat
    BY <2>1 DEF BlocksHold
  <2>5. S \subseteq Nat /\ Len(bs) \in S
    BY <2>3, <2>4
  <2>6. Earliest(S) \in S /\ \A b \in S : Earliest(S) <= b
    BY <2>5, EarliestIsLeast
  <2>7. PICK e : e = block'[c]
    OBVIOUS
  <2>8. e \in 1..Len(bs) /\ e \in block[c]..Len(bs) /\ (e = Len(bs) \/ bs[e].last >= candidate)
    BY <2>2, <2>3, <2>4, <2>6, <2>7
  <2>9. ASSUME NEW d \in Matches, ~ Answered(d), NEW a \in 1..(e - 1) PROVE bs[a].last < d
    <3>1. CASE a < block[c]
      <4>1. a \in 1..(block[c] - 1)
        BY <2>3, <2>8, <3>1
      <4> QED  BY <2>3, <2>9, <4>1
    <3>2. CASE ~ (a < block[c])
      <4>1. a \in block[c]..Len(bs) /\ a < e /\ a # Len(bs) /\ a \in 1..Len(bs)
        BY <2>3, <2>4, <2>8, <3>2
      <4>2. a \notin S
        BY <2>2, <2>6, <2>7, <2>8, <4>1
      <4>3. bs[a].last < candidate
        BY <1>1, <2>4, <4>1, <4>2
      <4> QED  BY <1>1, <1>3, <2>4, <2>9, <4>1, <4>3
    <3> QED  BY <3>1, <3>2
  <2> QED  BY <2>1, <2>4, <2>7, <2>8, <2>9 DEF bs
<1> QED  BY <1>2, <1>4

\* The blocks are left where they were brought, and with fewer documents to find.
LEMMA BlocksStay ==
  ASSUME SessionInv, pc = "scan", Alg(Conjunctions), candidate < limit,
         block' = BlocksAtCandidate, UNCHANGED call,
         \A d \in Docs : Answered(d) => Answered(d)'
  PROVE  BlocksInv'
<1>1. /\ n' = n /\ cursors' = cursors /\ Matches' = Matches
      /\ (Alg(WithBlocks)' <=> Alg(WithBlocks))
  BY SameQuery
<1>2. CASE ~ Alg(WithBlocks)
  BY <1>1, <1>2 DEF BlocksInv
<1>3. CASE Alg(WithBlocks)
  <2>1. \A c \in 1..n :
          /\ block'[c] \in 1..Len(call.blocks[c])
          /\ \A d \in Matches : ~ Answered(d) =>
               \A a \in 1..(block'[c] - 1) : call.blocks[c][a].last < d
    BY <1>3, BlocksMove
  <2>2. \A d \in Matches : d \in Docs
    BY DEF Matches
  <2> QED  BY <1>1, <2>1, <2>2 DEF BlocksInv
<1> QED  BY <1>2, <1>3

\* A document in the blocks of all lists is not worth more than their bounds.
LEMMA BlockBoundCovers ==
  ASSUME SessionInv, pc = "scan", Alg(WithBlocks), candidate < limit,
         block' = BlocksAtCandidate, NEW d \in Matches, ~ Answered(d),
         \A c \in 1..n : d <= call.blocks[c][block'[c]].last
  PROVE  WouldEnter(BlockBound(block'))
<1> DEFINE f == Contribution(cursors, d)
           g == [c \in 1..n |-> call.blocks[c][block'[c]].max]
<1>1. call \in Workload /\ threshold \in Nat /\ RunInv /\ d \in Docs
  BY DEF SessionInv, RunInv, Matches
<1>2. /\ n \in Nat /\ n = Len(cursors)
      /\ \A c \in 1..n : IsCursor(cursors[c])
  BY <1>1, QueryIs
<1>3. Alg(Conjunctions)
  BY DEF Alg, Conjunctions, WithBlocks
<1>4. ASSUME NEW c \in 1..n PROVE g[c] \in Nat /\ f[c] <= g[c]
  <2> DEFINE bs == call.blocks[c]
  <2>1. /\ BlocksHold(cursors[c], bs) /\ block'[c] \in 1..Len(bs)
        /\ bs[block'[c]].max \in Nat
        /\ \A a \in 1..(block'[c] - 1) : bs[a].last < d
    BY BlocksMove
  <2>2. d \in Posted(cursors[c])
    BY <1>1, <1>3, MatchIs
  <2>3. PICK b : b = block'[c]
    OBVIOUS
  <2>4. d <= bs[b].last
    BY <2>3
  <2> HIDE DEF bs
  <2>5. cursors[c].post[d] <= bs[b].max
    BY <2>1, <2>2, <2>3, <2>4 DEF BlocksHold
  <2>6. f[c] = cursors[c].post[d]
    BY <1>2, <2>2 DEF Contribution
  <2> QED  BY <2>1, <2>3, <2>5, <2>6 DEF bs
<1>5. NatsTo(f, n)
  BY <1>2, ContributionNat
<1>6. NatsTo(g, n)
  BY <1>4 DEF NatsTo
<1> HIDE DEF f, g
<1>7. SumTo(f, n) <= SumTo(g, n) /\ SumTo(f, n) \in Nat /\ SumTo(g, n) \in Nat
  <2>1. n \in 0..n
    BY <1>2
  <2> QED  BY <1>2, <1>4, <1>5, <1>6, <2>1, SumToMonotone, SumToNat
<1>8. SumTo(f, n) = Worth[d]
  BY <1>1, <1>2, MatchIs DEF FullScore, f
<1>9. BlockBound(block') = SumTo(g, n)
  BY DEF BlockBound, g
<1>10. ~ (Worth[d] <= threshold)
  <2>1. ~ Boolean
    BY BlocksMove
  <2> QED  BY <2>1 DEF Answered
<1> QED  BY <1>1, <1>7, <1>8, <1>9, <1>10 DEF WouldEnter

LEMMA JumpInv == SessionInv /\ Jump => SessionInv'
<1> SUFFICES ASSUME SessionInv, Jump PROVE SessionInv'
  OBVIOUS
<1> DEFINE L == {limit} \cup {call.blocks[c][block'[c]].last : c \in 1..n}
           target == Earliest(L) + 1
<1>1. /\ pc = "scan" /\ pc' = "scan" /\ Alg(Conjunctions) /\ candidate < limit
      /\ block' = BlocksAtCandidate
      /\ candidate' = (IF candidate = target THEN limit ELSE target) /\ list' = 1
      /\ UNCHANGED <<queueVars, call, limit, pos, order, results, floor>>
  BY DEF Jump, Looking
<1>2. Alg(WithBlocks) /\ ~ WouldEnter(BlockBound(block'))
  BY DEF Jump, Looking
<1>3. /\ RunInv /\ OutputInv /\ call \in Workload /\ limit \in 0..NumDocs
      /\ candidate \in Nat /\ pos \in [1..n -> 0..NumDocs] /\ limit \in Nat
  BY NumDocsAssumption DEF SessionInv, RunInv
<1>4. DisjunctionInv' /\ AccumulatorInv' /\ RangeInv' /\ BySize' = BySize
  BY <1>1, OnlyConjunction
<1>5. /\ OutputInv' /\ \A d : Held(d)' <=> Held(d)
      /\ \A d : Answered(d)' <=> Answered(d)
      /\ n' = n /\ cursors' = cursors /\ Matches' = Matches
  BY <1>1, <1>3, SameAnswer, SameQuery
<1>6. /\ \A c \in 1..n : pos[c] < NumDocs => pos[c] \in Posted(cursors[c])
      /\ \A d \in Docs : Held(d) => \E c \in 1..n : d < pos[c]
      /\ \A d \in Matches : ~ Answered(d) =>
           (\A c \in 1..n : pos[c] <= d) /\ (candidate <= d \/ limit <= d)
      /\ order \in BySize
  BY <1>1 DEF SessionInv, ConjunctionInv
<1>7. \A c \in 1..n :
        /\ \A d \in Posted(cursors[c]) : d <= call.blocks[c][Len(call.blocks[c])].last
        /\ call.blocks[c][block'[c]].last \in Nat
        /\ \/ block'[c] = Len(call.blocks[c])
           \/ call.blocks[c][block'[c]].last >= candidate
  BY <1>1, <1>2, BlocksMove
<1>8. /\ Earliest(L) \in L /\ Earliest(L) \in Nat
      /\ Earliest(L) <= limit
      /\ \A c \in 1..n : Earliest(L) <= call.blocks[c][block'[c]].last
  <2>1. L \subseteq Nat /\ limit \in L
    BY <1>3, <1>7
  <2>2. Earliest(L) \in L /\ \A e \in L : Earliest(L) <= e
    BY <2>1, EarliestIsLeast
  <2> QED  BY <2>1, <2>2
<1>9. PICK e : e = Earliest(L)
  OBVIOUS
<1>10. e \in Nat /\ target = e + 1 /\ candidate' \in Nat
  BY SMTT(30), ZenonT(60), <1>1, <1>3, <1>8, <1>9
<1>11. ASSUME NEW d \in Matches, ~ Answered(d)
       PROVE  candidate' <= d \/ limit <= d
  <2>1. d \in Nat /\ (candidate <= d \/ limit <= d) /\ d \in Docs
    BY <1>6, <1>11, DocIs DEF Matches
  <2>2. \A c \in 1..n : d \in Posted(cursors[c])
    BY <1>1, <1>3, <2>1, MatchIs
  <2>3. e + 1 <= d
    <3> SUFFICES ASSUME ~ (e + 1 <= d) PROVE FALSE
      OBVIOUS
    <3>1. d <= e
      BY <1>10, <2>1
    <3>2. \A c \in 1..n : d <= call.blocks[c][block'[c]].last
      <4> TAKE c \in 1..n
      <4> DEFINE l == call.blocks[c][block'[c]].last
      <4>1. l \in Nat /\ e <= l
        BY <1>7, <1>8, <1>9
      <4> HIDE DEF l
      <4>2. d <= l
        BY <4>1, <3>1, <2>1, <1>10
      <4> QED BY <4>2 DEF l
    <3> QED  BY <1>1, <1>2, <1>11, <3>2, BlockBoundCovers
  <2>4. CASE candidate # e + 1
    BY <1>1, <1>10, <2>3, <2>4
  <2>5. CASE candidate = e + 1
    <3>1. e # limit
      BY <1>1, <1>3, <1>10, <2>5
    <3>2. PICK c \in 1..n : e = call.blocks[c][block'[c]].last
      BY <1>8, <1>9, <3>1
    <3>3. ~ (e >= candidate)
      BY <1>3, <1>10, <2>5
    <3>4. block'[c] = Len(call.blocks[c])
      BY <1>7, <3>2, <3>3
    <3>5. d <= e
      BY <1>7, <2>2, <3>2, <3>4
    <3> QED  BY <1>10, <2>1, <2>3, <3>5
  <2> QED  BY <2>4, <2>5
<1> HIDE DEF target, L
<1>12. RunInv'
  <2>1. threshold' = threshold
    BY <1>1 DEF queueVars
  <2>2. list' \in Nat \ {0}
    BY <1>1
  <2> QED  BY <1>1, <1>3, <1>10, <2>1, <2>2, RunGoesOn DEF RunInv
<1>13. ConjunctionInv'
  <2>1. list' \in {1, 2} /\ list' # 2
    BY <1>1
  <2> QED  BY <1>1, <1>4, <1>5, <1>6, <1>11, <2>1 DEF ConjunctionInv
<1>14. BlocksInv'
  BY <1>1, <1>5, BlocksStay
<1> QED  BY <1>4, <1>5, <1>12, <1>13, <1>14 DEF SessionInv

LEMMA DisagreeInv == SessionInv /\ Disagree => SessionInv'
<1> SUFFICES ASSUME SessionInv, Disagree PROVE SessionInv'
  OBVIOUS
<1> DEFINE first == Earliest(Differs(pos))
<1>1. /\ pc = "scan" /\ pc' = "scan" /\ Alg(Conjunctions) /\ candidate < limit
      /\ block' = BlocksAtCandidate /\ Differs(pos) # {}
      /\ pos' = MovedTo(pos, first) /\ candidate' = pos'[order[first]] /\ list' = 1
      /\ UNCHANGED <<queueVars, call, limit, order, floor>> /\ UNCHANGED results
  BY DEF Disagree, Looking
<1>2. /\ RunInv /\ OutputInv /\ call \in Workload /\ limit \in 0..NumDocs
      /\ candidate \in Nat /\ pos \in [1..n -> 0..NumDocs]
      /\ list \in Nat \ {0}
  BY DEF SessionInv, RunInv
<1>3. DisjunctionInv' /\ AccumulatorInv' /\ RangeInv' /\ BySize' = BySize
  BY <1>1, OnlyConjunction
<1>4. /\ OutputInv' /\ \A d : Held(d)' <=> Held(d)
      /\ \A d : Answered(d)' <=> Answered(d)
      /\ n' = n /\ cursors' = cursors /\ Matches' = Matches
  BY <1>1, <1>2, SameAnswer, SameQuery
<1>5. /\ \A c \in 1..n : pos[c] < NumDocs => pos[c] \in Posted(cursors[c])
      /\ \A d \in Docs : Held(d) => \E c \in 1..n : d < pos[c]
      /\ \A d \in Matches : ~ Answered(d) =>
           (\A c \in 1..n : pos[c] <= d) /\ (candidate <= d \/ limit <= d)
      /\ order \in BySize
  BY <1>1 DEF SessionInv, ConjunctionInv
<1>6. n \in Nat
  BY <1>2, QueryIs
<1>7. first \in list..n
  <2>1. Differs(pos) \subseteq list..n
    BY DEF Differs
  <2>2. Differs(pos) \subseteq Nat
    BY <1>2, <1>6, <2>1
  <2> QED  BY <1>1, <2>1, <2>2, EarliestIsLeast
<1>8. PICK i : i = first
  OBVIOUS
<1>9. order[i] \in 1..n
  <2>1. order \in [1..n -> 1..n]
    BY <1>5, <1>6, BySizeIs
  <2>2. i \in 1..n
    BY <1>2, <1>6, <1>7, <1>8
  <2> QED  BY <2>1, <2>2
<1>10. /\ pos' \in [1..n -> 0..NumDocs]
       /\ \A c \in 1..n :
            /\ pos[c] <= pos'[c] /\ (pos'[c] < NumDocs => pos'[c] \in Posted(cursors[c]))
            /\ \A d \in Posted(cursors[c]) : candidate <= d /\ pos[c] <= d => pos'[c] <= d
  BY <1>1, <1>2, <1>5, MovedIs
<1> HIDE DEF first
<1>11. candidate' = pos'[order[i]] /\ candidate' \in Nat
  <2>1. candidate' = pos'[order[i]]
    BY <1>1, <1>8
  <2> QED  BY <1>9, <1>10, <2>1, NumDocsAssumption
<1>12. ASSUME NEW d \in Matches, ~ Answered(d)
       PROVE  (\A c \in 1..n : pos'[c] <= d) /\ candidate' <= d
  <2>1. d \in Docs /\ d \in Nat /\ \A c \in 1..n : d \in Posted(cursors[c])
    <3>1. d \in Docs
      BY DEF Matches
    <3> QED  BY <1>1, <1>2, <3>1, MatchIs, DocIs
  <2>2. candidate <= d
    <3>1. candidate <= d \/ limit <= d
      BY <1>5, <1>12
    <3> QED  BY <1>1, <1>2, <2>1, <3>1, NumDocsAssumption
  <2>3. \A c \in 1..n : pos[c] <= d
    BY <1>5, <1>12
  <2> QED  BY <1>9, <1>10, <1>11, <2>1, <2>2, <2>3
<1>13. ASSUME NEW d \in Docs, Held(d)
       PROVE  \E c \in 1..n : d < pos'[c]
  <2>1. PICK c \in 1..n : d < pos[c]
    BY <1>5, <1>13
  <2>2. d \in Nat /\ pos[c] \in 0..NumDocs /\ pos'[c] \in 0..NumDocs /\ pos[c] <= pos'[c]
    BY <1>2, <1>10, DocIs
  <2>3. d < pos'[c]
    BY <2>1, <2>2, NumDocsAssumption
  <2> QED  BY <2>3
<1>14. RunInv'
  <2>1. threshold' = threshold
    BY <1>1 DEF queueVars
  <2>2. list' \in Nat \ {0}
    BY <1>1
  <2> QED  BY <1>1, <1>2, <1>10, <1>11, <2>1, <2>2, RunGoesOn DEF RunInv
<1>15. ConjunctionInv'
  <2>1. list' \in {1, 2} /\ list' # 2
    BY <1>1
  <2> QED  BY <1>1, <1>3, <1>4, <1>5, <1>10, <1>12, <1>13, <2>1 DEF ConjunctionInv
<1>16. BlocksInv'
  BY <1>1, <1>4, BlocksStay
<1> QED  BY <1>3, <1>4, <1>14, <1>15, <1>16 DEF SessionInv

\* When none of the lists still to look at differs, all stand on the candidate, which
\* is a match that is not held yet.
LEMMA AllAgree ==
  ASSUME SessionInv, pc = "scan", Alg(Conjunctions), candidate < limit, Differs(pos) = {}
  PROVE  LET at == MovedTo(pos, n)
         IN  /\ \A c \in 1..n : at[c] = candidate
             /\ at \in [1..n -> 0..NumDocs]
             /\ candidate \in Docs /\ candidate \in Matches
             /\ \A d \in Docs : Held(d) => d < candidate
             /\ \A d \in Matches : ~ Answered(d) => candidate <= d
             /\ SumTo([c \in 1..n |-> cursors[c].post[at[c]]], n) = FullScore(cursors, candidate)
             /\ FullScore(cursors, candidate) = Worth[candidate]
             /\ order[1] \in 1..n
<1> DEFINE at == MovedTo(pos, n)
<1>1. /\ RunInv /\ call \in Workload /\ limit \in 0..NumDocs
      /\ candidate \in Nat /\ pos \in [1..n -> 0..NumDocs]
      /\ list \in Nat \ {0} /\ n # 0
  BY DEF SessionInv, RunInv
<1>2. /\ n \in Nat /\ n = Len(cursors)
  BY <1>1, QueryIs
<1>3. /\ \A c \in 1..n : pos[c] < NumDocs => pos[c] \in Posted(cursors[c])
      /\ \A d \in Docs : Held(d) => \E c \in 1..n : d < pos[c]
      /\ \A d \in Matches : ~ Answered(d) => candidate <= d \/ limit <= d
      /\ order \in BySize /\ list \in {1, 2} /\ (list = 2 => pos[order[1]] = candidate)
  BY DEF SessionInv, ConjunctionInv
<1>4. /\ order \in [1..n -> 1..n] /\ \A i, j \in 1..n : i # j => order[i] # order[j]
      /\ \A c \in 1..n : \E i \in 1..n : order[i] = c
  BY <1>2, <1>3, BySizeIs
<1>5. /\ at \in [1..n -> 0..NumDocs]
      /\ \A c \in 1..n :
           /\ pos[c] <= at[c] /\ (at[c] < NumDocs => at[c] \in Posted(cursors[c]))
           /\ (~ \E i \in list..n : order[i] = c) => at[c] = pos[c]
  BY <1>1, <1>3, MovedIs
<1>6. \A i \in list..n : at[order[i]] = candidate
  BY DEF Differs
<1> HIDE DEF at
<1>7. ASSUME NEW c \in 1..n PROVE at[c] = candidate
  <2>1. PICK i \in 1..n : order[i] = c
    BY <1>4
  <2>2. CASE i \in list..n
    BY <1>6, <2>1, <2>2
  <2>3. CASE i \notin list..n
    <3>1. list = 2 /\ i = 1
      BY <1>2, <1>3, <2>3
    <3>2. ~ \E j \in list..n : order[j] = c
      <4> SUFFICES ASSUME NEW j \in list..n, order[j] = c PROVE FALSE
        OBVIOUS
      <4>1. j \in 1..n /\ j # i
        BY <1>2, <3>1
      <4> QED  BY <1>4, <2>1, <4>1
    <3>3. at[c] = pos[c]
      BY <1>5, <3>2
    <3> QED  BY <1>3, <2>1, <3>1, <3>3
  <2> QED  BY <2>2, <2>3
<1>8. candidate < NumDocs /\ candidate \in Docs
  BY <1>1, DocIs, NumDocsAssumption
<1>9. \A c \in 1..n : candidate \in Posted(cursors[c])
  BY <1>5, <1>7, <1>8
<1>10. candidate \in Matches /\ FullScore(cursors, candidate) = Worth[candidate]
  BY <1>1, <1>8, <1>9, MatchIs
<1>11. ASSUME NEW d \in Docs, Held(d) PROVE d < candidate
  <2>1. PICK c \in 1..n : d < pos[c]
    BY <1>3, <1>11
  <2>2. d \in Nat /\ pos[c] \in 0..NumDocs /\ pos[c] <= at[c] /\ at[c] = candidate
    BY <1>1, <1>5, <1>7, DocIs
  <2> QED  BY <1>1, <2>1, <2>2, NumDocsAssumption
<1>12. ASSUME NEW d \in Matches, ~ Answered(d) PROVE candidate <= d
  <2>1. (candidate <= d \/ limit <= d) /\ d \in Nat
    BY <1>3, <1>12, DocIs DEF Matches
  <2> QED  BY <1>1, <2>1, NumDocsAssumption
<1>13. SumTo([c \in 1..n |-> cursors[c].post[at[c]]], n) = FullScore(cursors, candidate)
  <2>1. [c \in 1..n |-> cursors[c].post[at[c]]] = Contribution(cursors, candidate)
    BY <1>2, <1>7, <1>9 DEF Contribution
  <2> QED  BY <1>2, <2>1 DEF FullScore
<1>14. order[1] \in 1..n
  <2>1. 1 \in 1..n
    BY <1>1, <1>2
  <2> QED  BY <1>4, <2>1
<1> QED  BY <1>5, <1>7, <1>8, <1>10, <1>11, <1>12, <1>13, <1>14 DEF at

LEMMA AgreeInv == SessionInv /\ Agree => SessionInv'
<1> SUFFICES ASSUME SessionInv, Agree PROVE SessionInv'
  OBVIOUS
<1> DEFINE at == MovedTo(pos, n)
           score == SumTo([c \in 1..n |-> cursors[c].post[at[c]]], n)
           one == order[1]
<1>1. /\ pc = "scan" /\ pc' = "scan" /\ Alg(Conjunctions) /\ candidate < limit
      /\ block' = BlocksAtCandidate /\ Differs(pos) = {}
      /\ pos' = AfterMatch(at) /\ candidate' = pos'[one] /\ list' = 2
      /\ UNCHANGED <<call, limit, order, floor>>
  BY DEF Agree, Looking
<1>2. \/ /\ Alg({"and", "scored_and"})
         /\ results' = Append(results, IF Alg({"and"}) THEN candidate ELSE <<candidate, score>>)
         /\ UNCHANGED queueVars
      \/ ~Alg({"and", "scored_and"}) /\ Insert(score, at[one])
  BY DEF Agree
<1>3. /\ RunInv /\ OutputInv /\ call \in Workload /\ limit \in 0..NumDocs
      /\ threshold \in Nat /\ floor \in Nat
  BY DEF SessionInv, RunInv
<1>4. /\ DisjunctionInv' /\ AccumulatorInv' /\ RangeInv' /\ BySize' = BySize
      /\ Boolean <=> Alg({"and", "scored_and"})
  BY <1>1, OnlyConjunction
<1>5. /\ \A c \in 1..n : at[c] = candidate
      /\ at \in [1..n -> 0..NumDocs]
      /\ candidate \in Docs /\ candidate \in Matches
      /\ \A d \in Docs : Held(d) => d < candidate
      /\ \A d \in Matches : ~ Answered(d) => candidate <= d
      /\ score = FullScore(cursors, candidate)
      /\ FullScore(cursors, candidate) = Worth[candidate]
      /\ one \in 1..n
  BY <1>1, AllAgree
<1> HIDE DEF at, score
<1>6. Gives(candidate)
  <2>1. CASE Boolean
    <3>1. ~ Alg({"and"}) => Alg({"scored_and"})
      BY <1>4, <2>1 DEF Alg
    <3>2. Alg({"and"}) => ~ Alg({"scored_and"})
      BY DEF Alg
    <3>3. Row(candidate) = IF Alg({"and"}) THEN candidate ELSE <<candidate, score>>
      BY <1>5, <3>1, <3>2 DEF Row
    <3>4. UNCHANGED <<call, queueVars>> /\ results' = Append(results, Row(candidate))
      BY <1>1, <1>2, <1>4, <2>1, <3>3
    <3> QED  BY <1>3, <1>5, <2>1, <3>4, ListGives
  <2>2. CASE ~ Boolean
    <3>1. Insert(Worth[candidate], candidate)
      BY <1>2, <1>4, <1>5, <2>2
    <3>2. ~ Held(candidate)
      BY <1>5, DocIs
    <3> QED  BY <1>1, <1>3, <1>5, <2>2, <3>1, <3>2, OfferGives
  <2> QED  BY <2>1, <2>2
<1>7. /\ n' = n /\ cursors' = cursors /\ Matches' = Matches
      /\ \A c \in 1..n : Posted(cursors[c]) \subseteq Docs
  BY <1>1, <1>3, QueryIs, SameQuery
<1>8. PICK next : next = candidate + 1
  OBVIOUS
<1>9. candidate \in Nat /\ next \in Nat /\ next \in 0..NumDocs
  BY <1>5, <1>8, DocIs, NumDocsAssumption
<1>10. PICK p : p = FirstGeq(cursors[one], next)
  OBVIOUS
<1>11. /\ p \in 0..NumDocs /\ p >= next /\ (p < NumDocs => p \in Posted(cursors[one]))
       /\ \A d \in Posted(cursors[one]) : next <= d => p <= d
  BY <1>5, <1>7, <1>9, <1>10, FirstGeqIsNext
<1>12. pos' = [at EXCEPT ![one] = p]
  <2>1. NextFrom(cursors[one], at[one]) = p
    BY <1>5, <1>8, <1>10 DEF NextFrom
  <2> QED  BY <1>1, <2>1 DEF AfterMatch
<1>13. /\ pos' \in [1..n -> 0..NumDocs]
       /\ pos'[one] = p /\ \A c \in 1..n : c # one => pos'[c] = candidate
  BY <1>5, <1>11, <1>12
<1>14. candidate' = p /\ candidate' \in Nat
  BY <1>1, <1>11, <1>13, NumDocsAssumption
<1>15. ASSUME NEW d \in Matches, ~ Answered(d)'
       PROVE  (\A c \in 1..n : pos'[c] <= d) /\ candidate' <= d
  <2>1. d \in Docs /\ d \in Nat /\ d \in Posted(cursors[one])
    <3>1. d \in Docs
      BY DEF Matches
    <3> QED  BY <1>1, <1>3, <1>5, <3>1, MatchIs, DocIs
  <2>2. ~ Answered(d) /\ d # candidate
    BY <1>6, <1>15, <2>1 DEF Gives
  <2>3. candidate <= d /\ next <= d
    <3>1. candidate <= d
      BY <1>5, <2>2
    <3> QED  BY <1>8, <1>9, <2>1, <2>2, <3>1
  <2>4. p <= d
    BY <1>11, <2>1, <2>3
  <2> QED  BY <1>13, <1>14, <2>3, <2>4
<1>16. ASSUME NEW d \in Docs, Held(d)'
       PROVE  \E c \in 1..n : d < pos'[c]
  <2>1. Held(d) \/ d = candidate
    BY <1>6, <1>16 DEF Gives
  <2>2. d \in Nat /\ (d < candidate \/ d = candidate)
    BY <1>5, <2>1, DocIs
  <2>3. d < p
    BY <1>8, <1>9, <1>11, <2>2, NumDocsAssumption
  <2> QED  BY <1>5, <1>13, <2>3
<1>17. \A c \in 1..n : pos'[c] < NumDocs => pos'[c] \in Posted(cursors[c])
  <2> TAKE c \in 1..n
  <2>1. CASE c = one
    BY <1>11, <1>13, <2>1
  <2>2. CASE c # one
    BY <1>1, <1>3, <1>5, <1>13, <2>2, MatchIs
  <2> QED  BY <2>1, <2>2
<1>18. RunInv'
  <2>1. threshold' \in Nat
    BY <1>6 DEF Gives
  <2>2. list' \in Nat \ {0}
    BY <1>1
  <2> QED  BY <1>1, <1>3, <1>13, <1>14, <2>1, <2>2, RunGoesOn DEF RunInv
<1>19. ConjunctionInv'
  <2>1. order' \in BySize' /\ list' \in {1, 2} /\ pos'[order'[1]] = candidate'
    <3>1. order \in BySize
      BY <1>1 DEF SessionInv, ConjunctionInv
    <3> QED  BY <1>1, <1>4, <3>1
  <2> QED  BY <1>1, <1>7, <1>15, <1>16, <1>17, <2>1 DEF ConjunctionInv
<1>20. BlocksInv'
  <2>1. \A d \in Docs : Answered(d) => Answered(d)'
    BY <1>6 DEF Gives
  <2> QED  BY <1>1, <2>1, BlocksStay
<1> QED  BY <1>4, <1>6, <1>18, <1>19, <1>20 DEF SessionInv, Gives

LEMMA EndConjunctionInv == SessionInv /\ EndConjunction => SessionInv'
<1> SUFFICES ASSUME SessionInv, EndConjunction PROVE SessionInv'
  OBVIOUS
<1>1. /\ pc = "scan" /\ Alg(Conjunctions) /\ candidate >= limit /\ EndRange
      /\ UNCHANGED <<queueVars, call, pos, candidate, list, results, floor>>
      /\ UNCHANGED <<block, order>>
  BY DEF EndConjunction
<1>2. RunInv /\ OutputInv /\ limit \in 0..NumDocs /\ candidate \in Nat
  BY DEF SessionInv, RunInv
<1>3. DisjunctionInv' /\ AccumulatorInv' /\ RangeInv' /\ BySize' = BySize
  BY <1>1, OnlyConjunction
<1>4. /\ \A c \in 1..n : pos[c] < NumDocs => pos[c] \in Posted(cursors[c])
      /\ \A d \in Docs : Held(d) => \E c \in 1..n : d < pos[c]
      /\ \A d \in Matches : ~ Answered(d) =>
           (\A c \in 1..n : pos[c] <= d) /\ (candidate <= d \/ limit <= d)
  BY <1>1 DEF SessionInv, ConjunctionInv
<1>5. limit = NumDocs => \A d \in Docs : Answered(d)
  <2> SUFFICES ASSUME limit = NumDocs, NEW d \in Docs, ~ Answered(d) PROVE FALSE
    OBVIOUS
  <2>1. d \in Matches
    BY <1>1, <1>2, OnAllLists
  <2>2. candidate <= d \/ limit <= d
    BY <1>4, <2>1
  <2> QED  BY <1>1, <1>2, <2>2, DocIs, NumDocsAssumption
<1>6. RunInv' /\ OutputInv' /\ pc' # "scan"
  BY <1>1, <1>2, <1>5, RangeEnds
<1>7. /\ \A d : Held(d)' <=> Held(d)
      /\ \A d : Answered(d)' <=> Answered(d)
      /\ n' = n /\ cursors' = cursors /\ Matches' = Matches
      /\ (Alg(WithBlocks)' <=> Alg(WithBlocks))
  BY <1>1, SameAnswer, SameQuery
<1>8. ConjunctionInv'
  BY <1>1, <1>4, <1>6, <1>7 DEF ConjunctionInv
<1>9. BlocksInv'
  BY <1>1, <1>7 DEF SessionInv, BlocksInv
<1> QED  BY <1>3, <1>6, <1>8, <1>9 DEF SessionInv

-----------------------------------------------------------------------------
(* The theorems.                                                           *)

LEMMA StutterInv == SessionInv /\ UNCHANGED vars => SessionInv'
<1> SUFFICES ASSUME SessionInv, UNCHANGED vars PROVE SessionInv'
  OBVIOUS
<1>1. UNCHANGED <<heap, threshold, call, pos, block, order, limit, candidate, list, results,
                  acc, pc, floor>>
  BY DEF vars, scanVars
<1>2. UNCHANGED queueVars
  BY <1>1 DEF queueVars
<1>3. /\ n' = n /\ cursors' = cursors /\ Matches' = Matches /\ Leading' = Leading
      /\ \A names : Alg(names)' <=> Alg(names)
  BY <1>1, SameQuery
<1>4. /\ OutputInv' /\ \A d : Held(d)' <=> Held(d)
      /\ \A d : Answered(d)' <=> Answered(d)
  BY <1>1, <1>2, SameAnswer DEF SessionInv
<1>5. RunInv'
  BY <1>1, <1>3, <1>4 DEF SessionInv, RunInv
<1>6. \A from : DoneBefore(from)' <=> DoneBefore(from)
  BY <1>4 DEF DoneBefore
<1>7. DisjunctionInv'
  <2>1. \A from : Frontier(from)' <=> Frontier(from)
    BY <1>1, <1>3, <1>6 DEF Frontier
  <2>2. LeastOf(pos, Leading)' = LeastOf(pos, Leading)
    BY <1>1, <1>3 DEF LeastOf
  <2> QED  BY <1>1, <1>3, <2>1, <2>2 DEF SessionInv, DisjunctionInv
<1>8. AccumulatorInv'
  BY <1>1, <1>3 DEF SessionInv, AccumulatorInv
<1>9. RangeInv'
  <2>1. \A from : Summed(from)' <=> Summed(from)
    BY <1>1, <1>3 DEF Summed
  <2>2. \A from : Aggregated(from)' <=> Aggregated(from)
    BY <1>1, <1>3, <1>4 DEF Aggregated, InPart
  <2> QED  BY <1>1, <1>3, <1>6, <2>1, <2>2 DEF SessionInv, RangeInv
<1>10. ConjunctionInv'
  <2>1. BySize' = BySize
    BY <1>1, <1>3 DEF BySize, Length
  <2> QED  BY <1>1, <1>3, <1>4, <2>1 DEF SessionInv, ConjunctionInv
<1>11. BlocksInv'
  BY <1>1, <1>3, <1>4 DEF SessionInv, BlocksInv
<1> QED  BY <1>4, <1>5, <1>7, <1>8, <1>9, <1>10, <1>11 DEF SessionInv

LEMMA StepInv == SessionInv /\ (Step \/ UNCHANGED vars) => SessionInv'
<1>1. SessionInv /\ ExhaustiveNext => SessionInv'
  BY BeginDisjunctionInv, NextDocumentInv, EndDisjunctionInv, NextHighDocumentInv, GiveUpLowInv,
     BeginAccumulatingInv, AccumulatePostingInv, BeginAggregatingInv, AggregateInv,
     EndAggregatingInv DEF ExhaustiveNext
<1>2. SessionInv /\ ConjunctiveNext => SessionInv'
  BY BeginConjunctionInv, DisagreeInv, AgreeInv, JumpInv, EndConjunctionInv DEF ConjunctiveNext
<1> QED  BY <1>1, <1>2, NextQueryInv, StutterInv DEF Step

-----------------------------------------------------------------------------
(* Other threads.                                                          *)

\* A query keeps its call, and the next one of the thread has as many threads beside it.
LEMMA StepKeepsThreads ==
  ASSUME Step \/ UNCHANGED vars
  PROVE  call'.algorithm = call.algorithm /\ call'.workers = call.workers
<1>1. ExhaustiveNext => UNCHANGED call
  BY DEF ExhaustiveNext, BeginDisjunction, NextDocument, EndDisjunction, NextHighDocument,
         GiveUpLow, BeginAccumulating, AccumulatePosting, BeginAggregating, Aggregate,
         EndAggregating
<1>2. ConjunctiveNext => UNCHANGED call
  BY DEF ConjunctiveNext, BeginConjunction, Disagree, Agree, Jump, EndConjunction, Looking
<1>3. NextQuery => call'.algorithm = call.algorithm /\ call'.workers = call.workers
  BY DEF NextQuery, Session
<1>4. UNCHANGED vars => UNCHANGED call
  BY DEF vars
<1> QED  BY <1>1, <1>2, <1>3, <1>4 DEF Step

LEMMA StepKeepsAlone == Step \/ UNCHANGED vars => (Alone' <=> Alone)
BY StepKeepsThreads DEF Alone, Alg

\* A thread that is alone is not interfered with, and does not begin to be.
LEMMA InterfereIsNotAlone == Interfere => ~ Alone'
<1> SUFFICES ASSUME Interfere PROVE ~ Alone'
  OBVIOUS
<1>1. Alg(TermAtATime) /\ call.workers > 1 /\ UNCHANGED call
  BY DEF Interfere
<1>2. Alg(TermAtATime)' /\ call'.workers # 1
  BY <1>1 DEF Alg
<1> QED  BY <1>2 DEF Alone

LEMMA NextInv == (Alone => SessionInv) /\ [Next]_vars => (Alone' => SessionInv')
<1> SUFFICES ASSUME Alone => SessionInv, [Next]_vars, Alone' PROVE SessionInv'
  OBVIOUS
<1>1. Step \/ UNCHANGED vars
  BY InterfereIsNotAlone DEF Next
<1> QED  BY <1>1, StepKeepsAlone, StepInv

-----------------------------------------------------------------------------

\* At any time the account of the algorithm at work holds, for a query that no other
\* thread shares an accumulator with: of the documents done with and those in the
\* answer, of what the accumulator holds, and of where the cursors, the candidate and
\* the blocks may stand (the algorithms of queries.hpp and their ranges).  The threads
\* of evaluate_queries.cpp do share one: of their term-at-a-time queries it says nothing.
THEOREM SessionInvariant == Spec => [](Alone => SessionInv)
<1>1. Init => (Alone => SessionInv)
  BY InitInv
<1>2. (Alone => SessionInv) /\ [Next]_vars => (Alone => SessionInv)'
  BY NextInv
<1> QED  BY <1>1, <1>2, PTL DEF Spec

\* Every query that uses no bound on a list, waves apart, is answered exactly if no
\* other thread writes to its accumulator, whatever the lists, the scores, the ranges it
\* is cut into, the ties in the order of its lists and the earlier queries whose sums
\* the accumulator still holds: a Boolean one gives the documents it is about, each once
\* and in order, a ranked one the best of them above its threshold.
THEOREM Exact == Spec => []AnswersAreExact
<1>1. (Alone => SessionInv) => AnswersAreExact
  BY AnswerGivesMatches DEF AnswersAreExact, SessionInv
<1> QED  BY <1>1, SessionInvariant, PTL

\* A wave answers with the best documents of its HIGH lists, and with no other: its
\* second phase, which is to find those of LOW lists alone, finds none, however far
\* above the threshold they are (high_then_low of maxscore_query.hpp).
WavesFindHigh ==
  pc = "answered" /\ Alg({"wave"}) =>
    /\ Ranking!BestAbove(floor)
    /\ \A e \in heap : \E c \in 1..call.high : e[2] \in Posted(cursors[c])

\* Whatever the lists of a wave, their scores and its threshold, it answers with the best
\* documents of its HIGH lists and with those only: not as the comments of high_then_low
\* say, which have the LOW lists searched in a second phase.
THEOREM WavesAnswer == Spec => []WavesFindHigh
<1>1. Alg({"wave"}) => Alone
  BY DEF Alg, Alone, TermAtATime
<1>2. SessionInv => WavesFindHigh
  <2> SUFFICES ASSUME SessionInv, pc = "answered", Alg({"wave"})
               PROVE  /\ Ranking!BestAbove(floor)
                      /\ \A e \in heap : \E c \in 1..call.high : e[2] \in Posted(cursors[c])
    BY DEF WavesFindHigh
  <2>1. call \in Workload /\ BestInv /\ floor \in Nat
    BY DEF SessionInv, RunInv, OutputInv, Boolean, Alg, Unranked
  <2>2. Ranking!BestAbove(floor)
    <3>1. GivesMatches
      BY AnswerGivesMatches DEF SessionInv
    <3>2. ~ Alg({"or", "and"}) /\ ~ Alg({"scored_and"})
      BY DEF Alg
    <3> QED  BY <3>1, <3>2 DEF GivesMatches
  <2>3. ASSUME NEW e \in heap
        PROVE  \E c \in 1..call.high : e[2] \in Posted(cursors[c])
    <3>1. e[2] \in Docs /\ e[1] = Worth[e[2]] /\ e[1] > floor
      <4>1. e \in Nat \X Docs /\ e = <<Worth[e[2]], e[2]>> /\ e[1] > floor
        BY <2>1 DEF BestInv
      <4> QED  BY <4>1
    <3>2. e[2] \in Matches
      <4>1. e[2] \notin Matches => Worth[e[2]] = 0
        BY <2>1, <3>1, MatchIs
      <4> QED  BY <2>1, <3>1, <4>1
    <3>3. ~ Alg(Conjunctions) /\ Leading = 1..call.high
      BY DEF Alg, Conjunctions, WithBlocks, Leading
    <3> QED  BY <2>1, <3>1, <3>2, <3>3, MatchIs
  <2> QED  BY <2>2, <2>3
<1>3. (Alone => SessionInv) => WavesFindHigh
  BY <1>1, <1>2 DEF WavesFindHigh
<1> QED  BY <1>3, SessionInvariant, PTL
=============================================================================
