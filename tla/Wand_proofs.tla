---------------------------- MODULE Wand_proofs -----------------------------
(***************************************************************************)
(* Proofs about Wand: type correctness, the bound over the first cursors,  *)
(* the step-by-step refinement of RankedRetrieval and the exact result,    *)
(* for every number of documents and lists, every capacity, and with and   *)
(* without pair-aware bounds.  Then about BlockMaxWand, which extends it:  *)
(* the same, and block enumerators that never run ahead of a document      *)
(* which can enter.  A turn of either scores a document or moves a cursor  *)
(* over documents that cannot enter, and WAND's invariant holds in both.   *)
(***************************************************************************)
EXTENDS BlockMaxWand, Cursors_proofs

\* The pair-aware calls are over split indexes.
PairAwareOnSplit == \A w \in Workload : w.pairAware => PairBoundsHold(w.cursors)

\* RankedRetrieval with its theorems, under the mapping of Wand's Retrieval.
\* The flag and the phase of a query, which only SafeQuery has, are any values.
Relevance == [d \in Docs |-> FullScore(cursors, d)]
Settled == IF pc = "done" THEN Docs ELSE {d \in Docs : Passed(d)}

Promise ==
  INSTANCE RankedRetrieval_proofs WITH
    Scores <- Nat, relevance <- Relevance, settled <- Settled,
    safe <- FALSE, phase <- "first"

-----------------------------------------------------------------------------
(* The definitions of the instances are those of Wand.                     *)

LEMMA DocsFinite == IsFiniteSet(Docs) /\ Promise!IsFiniteSet(Docs)
<1>1. IsFiniteSet(Docs)
  BY FS_Interval, NumDocsAssumption DEF Docs
<1> QED  BY <1>1 DEF IsFiniteSet, Promise!IsFiniteSet

LEMMA SameCardinality ==
  \A S : /\ Retrieval!Cardinality(S) = Cardinality(S)
         /\ Promise!Cardinality(S) = Cardinality(S)
BY DEF Cardinality, Promise!Cardinality, Retrieval!Cardinality

LEMMA SameNext == [Promise!Next]_(Promise!vars) => [Retrieval!Next]_(Retrieval!vars)
BY SameCardinality
   DEF Promise!Next, Promise!vars, Promise!Prime, Promise!Offer, Promise!Skip,
       Promise!PrimeSound, Promise!Insert, Promise!Reject, Promise!Push, Promise!PushPop,
       Promise!WouldEnter, Promise!Lowest, Promise!FrontScore, Promise!queueVars,
       Retrieval!Next, Retrieval!vars, Retrieval!Prime, Retrieval!Offer, Retrieval!Skip,
       Retrieval!PrimeSound, Retrieval!Insert, Retrieval!Reject, Retrieval!Push, Retrieval!PushPop,
       Retrieval!WouldEnter, Retrieval!Lowest, Retrieval!FrontScore, Retrieval!queueVars, Relevance, Settled

LEMMA SameInsert == \A score, d : Insert(score, d) <=> Promise!Insert(score, d)
BY SameCardinality
   DEF Insert, Reject, Push, PushPop, WouldEnter, Lowest, FrontScore, queueVars,
       Promise!Insert, Promise!Reject, Promise!Push, Promise!PushPop,
       Promise!WouldEnter, Promise!Lowest, Promise!FrontScore, Promise!queueVars

LEMMA SameBestAbove == \A b : Promise!BestAbove(b) <=> Retrieval!BestAbove(b)
BY SameCardinality
   DEF Promise!BestAbove, Retrieval!BestAbove, Promise!Entry, Retrieval!Entry, Relevance, Settled

-----------------------------------------------------------------------------
(* Where the cursors stand.                                                *)

\* A cursor stands on a document of its list, or past its end.
OnPostings == \A c \in 1..n : pos[c] < NumDocs => pos[c] \in Posted(cursors[c])

\* No document in the heap is still ahead of a cursor: none is offered twice.
Offered == \A e \in heap : \A c \in 1..n : e[2] < pos[c]

PlacesInv ==
  /\ call \in Workload
  /\ TypeOK
  /\ OnPostings
  /\ Offered
  /\ pc = "loop" => order \in Sorted(pos)

LEMMA CallIsQuery ==
  ASSUME call \in Workload
  PROVE  /\ n \in Nat
         /\ IsQuery(cursors)
         /\ n = Len(cursors)
         /\ \A i \in 1..n : IsCursor(cursors[i]) /\ Posted(cursors[i]) \subseteq Docs
BY WorkloadAssumption DEF IsQuery, IsCursor, cursors, n

LEMMA SortedIs ==
  ASSUME NEW o, NEW p
  PROVE  o \in Sorted(p) <=> /\ o \in [1..n -> 1..n]
                             /\ IsOrder(n, o)
                             /\ Ascends(n, [i \in 1..n |-> p[o[i]]])
BY DEF Sorted, IsOrder, Ascends

\* The first cursor of the order is on the smallest document.
LEMMA FirstIsLeast ==
  ASSUME n \in Nat, pos \in [1..n -> 0..NumDocs], order \in Sorted(pos), NEW c \in 1..n
  PROVE  pos[order[1]] <= pos[c] /\ order[1] \in 1..n
<1>1. IsOrder(n, order)
  BY SortedIs
<1>2. \A e \in 1..n : \E i \in 1..n : order[i] = e
  BY SMTT(30), ZenonT(60), <1>1, OrderIsOnto
<1>3. PICK i \in 1..n : order[i] = c
  BY <1>2
<1>4. 1 \in 1..n /\ (i = 1 \/ 1 < i)
  OBVIOUS
<1>5. order[1] \in 1..n
  BY <1>1, <1>4 DEF IsOrder
<1>6. \A x \in 0..NumDocs : x <= x
  BY NumDocsAssumption
<1> QED  BY <1>3, <1>4, <1>5, <1>6 DEF Sorted

\* A cursor that moved forward is moved up in the order, past those it has overtaken.
LEMMA MovedToSorts ==
  ASSUME n \in Nat, pos \in [1..n -> 0..NumDocs], order \in Sorted(pos),
         NEW j \in 1..n, NEW m \in j..n, NEW p \in [1..n -> 0..NumDocs],
         \A c \in 1..n : c # order[j] => p[c] = pos[c], p[order[j]] >= pos[order[j]],
         \A i \in (j + 1)..m : p[order[i]] <= p[order[j]],
         m < n => p[order[m + 1]] >= p[order[j]]
  PROVE  MovedTo(j, m) \in Sorted(p)
<1> DEFINE o == MovedTo(j, m)
           v == [i \in 1..n |-> p[order[i]]]
<1>1. IsOrder(n, order) /\ Ascends(n, [i \in 1..n |-> pos[order[i]]])
  BY SortedIs
<1>2. Overtakes(n, v, j, m)
  BY OvertakenAtPlaces
<1>3. MovesUp(n, order, o, j, m)
  BY DEF MovedTo, MovesUp
<1>4. o = [i \in 1..n |-> o[i]]
  BY DEF MovedTo
<1> HIDE DEF o
<1>5. IsOrder(n, o)
  BY <1>1, <1>3, MovedUpIsOrder
<1>6. Ascends(n, [i \in 1..n |-> p[o[i]]])
  BY <1>1, <1>2, <1>3, BubbledSorts
<1>7. o \in [1..n -> 1..n]
  <2>1. \A i \in 1..n : o[i] \in 1..n
    BY <1>5 DEF IsOrder
  <2> QED  BY <1>4, <2>1
<1> QED  BY <1>5, <1>6, <1>7, SortedIs DEF o

LEMMA BubbleDownSorts ==
  ASSUME n \in Nat, pos \in [1..n -> 0..NumDocs], order \in Sorted(pos), NEW j \in 1..n,
         NEW p \in [1..n -> 0..NumDocs], \A c \in 1..n : c # order[j] => p[c] = pos[c],
         p[order[j]] >= pos[order[j]]
  PROVE  BubbleDown(j, p) \in Sorted(p)
<1> DEFINE stops(m) == /\ \A i \in (j + 1)..m : p[order[i]] < p[order[j]]
                       /\ m < n => p[order[m + 1]] >= p[order[j]]
           m0 == CHOOSE m \in j..n : stops(m)
<1>1. \A i \in 1..n : order[i] \in 1..n
  BY SortedIs DEF IsOrder
<1>2. \E m \in j..n : stops(m)
  BY <1>1, StopAtPlaces
<1>3. m0 \in j..n /\ stops(m0)
  <2> HIDE DEF stops
  <2> QED  BY <1>2
<1>4. BubbleDown(j, p) = MovedTo(j, m0)
  BY DEF BubbleDown
<1> HIDE DEF m0
<1>5. \A i \in (j + 1)..m0 : p[order[i]] <= p[order[j]]
  <2> SUFFICES ASSUME NEW i \in (j + 1)..m0 PROVE p[order[i]] <= p[order[j]]
    OBVIOUS
  <2>1. i \in 1..n /\ p[order[i]] < p[order[j]]
    BY <1>3
  <2>2. p[order[i]] \in 0..NumDocs /\ p[order[j]] \in 0..NumDocs
    BY <1>1, <2>1
  <2>3. p[order[i]] \in Nat /\ p[order[j]] \in Nat
    BY <2>2, NumDocsAssumption
  <2>4. \A x, y \in Nat : x < y => x <= y
    OBVIOUS
  <2> QED  BY <2>1, <2>3, <2>4
<1> QED  BY <1>3, <1>4, <1>5, MovedToSorts

LEMMA PlacesInit == Init => PlacesInv
<1> SUFFICES ASSUME Init PROVE PlacesInv
  OBVIOUS
<1>1. call \in Workload /\ n \in Nat
  BY CallIsQuery DEF Init
<1>2. \A c \in 1..n : pos[c] = FirstGeq(cursors[c], 0) /\ Posted(cursors[c]) \subseteq Docs
  BY <1>1, CallIsQuery DEF Init
<1>3. 0 \in 0..NumDocs
  BY NumDocsAssumption
<1>4. \A c \in 1..n : /\ pos[c] \in 0..NumDocs
                      /\ pos[c] < NumDocs => pos[c] \in Posted(cursors[c])
  BY <1>2, <1>3, FirstGeqIsNext
<1>5. pos \in [1..n -> 0..NumDocs]
  BY <1>4 DEF Init
<1>6. order \in [1..n -> 1..n]
  BY DEF Init
<1>7. TypeOK
  BY <1>1, <1>5, <1>6, CallIsQuery, ThresholdsAssumption DEF Init, TypeOK
<1>8. OnPostings /\ Offered
  BY <1>4 DEF Init, OnPostings, Offered
<1> QED  BY <1>1, <1>7, <1>8 DEF Init, PlacesInv

\* A document is scored: the cursors on it, which is where the first one of the order
\* stands, move on.
ScoresAt(d, score) ==
  /\ pc = "loop"
  /\ d = pos[order[1]] /\ d < NumDocs
  /\ Insert(score, d)
  /\ pos' = [c \in 1..n |-> IF pos[c] = d THEN NextFrom(cursors[c], d) ELSE pos[c]]
  /\ order' \in Sorted(pos')
  /\ UNCHANGED <<call, pc, floor>>

\* Every cursor is on the document or beyond it, and moves beyond it.
LEMMA ScoredPlaces ==
  ASSUME PlacesInv, NEW d, NEW score, ScoresAt(d, score), n # 0
  PROVE  /\ d \in Docs
         /\ \E c \in 1..n : pos[c] = d /\ d \in Posted(cursors[c])
         /\ pos' \in [1..n -> 0..NumDocs]
         /\ order' \in [1..n -> 1..n]
         /\ \A c \in 1..n : /\ pos[c] >= d
                            /\ pos[c] > d => pos'[c] = pos[c]
                            /\ pos[c] = d => pos'[c] = FirstGeq(cursors[c], d + 1)
                            /\ pos'[c] > d
                            /\ pos'[c] >= pos[c]
                            /\ pos'[c] < NumDocs => pos'[c] \in Posted(cursors[c])
<1>1. n \in Nat /\ pos \in [1..n -> 0..NumDocs] /\ order \in Sorted(pos) /\ 1 \in 1..n
  BY CallIsQuery DEF PlacesInv, TypeOK, ScoresAt
<1>2. /\ d < NumDocs /\ pos[order[1]] = d
      /\ pos' = [c \in 1..n |-> IF pos[c] = d THEN NextFrom(cursors[c], d) ELSE pos[c]]
      /\ order' \in Sorted(pos')
  BY DEF ScoresAt
<1>3. \A c \in 1..n : pos[c] \in Nat /\ pos[c] <= NumDocs
  BY <1>1, NumDocsAssumption
<1>4. order[1] \in 1..n /\ \A c \in 1..n : pos[c] >= d
  BY <1>1, <1>2, <1>3, FirstIsLeast
<1>5. d \in Nat /\ d \in Docs /\ d + 1 \in 0..NumDocs
  BY <1>2, <1>3, <1>4, NumDocsAssumption DEF Docs
<1>6. ASSUME NEW c \in 1..n
      PROVE  /\ pos'[c] \in 0..NumDocs
             /\ pos[c] > d => pos'[c] = pos[c]
             /\ pos[c] = d => pos'[c] = FirstGeq(cursors[c], d + 1)
             /\ pos'[c] > d /\ pos'[c] >= pos[c]
             /\ pos'[c] < NumDocs => pos'[c] \in Posted(cursors[c])
  <2>1. CASE pos[c] = d
    <3>1. pos'[c] = FirstGeq(cursors[c], d + 1)
      BY <1>2, <2>1 DEF NextFrom
    <3>2. Posted(cursors[c]) \subseteq Docs
      BY CallIsQuery DEF PlacesInv
    <3>3. /\ FirstGeq(cursors[c], d + 1) \in 0..NumDocs
          /\ FirstGeq(cursors[c], d + 1) >= d + 1
          /\ FirstGeq(cursors[c], d + 1) < NumDocs
               => FirstGeq(cursors[c], d + 1) \in Posted(cursors[c])
      BY <1>5, <3>2, FirstGeqIsNext
    <3> QED  BY <1>5, <2>1, <3>1, <3>3, NumDocsAssumption
  <2>2. CASE pos[c] # d
    <3>1. pos'[c] = pos[c]
      BY <1>2, <2>2
    <3> QED  BY <1>1, <1>3, <1>4, <1>5, <2>2, <3>1 DEF PlacesInv, OnPostings
  <2> QED  BY <2>1, <2>2
<1>7. pos' \in [1..n -> 0..NumDocs]
  BY <1>2, <1>6
<1>8. order' \in [1..n -> 1..n]
  BY <1>2 DEF Sorted, ScoresAt
<1>9. pos[order[1]] = d /\ d \in Posted(cursors[order[1]])
  BY <1>2, <1>4 DEF PlacesInv, OnPostings
<1> QED  BY <1>4, <1>5, <1>6, <1>7, <1>8, <1>9

\* One cursor that was behind document t moves up to it.
Moves(moved, t) ==
  /\ pos[moved] < t
  /\ pos' = [c \in 1..n |-> IF c = moved THEN FirstGeq(cursors[c], t) ELSE pos[c]]

Jumps(moved, t) ==
  /\ pc = "loop"
  /\ Moves(moved, t)
  /\ order' \in Sorted(pos')
  /\ UNCHANGED <<heap, threshold, call, pc, floor>>

LEMMA MovedPlaces ==
  ASSUME PlacesInv, NEW moved \in 1..n, NEW t \in Nat, Moves(moved, t)
  PROVE  /\ pos' \in [1..n -> 0..NumDocs]
         /\ \A c \in 1..n : /\ c # moved => pos'[c] = pos[c]
                            /\ pos'[c] >= pos[c]
                            /\ pos'[c] < NumDocs => pos'[c] \in Posted(cursors[c])
         /\ \A e \in Posted(cursors[moved]) : pos'[moved] > e => e < t
<1>1. \A c \in 1..n : pos[c] \in 0..NumDocs /\ pos[c] \in Nat /\ pos[c] <= NumDocs
  <2>1. \A c \in 1..n : pos[c] \in 0..NumDocs
    BY DEF PlacesInv, TypeOK
  <2> QED  BY <2>1, NumDocsAssumption
<1>2. /\ pos[moved] < t /\ pos'[moved] = FirstGeq(cursors[moved], t)
      /\ \A c \in 1..n : c # moved => pos'[c] = pos[c]
      /\ pos' = [c \in 1..n |-> pos'[c]]
  BY DEF Moves
<1>3. Posted(cursors[moved]) \subseteq Docs
  BY CallIsQuery DEF PlacesInv
<1>4. /\ pos'[moved] \in 0..NumDocs
      /\ pos'[moved] >= t \/ pos'[moved] = NumDocs
      /\ pos'[moved] < NumDocs => pos'[moved] \in Posted(cursors[moved])
      /\ \A e \in Posted(cursors[moved]) : t <= e => pos'[moved] <= e
  BY <1>2, <1>3, FirstGeqBeyond
<1>5. pos' \in [1..n -> 0..NumDocs]
  <2>1. \A c \in 1..n : pos'[c] \in 0..NumDocs
    BY <1>1, <1>2, <1>4
  <2> QED  BY <1>2, <2>1
<1>6. pos'[moved] >= pos[moved]
  BY <1>1, <1>2, <1>4, NumDocsAssumption
<1>7. \A c \in 1..n : /\ pos'[c] >= pos[c]
                      /\ pos'[c] < NumDocs => pos'[c] \in Posted(cursors[c])
  BY <1>1, <1>2, <1>4, <1>6 DEF PlacesInv, OnPostings
<1>8. \A e \in Posted(cursors[moved]) : pos'[moved] > e => e < t
  <2> SUFFICES ASSUME NEW e \in Posted(cursors[moved]), pos'[moved] > e PROVE e < t
    OBVIOUS
  <2>1. e \in Nat /\ pos'[moved] \in Nat
    BY <1>3, <1>4, NumDocsAssumption DEF Docs
  <2> QED  BY <1>4, <2>1
<1> QED  BY <1>2, <1>5, <1>7, <1>8

\* What the cursors on document d score: no more than its full score, and all of it
\* when no list of the document is past it.
LEMMA ScoreHere ==
  ASSUME PlacesInv, NEW d \in Docs, \A c \in 1..n : pos[c] >= d
  PROVE  LET score == SumOver(Contribution(cursors, d), {c \in 1..n : pos[c] = d}, n)
         IN  /\ score \in Nat
             /\ FullScore(cursors, d) \in Nat
             /\ score <= FullScore(cursors, d)
             /\ ~ Passed(d) => score = FullScore(cursors, d)
<1> DEFINE here == {c \in 1..n : pos[c] = d}
           score == SumOver(Contribution(cursors, d), here, n)
<1>1. /\ n \in Nat /\ n = Len(cursors) /\ Len(cursors) \in Nat
      /\ \A i \in 1..Len(cursors) : IsCursor(cursors[i])
  BY CallIsQuery DEF PlacesInv
<1>2. NatsTo(Contribution(cursors, d), n)
  BY <1>1, ContributionNat
<1>3. score \in Nat
  BY <1>1, <1>2, SumOverNat
<1>4. /\ SumOver(Contribution(cursors, d), 1..n, n) = FullScore(cursors, d)
      /\ FullScore(cursors, d) \in Nat
  BY <1>1, FullScoreOver
<1>5. score <= FullScore(cursors, d)
  <2>1. \A i \in 1..n : Contribution(cursors, d)[i] \in Nat
    BY <1>2 DEF NatsTo
  <2>2. \A i \in 1..n : i \in here => IF i \in 1..n
                                     THEN Contribution(cursors, d)[i] <= Contribution(cursors, d)[i]
                                     ELSE Contribution(cursors, d)[i] = 0
    BY <2>1
  <2> HIDE DEF here
  <2>3. SumOver(Contribution(cursors, d), here, n) <= SumOver(Contribution(cursors, d), 1..n, n)
    BY <1>1, <1>2, <2>2, SumOverMonotone
  <2> QED  BY <1>4, <2>3
<1>6. ASSUME ~ Passed(d) PROVE score = FullScore(cursors, d)
  <2>1. \A c \in 1..n : pos[c] \in 0..NumDocs
    BY DEF PlacesInv, TypeOK
  <2>2. \A c \in 1..n : pos[c] \in Nat
    BY <2>1, NumDocsAssumption
  <2>3. \A c \in 1..n : d \in Posted(cursors[c]) => c \in here
    BY <1>6, <2>2 DEF Passed, Docs
  <2> HIDE DEF here
  <2> QED  BY <1>1, <2>3, FullScoreOver
<1> QED  BY <1>3, <1>4, <1>5, <1>6

LEMMA PrimedIsNat ==
  ASSUME call \in Workload, call.prime
  PROVE  /\ PrimedThreshold(cursors, K) \in Nat
         /\ \/ PrimedThreshold(cursors, K) = 0
            \/ Cardinality({d \in Docs : FullScore(cursors, d) > PrimedThreshold(cursors, K)}) >= K
<1>1. IsQuery(cursors) /\ PrimingHolds(cursors) /\ K \in Nat \ {0}
  BY WorkloadAssumption, KAssumption DEF cursors
<1> QED  BY <1>1, PrimedThresholdSound

LEMMA ScoredKeepsPlaces ==
  ASSUME PlacesInv, NEW d, NEW score \in Nat, ScoresAt(d, score), n # 0
  PROVE  PlacesInv'
<1>1. /\ UNCHANGED <<call, pc, floor>> /\ UNCHANGED n /\ UNCHANGED cursors
      /\ Insert(score, d) /\ order' \in Sorted(pos')
  BY DEF ScoresAt, n, cursors
<1>2. /\ d \in Docs
      /\ \E c \in 1..n : pos[c] = d
      /\ pos' \in [1..n -> 0..NumDocs]
      /\ order' \in [1..n -> 1..n]
      /\ \A c \in 1..n : /\ pos'[c] > d
                         /\ pos'[c] >= pos[c]
                         /\ pos'[c] < NumDocs => pos'[c] \in Posted(cursors[c])
  BY ScoredPlaces
<1>3. <<score, d>> \notin heap
  <2>1. ~ (d < d)
    BY <1>2 DEF Docs
  <2> QED  BY <1>2, <2>1 DEF PlacesInv, Offered
<1>4. /\ heap' \subseteq Nat \X Docs /\ threshold' \in Nat
      /\ heap' \subseteq heap \cup {<<score, d>>}
  <2>1. Promise!Insert(score, d)
    BY <1>1, SameInsert
  <2>2. heap \subseteq Nat \X Docs /\ threshold \in Nat
    BY DEF PlacesInv, TypeOK
  <2> QED  BY <1>2, <1>3, <2>1, <2>2, Promise!InsertTypes, KAssumption, DocsFinite
<1>5. Offered'
  <2>1. \A e \in heap' : \A c \in 1..n : e[2] < pos'[c]
    <3> SUFFICES ASSUME NEW e \in heap', NEW c \in 1..n PROVE e[2] < pos'[c]
      OBVIOUS
    <3>1. e[2] \in Nat /\ pos[c] \in Nat /\ pos'[c] \in Nat /\ d \in Nat
      <4>1. e[2] \in Docs /\ pos[c] \in 0..NumDocs /\ pos'[c] \in 0..NumDocs
        BY <1>2, <1>4 DEF PlacesInv, TypeOK
      <4> QED  BY <1>2, <4>1, NumDocsAssumption DEF Docs
    <3>2. e[2] < pos[c] \/ e[2] = d
      BY <1>4 DEF PlacesInv, Offered
    <3> QED  BY <1>2, <3>1, <3>2
  <2> QED  BY <1>1, <2>1 DEF Offered
<1>6. OnPostings'
  BY <1>1, <1>2 DEF OnPostings
<1>7. (order \in Sorted(pos))'
  BY <1>1 DEF Sorted
<1> QED  BY <1>1, <1>2, <1>4, <1>5, <1>6, <1>7 DEF PlacesInv, TypeOK

LEMMA JumpKeepsPlaces ==
  ASSUME PlacesInv, NEW moved \in 1..n, NEW t \in Nat, Jumps(moved, t)
  PROVE  PlacesInv'
<1>1. /\ UNCHANGED <<heap, threshold, call, pc, floor>> /\ UNCHANGED n /\ UNCHANGED cursors
      /\ Moves(moved, t) /\ order' \in Sorted(pos')
  BY DEF Jumps, n, cursors
<1>2. /\ pos' \in [1..n -> 0..NumDocs]
      /\ \A c \in 1..n : /\ pos'[c] >= pos[c]
                         /\ pos'[c] < NumDocs => pos'[c] \in Posted(cursors[c])
  BY <1>1, MovedPlaces
<1>3. (order \in Sorted(pos))' /\ order' \in [1..n -> 1..n]
  BY <1>1 DEF Sorted
<1>4. Offered'
  <2>1. \A e \in heap : \A c \in 1..n : e[2] < pos'[c]
    <3> SUFFICES ASSUME NEW e \in heap, NEW c \in 1..n PROVE e[2] < pos'[c]
      OBVIOUS
    <3>1. e[2] \in Docs /\ pos[c] \in 0..NumDocs /\ pos'[c] \in 0..NumDocs /\ e[2] < pos[c]
      BY <1>2 DEF PlacesInv, TypeOK, Offered
    <3>2. e[2] \in Nat /\ pos[c] \in Nat /\ pos'[c] \in Nat
      BY <3>1, NumDocsAssumption DEF Docs
    <3> QED  BY <1>2, <3>1, <3>2
  <2> QED  BY <1>1, <2>1 DEF Offered
<1>5. OnPostings'
  BY <1>1, <1>2 DEF OnPostings
<1> QED  BY <1>1, <1>2, <1>3, <1>4, <1>5 DEF PlacesInv, TypeOK

\* The two kinds of turns of the loop.
LEMMA EvaluateScores ==
  ASSUME PlacesInv, NEW i \in 1..n, Evaluate(i)
  PROVE  \E d \in Docs :
           /\ d = pos[order[i]]
           /\ \A c \in 1..n : pos[c] >= d
           /\ ScoresAt(d, SumOver(Contribution(cursors, d), {c \in 1..n : pos[c] = d}, n))
<1>1. pos[order[i]] = pos[order[1]] /\ pos[order[i]] < NumDocs /\ n # 0
  BY DEF Evaluate, IsPivot
<1> DEFINE d == pos[order[i]]
           score == SumOver(Contribution(cursors, d), {c \in 1..n : pos[c] = d}, n)
<1>2. pos' = [c \in 1..n |-> IF pos[c] = d THEN NextFrom(cursors[c], d) ELSE pos[c]]
  BY DEF Evaluate
<1>3. ScoresAt(d, score)
  BY <1>1, <1>2 DEF Evaluate, ScoresAt
<1> HIDE DEF d, score
<1>4. d \in Docs /\ \A c \in 1..n : pos[c] >= d
  BY <1>1, <1>3, ScoredPlaces
<1> QED  BY <1>3, <1>4 DEF d, score

\* The last cursor behind the document of place i.
LEMMA LastBehindIs ==
  ASSUME PlacesInv, pc = "loop", NEW i \in 1..n, pos[order[1]] # pos[order[i]]
  PROVE  /\ LastBehind(i, pos[order[i]]) \in 1..i
         /\ LastBehind(i, pos[order[i]]) \in 1..n
         /\ order[LastBehind(i, pos[order[i]])] \in 1..n
         /\ pos[order[LastBehind(i, pos[order[i]])]] < pos[order[i]]
<1> DEFINE d == pos[order[i]]
           j == LastBehind(i, d)
           Behind == {l \in 1..i : pos[order[l]] # d}
<1>1. /\ n \in Nat /\ pos \in [1..n -> 0..NumDocs] /\ order \in Sorted(pos)
      /\ order[i] \in 1..n /\ 1 \in 1..n /\ i \in Nat
  BY CallIsQuery DEF PlacesInv, TypeOK
<1>2. \A c \in 1..n : pos[c] \in Nat
  BY <1>1, NumDocsAssumption
<1>3. \A l \in 1..n : order[l] \in 1..n
  BY <1>1 DEF Sorted
<1>4. j \in 1..i /\ pos[order[j]] # d
  <2>1. Behind \subseteq 0..i /\ 1 \in Behind
    OBVIOUS
  <2> HIDE DEF d
  <2>2. PICK g \in Behind : \A l \in Behind : l <= g
    BY <1>1, <2>1, GreatestNat
  <2>3. \A l \in (g + 1)..i : l \in 1..i /\ ~ (l <= g)
    BY <2>2
  <2>4. g \in 1..i /\ pos[order[g]] # d /\ \A l \in (g + 1)..i : pos[order[l]] = d
    BY <2>2, <2>3
  <2> QED  BY <2>4 DEF LastBehind
<1> HIDE DEF j
<1>5. j \in 1..n /\ order[j] \in 1..n
  <2> HIDE DEF d
  <2>1. j \in 1..n
    BY <1>1, <1>4
  <2> QED  BY <1>3, <2>1
<1>6. j < i
  <2>1. j # i
    BY <1>4
  <2> HIDE DEF d
  <2> QED  BY <1>1, <1>4, <2>1
<1>7. pos[order[j]] <= d
  BY <1>1, <1>5, <1>6 DEF Sorted
<1> QED  BY <1>1, <1>2, <1>4, <1>5, <1>7 DEF j

LEMMA AdvanceJumps ==
  ASSUME PlacesInv, NEW i \in 1..n, Advance(i)
  PROVE  \E moved \in 1..n : \E t \in Docs : t = pos[order[i]] /\ Jumps(moved, t)
<1> DEFINE t == pos[order[i]]
           j == LastBehind(i, t)
           moved == order[j]
<1>1. /\ n \in Nat /\ pos \in [1..n -> 0..NumDocs] /\ order \in Sorted(pos)
      /\ order[i] \in 1..n
  BY CallIsQuery DEF PlacesInv, TypeOK, Advance, AdvanceTo
<1>2. /\ pc = "loop" /\ t < NumDocs /\ pos[order[1]] # t
      /\ pos' = [pos EXCEPT ![moved] = NextGeq(cursors[moved], @, t)]
      /\ order' = BubbleDown(j, pos')
      /\ UNCHANGED <<heap, threshold, call, pc, floor>>
  BY DEF Advance, AdvanceTo, IsPivot
<1>3. t \in Docs /\ t \in Nat
  BY <1>1, <1>2, NumDocsAssumption DEF Docs
<1>4. j \in 1..n /\ moved \in 1..n /\ pos[moved] < t
  BY <1>2, LastBehindIs
<1> HIDE DEF t, j
<1>5. Moves(moved, t)
  BY <1>1, <1>2, <1>4 DEF NextGeq, Moves
<1>6. /\ pos' \in [1..n -> 0..NumDocs]
      /\ \A c \in 1..n : (c # moved => pos'[c] = pos[c]) /\ pos'[c] >= pos[c]
  BY <1>3, <1>4, <1>5, MovedPlaces
<1>7. order' \in Sorted(pos')
  BY <1>1, <1>2, <1>4, <1>6, BubbleDownSorts
<1>8. Jumps(moved, t)
  BY <1>2, <1>5, <1>7 DEF Jumps
<1> QED  BY <1>3, <1>4, <1>8 DEF t

LEMMA PlacesNext == PlacesInv /\ [Next]_vars => PlacesInv'
<1> SUFFICES ASSUME PlacesInv, [Next]_vars PROVE PlacesInv'
  OBVIOUS
<1>1. UNCHANGED call /\ UNCHANGED n /\ UNCHANGED cursors
  <2>1. UNCHANGED call
    BY DEF Next, vars, ReturnEmpty, Start, Evaluate, Advance, AdvanceTo, Stop
  <2> QED  BY <2>1 DEF n, cursors
<1>2. CASE ReturnEmpty
  BY <1>1, <1>2 DEF ReturnEmpty, PlacesInv, TypeOK, OnPostings, Offered, Sorted
<1>3. CASE Start
  <2>1. threshold' \in Nat /\ UNCHANGED heap /\ floor' \in Nat
    BY <1>3, PrimedIsNat DEF Start, SetThreshold, queueVars, PlacesInv, TypeOK
  <2>2. order' \in [1..n -> 1..n]
    BY <1>3 DEF Start, Sorted
  <2>3. (order \in Sorted(pos))'
    BY <1>1, <1>3 DEF Start, Sorted
  <2> QED  BY <1>1, <1>3, <2>1, <2>2, <2>3 DEF Start, PlacesInv, TypeOK, OnPostings, Offered
<1>4. ASSUME NEW i \in 1..n, Evaluate(i) PROVE PlacesInv'
  <2>1. PICK d \in Docs :
          /\ \A c \in 1..n : pos[c] >= d
          /\ ScoresAt(d, SumOver(Contribution(cursors, d), {c \in 1..n : pos[c] = d}, n))
    BY <1>4, EvaluateScores
  <2>2. SumOver(Contribution(cursors, d), {c \in 1..n : pos[c] = d}, n) \in Nat
    BY <2>1, ScoreHere
  <2>3. n # 0
    OBVIOUS
  <2> QED  BY <2>1, <2>2, <2>3, ScoredKeepsPlaces
<1>5. ASSUME NEW i \in 1..n, Advance(i) PROVE PlacesInv'
  <2>1. PICK moved \in 1..n : \E t \in Docs : Jumps(moved, t)
    BY <1>5, AdvanceJumps
  <2>2. PICK t \in Docs : Jumps(moved, t)
    BY <2>1
  <2> QED  BY <2>2, JumpKeepsPlaces DEF Docs
<1>6. CASE Stop
  BY <1>1, <1>6 DEF Stop, PlacesInv, TypeOK, OnPostings, Offered, Sorted
<1>7. CASE UNCHANGED vars
  BY <1>1, <1>7 DEF vars, PlacesInv, TypeOK, OnPostings, Offered, Sorted
<1> QED  BY <1>2, <1>3, <1>4, <1>5, <1>6, <1>7 DEF Next

THEOREM PlacesHold == Spec => []PlacesInv
BY PlacesInit, PlacesNext, PTL DEF Spec

\* The state of the loop has its types: positions, order, heap and threshold.
THEOREM TypeCorrect == Spec => []TypeOK
BY PlacesHold, PTL DEF PlacesInv

-----------------------------------------------------------------------------
(* Documents that are passed over cannot enter the queue.                  *)

\* Every list of document e is among the first m of the order.
Covered(e, m) ==
  \A c \in 1..n : e \in Posted(cursors[c]) => \E j \in 1..m : order[j] = c

\* The bound over the first m lists holds for the documents with no other list.
LEMMA BoundHolds ==
  ASSUME PairAwareOnSplit, PlacesInv, pc = "loop", NEW m \in 0..n, NEW e, Covered(e, m)
  PROVE  FullScore(cursors, e) <= UpperBound(m) /\ UpperBound(m) \in Nat
<1>1. /\ IsQuery(cursors) /\ n = Len(cursors) /\ n \in Nat
      /\ call.pairAware => PairBoundsHold(cursors)
  BY CallIsQuery DEF PlacesInv, PairAwareOnSplit, cursors
<1>2. IsOrder(n, order)
  BY SortedIs DEF PlacesInv
<1>3. /\ m \in Nat /\ \A j \in 1..m : order[j] \in 1..Len(cursors)
      /\ \A i, j \in 1..m : i # j => order[i] # order[j]
  <2>1. \A j \in 1..m : j \in 1..n
    BY <1>1
  <2> QED  BY <1>1, <1>2, <2>1 DEF IsOrder
<1>4. \A c \in 1..Len(cursors) : e \in Posted(cursors[c]) => \E j \in 1..m : order[j] = c
  BY <1>1 DEF Covered
<1> QED  BY <1>1, <1>3, <1>4, AccumulatedCovers DEF UpperBound

\* The bound accumulated over the first cursors covers every document whose lists
\* are all among them: the pivot is never beyond a document that can enter.
LEMMA InvImpliesBoundCovers == PairAwareOnSplit /\ PlacesInv => BoundCoversDocuments
BY BoundHolds DEF BoundCoversDocuments, Covered

\* If those lists cannot reach the threshold, neither can the document.
LEMMA CannotEnter ==
  ASSUME PairAwareOnSplit, PlacesInv, pc = "loop", NEW m \in 0..n, NEW e \in Docs,
         Covered(e, m), m = 0 \/ ~ WouldEnter(UpperBound(m))
  PROVE  FullScore(cursors, e) \in Nat /\ FullScore(cursors, e) <= threshold
<1>1. FullScore(cursors, e) \in Nat
  <2>1. /\ Len(cursors) \in Nat /\ \A i \in 1..Len(cursors) : IsCursor(cursors[i])
    BY CallIsQuery DEF PlacesInv
  <2> QED  BY <2>1, FullScoreOver
<1>2. threshold \in Nat
  BY DEF PlacesInv, TypeOK
<1>3. FullScore(cursors, e) <= UpperBound(m) /\ UpperBound(m) \in Nat
  BY BoundHolds
<1>4. UpperBound(0) = 0
  BY AccumulatedStep DEF UpperBound, NoBound
<1> QED  BY <1>1, <1>2, <1>3, <1>4 DEF WouldEnter

\* The lists of a document ahead of every cursor over them are placed before a
\* cursor that is past it.
LEMMA CoveredBefore ==
  ASSUME PlacesInv, pc = "loop", NEW e \in Docs, ~ Passed(e), NEW i \in 1..n,
         pos[order[i]] > e
  PROVE  Covered(e, i - 1)
<1>1. /\ n \in Nat /\ order \in Sorted(pos) /\ IsOrder(n, order)
      /\ \A c \in 1..n : pos[c] \in Nat
      /\ e \in Nat
  <2>1. \A c \in 1..n : pos[c] \in 0..NumDocs
    BY DEF PlacesInv, TypeOK
  <2>2. \A x \in 0..NumDocs : x \in Nat
    BY NumDocsAssumption
  <2>3. e \in Nat
    BY NumDocsAssumption DEF Docs
  <2>4. order \in Sorted(pos) /\ IsOrder(n, order)
    BY SortedIs DEF PlacesInv
  <2> QED  BY <2>1, <2>2, <2>3, <2>4, CallIsQuery DEF PlacesInv
<1> SUFFICES ASSUME NEW c \in 1..n, e \in Posted(cursors[c])
             PROVE  \E j \in 1..(i - 1) : order[j] = c
  BY DEF Covered
<1>2. pos[c] <= e
  BY <1>1 DEF Passed
<1>3. \A x \in 1..n : \E k \in 1..n : order[k] = x
  BY <1>1, OrderIsOnto
<1>4. PICK k \in 1..n : order[k] = c
  BY <1>3
<1>5. k < i
  <2>1. pos[order[i]] \in Nat
    BY <1>1 DEF IsOrder
  <2>2. k # i
    BY <1>1, <1>2, <1>4, <2>1
  <2>3. ~ (i < k)
    <3>1. i < k => pos[order[i]] <= pos[order[k]]
      BY <1>1 DEF Sorted
    <3> QED  BY <1>1, <1>2, <1>4, <2>1, <3>1
  <2> QED  BY <1>1, <2>2, <2>3
<1>6. k \in 1..(i - 1)
  BY <1>1, <1>5
<1> QED  BY <1>4, <1>6

-----------------------------------------------------------------------------
(* The inductive invariant: WAND keeps the promise of a ranked query.       *)

\* A document some list has moved past cannot enter through the lists still on it.
SkippedCannotEnter ==
  \A d \in Docs :
    Passed(d) /\ FullScore(cursors, d) > threshold
      => \A c \in 1..n : d \in Posted(cursors[c]) => pos[c] > d

Progress ==
  /\ pc = "start" => heap = {} /\ threshold = floor /\ \A d \in Docs : ~ Passed(d)
  /\ pc = "loop" => SkippedCannotEnter /\ cursors # <<>>
  /\ pc = "done" /\ cursors = <<>> => heap = {}
  /\ pc # "start" /\ call.prime /\ cursors # <<>> => Promise!PrimeSound(floor)

WandInv == PlacesInv /\ Promise!RetrievalInv /\ Progress

\* What is known of the documents in every state.
LEMMA Known ==
  ASSUME PlacesInv
  PROVE  /\ \A d \in Docs : Relevance[d] = FullScore(cursors, d) /\ Relevance[d] \in Nat
         /\ Relevance \in [Docs -> Nat]
         /\ Settled \subseteq Docs
         /\ threshold \in Nat
         /\ \A c \in 1..n : pos[c] \in Nat
         /\ \A d \in Docs : d \in Nat
<1>1. \A d \in Docs : FullScore(cursors, d) \in Nat
  <2>1. /\ Len(cursors) \in Nat /\ \A i \in 1..Len(cursors) : IsCursor(cursors[i])
    BY CallIsQuery DEF PlacesInv
  <2> QED  BY <2>1, FullScoreOver
<1>2. \A c \in 1..n : pos[c] \in 0..NumDocs
  BY DEF PlacesInv, TypeOK
<1>3. \A x \in 0..NumDocs : x \in Nat
  BY NumDocsAssumption
<1>4. threshold \in Nat
  BY DEF PlacesInv, TypeOK
<1>5. Settled \subseteq Docs
  BY DEF Settled
<1>6. \A d \in Docs : d \in Nat
  BY NumDocsAssumption DEF Docs
<1>7. /\ \A d \in Docs : Relevance[d] = FullScore(cursors, d) /\ Relevance[d] \in Nat
      /\ Relevance \in [Docs -> Nat]
  BY <1>1 DEF Relevance
<1> QED  BY <1>2, <1>3, <1>4, <1>5, <1>6, <1>7

\* No cursor starts beyond a document of its list.
LEMMA StartInv == Init => WandInv /\ Promise!Init
<1> SUFFICES ASSUME Init PROVE WandInv /\ Promise!Init
  OBVIOUS
<1>1. PlacesInv
  BY PlacesInit
<1>2. ASSUME NEW d \in Docs PROVE ~ Passed(d)
  <2> SUFFICES ASSUME NEW c \in 1..n, d \in Posted(cursors[c]) PROVE pos[c] <= d
    BY <1>1, Known DEF Passed
  <2>1. pos[c] = FirstGeq(cursors[c], 0) /\ Posted(cursors[c]) \subseteq Docs
    BY <1>1, CallIsQuery DEF Init, PlacesInv
  <2>2. 0 \in 0..NumDocs /\ 0 <= d
    BY NumDocsAssumption DEF Docs
  <2> QED  BY <2>1, <2>2, FirstGeqIsNext
<1>3. Settled = {}
  BY <1>2 DEF Settled, Init
<1>4. Promise!Init
  BY <1>1, <1>3, Known DEF Init, Promise!Init, PlacesInv, TypeOK
<1>5. Promise!RetrievalInv
  BY <1>4, Promise!InitInv, DocsFinite, KAssumption
<1> QED  BY <1>1, <1>2, <1>4, <1>5 DEF Init, WandInv, Progress

\* A document is never passed over twice: cursors only move forward.
LEMMA PassedGrows ==
  ASSUME PlacesInv, PlacesInv', UNCHANGED call, \A c \in 1..n : pos'[c] >= pos[c], NEW d \in Docs, Passed(d)
  PROVE  Passed(d)'
<1>1. UNCHANGED n /\ UNCHANGED cursors
  BY DEF n, cursors
<1>2. PICK c \in 1..n : d \in Posted(cursors[c]) /\ pos[c] > d
  BY DEF Passed
<1>3. pos[c] \in Nat /\ pos'[c] \in Nat /\ d \in Nat
  <2>1. pos'[c] \in 0..NumDocs
    BY <1>1 DEF PlacesInv, TypeOK
  <2> QED  BY <2>1, Known, NumDocsAssumption
<1> QED  BY <1>1, <1>2, <1>3 DEF Passed

LEMMA ScoredPasses ==
  ASSUME PlacesInv, PlacesInv', NEW d, NEW score, ScoresAt(d, score), n # 0, NEW e \in Docs
  PROVE  Passed(e)' <=> Passed(e) \/ e = d
<1>1. UNCHANGED n /\ UNCHANGED cursors
  BY DEF n, cursors, ScoresAt
<1>2. /\ d \in Docs
      /\ \E c \in 1..n : pos[c] = d /\ d \in Posted(cursors[c])
      /\ \A c \in 1..n : /\ pos[c] >= d
                         /\ pos[c] > d => pos'[c] = pos[c]
                         /\ pos[c] = d => pos'[c] = FirstGeq(cursors[c], d + 1)
                         /\ pos'[c] > d
                         /\ pos'[c] >= pos[c]
  BY ScoredPlaces
<1>3. /\ e \in Nat /\ d \in Nat /\ d + 1 \in 0..NumDocs
      /\ \A c \in 1..n : pos[c] \in Nat
  BY <1>2, Known, NumDocsAssumption DEF Docs
<1>4. Passed(e) => Passed(e)'
  BY <1>2, PassedGrows DEF ScoresAt
<1>5. ASSUME e = d PROVE Passed(e)'
  BY <1>1, <1>2, <1>5 DEF Passed
<1>6. ASSUME Passed(e)', e # d PROVE Passed(e)
  <2>1. PICK c \in 1..n : e \in Posted(cursors[c]) /\ pos'[c] > e
    BY <1>1, <1>6 DEF Passed
  <2>2. CASE pos[c] > d
    BY <1>2, <2>1, <2>2 DEF Passed
  <2>3. CASE pos[c] = d
    <3>1. Posted(cursors[c]) \subseteq Docs
      BY CallIsQuery DEF PlacesInv
    <3>2. ~ (d + 1 <= e)
      <4>1. d + 1 <= e => FirstGeq(cursors[c], d + 1) <= e
        BY <1>3, <2>1, <3>1, FirstGeqIsNext
      <4>2. FirstGeq(cursors[c], d + 1) > e /\ FirstGeq(cursors[c], d + 1) \in 0..NumDocs
        BY <1>2, <1>3, <2>1, <2>3, <3>1, FirstGeqIsNext
      <4> QED  BY <1>3, <4>1, <4>2, NumDocsAssumption
    <3>3. pos[c] > e
      BY <1>3, <1>6, <2>3, <3>2
    <3> QED  BY <2>1, <3>3 DEF Passed
  <2> QED  BY <1>2, <1>3, <2>2, <2>3
<1> QED  BY <1>4, <1>5, <1>6

\* A cursor that jumps passes the documents of its list before the target.
LEMMA JumpPasses ==
  ASSUME PlacesInv, PlacesInv', NEW moved \in 1..n, NEW t \in Nat, Jumps(moved, t), NEW e \in Docs
  PROVE  /\ Passed(e) => Passed(e)'
         /\ Passed(e)' /\ ~ Passed(e) => e \in Posted(cursors[moved]) /\ e < t
<1>1. UNCHANGED n /\ UNCHANGED cursors /\ Moves(moved, t) /\ UNCHANGED call
  BY DEF n, cursors, Jumps
<1>2. /\ \A c \in 1..n : (c # moved => pos'[c] = pos[c]) /\ pos'[c] >= pos[c]
      /\ \A f \in Posted(cursors[moved]) : pos'[moved] > f => f < t
  BY <1>1, MovedPlaces
<1>3. Passed(e) => Passed(e)'
  BY <1>1, <1>2, PassedGrows
<1>4. ASSUME Passed(e)', ~ Passed(e) PROVE e \in Posted(cursors[moved]) /\ e < t
  <2>1. PICK c \in 1..n : e \in Posted(cursors[c]) /\ pos'[c] > e
    BY <1>1, <1>4 DEF Passed
  <2>2. c = moved
    BY <1>2, <1>4, <2>1 DEF Passed
  <2> QED  BY <1>2, <2>1, <2>2
<1> QED  BY <1>3, <1>4

\* A document before that of the first place whose bound can enter cannot.
LEMMA BeforePivotCannotEnter ==
  ASSUME PairAwareOnSplit, PlacesInv, pc = "loop", NEW i \in 1..n, IsPivot(i),
         NEW e \in Docs, ~ Passed(e), e < pos[order[i]]
  PROVE  FullScore(cursors, e) <= threshold
<1>1. n \in Nat /\ order[i] \in 1..n
  BY CallIsQuery DEF PlacesInv, TypeOK
<1>2. Covered(e, i - 1)
  BY <1>1, Known, CoveredBefore
<1>3. i - 1 \in 0..n /\ (i - 1 = 0 \/ ~ WouldEnter(UpperBound(i - 1)))
  <2>1. i - 1 \in 0..n /\ (i - 1 = 0 \/ i - 1 \in 1..(i - 1))
    BY <1>1
  <2> QED  BY <2>1 DEF IsPivot
<1> QED  BY <1>2, <1>3, CannotEnter

\* Without a pivot no document that some cursor still has ahead can enter.
LEMMA StopPasses ==
  ASSUME PairAwareOnSplit, PlacesInv, Stop, NEW e \in Docs, ~ Passed(e)
  PROVE  FullScore(cursors, e) <= threshold
<1> DEFINE Reaching == {i \in 1..n : WouldEnter(UpperBound(i))}
<1>1. n \in Nat /\ pc = "loop" /\ \A i \in 1..n : ~ IsPivot(i)
  BY CallIsQuery DEF PlacesInv, Stop
<1>2. CASE Reaching = {}
  <2>1. n = 0 \/ n \in 1..n
    BY <1>1
  <2>2. n \in 0..n /\ (n = 0 \/ ~ WouldEnter(UpperBound(n)))
    BY <1>1, <1>2, <2>1
  <2>3. \A c \in 1..n : \E j \in 1..n : order[j] = c
    BY ZenonT(60), SMTT(30), <1>1, SortedIs, OrderIsOnto DEF PlacesInv
  <2>4. Covered(e, n)
    BY <2>3 DEF Covered
  <2> QED  BY <1>1, <2>2, <2>4, CannotEnter
<1>3. CASE Reaching # {}
  <2>1. Reaching \subseteq Nat
    OBVIOUS
  <2>2. PICK i \in Reaching : \A j \in Reaching : i <= j
    BY <1>3, <2>1, LeastNat
  <2>3. i \in 1..n /\ WouldEnter(UpperBound(i)) /\ \A j \in 1..(i - 1) : ~ WouldEnter(UpperBound(j))
    <3>1. \A j \in 1..(i - 1) : j \in 1..n /\ ~ (i <= j)
      BY <1>1, <2>2
    <3> QED  BY <2>2, <3>1
  <2>4. ~ (pos[order[i]] < NumDocs)
    BY <1>1, <2>3 DEF IsPivot
  <2>5. pos[order[i]] > e
    <3>1. order[i] \in 1..n
      BY <2>3 DEF PlacesInv, TypeOK
    <3> QED  BY <2>4, <3>1, Known, NumDocsAssumption DEF Docs
  <2>6. Covered(e, i - 1)
    BY <1>1, <2>3, <2>5, CoveredBefore
  <2>7. /\ i - 1 \in 0..n
        /\ i - 1 = 0 \/ ~ WouldEnter(UpperBound(i - 1))
    <3>1. i - 1 \in 0..n /\ (i - 1 = 0 \/ i - 1 \in 1..(i - 1))
      BY <1>1, <2>3
    <3> QED  BY <2>3, <3>1
  <2> QED  BY <1>1, <2>6, <2>7, CannotEnter
<1> QED  BY <1>2, <1>3

\* A call without cursors: every document scores nothing.
LEMMA ReturnEmptyStep ==
  ASSUME WandInv, ReturnEmpty, UNCHANGED cursors, UNCHANGED Relevance
  PROVE  Promise!Skip /\ Progress'
<1>1. ASSUME NEW d \in Docs PROVE Relevance[d] = 0
  <2>1. Len(cursors) = 0
    BY DEF ReturnEmpty
  <2>2. FullScore(cursors, d) = 0
    BY <2>1, SumToStep DEF FullScore
  <2> QED  BY <2>2 DEF Relevance
<1>2. threshold \in Nat
  BY Known DEF WandInv
<1>3. \A d \in Docs : ~ Promise!WouldEnter(Relevance[d])
  BY <1>1, <1>2 DEF Promise!WouldEnter
<1>4. Settled \subseteq Docs /\ Settled' = Docs
  BY DEF Settled, ReturnEmpty
<1>5. Promise!Skip
  BY <1>3, <1>4 DEF Promise!Skip, ReturnEmpty
<1>6. Progress'
  BY DEF WandInv, Progress, ReturnEmpty
<1> QED  BY <1>5, <1>6

\* The loop starts from the threshold given, or from one that K documents beat.
LEMMA StartStep ==
  ASSUME WandInv, Start, UNCHANGED cursors, UNCHANGED Relevance
  PROVE  [Promise!Next]_(Promise!vars) /\ Progress'
<1>1. /\ pc = "start" /\ pc' = "loop" /\ UNCHANGED <<heap, call, pos>> /\ floor' = threshold'
      /\ cursors # <<>>
      /\ threshold' = IF call.prime THEN PrimedThreshold(cursors, K) ELSE threshold
  BY DEF Start, SetThreshold, queueVars
<1>2. /\ heap = {} /\ threshold = floor /\ \A d \in Docs : ~ Passed(d)
  BY <1>1 DEF WandInv, Progress
<1>3. UNCHANGED n
  BY <1>1 DEF n
<1>4. \A d \in Docs : ~ Passed(d)'
  BY <1>1, <1>2, <1>3 DEF Passed
<1>5. Settled = {} /\ Settled' = {}
  BY <1>1, <1>2, <1>4 DEF Settled
<1>6. ASSUME call.prime PROVE Promise!PrimeSound(threshold') /\ threshold' \in Nat
  <2>1. /\ threshold' \in Nat
        /\ \/ threshold' = 0
           \/ Cardinality({d \in Docs : FullScore(cursors, d) > threshold'}) >= K
    BY <1>1, <1>6, PrimedIsNat DEF WandInv, PlacesInv
  <2>2. {d \in Docs : FullScore(cursors, d) > threshold'} = {d \in Docs : Relevance[d] > threshold'}
    BY DEF Relevance
  <2> QED  BY <2>1, <2>2, SameCardinality DEF Promise!PrimeSound
<1>7. [Promise!Next]_(Promise!vars)
  <2>1. CASE call.prime
    BY <1>1, <1>2, <1>5, <1>6, <2>1 DEF Promise!Next, Promise!Prime
  <2>2. CASE ~ call.prime
    BY <1>1, <1>2, <1>5, <2>2 DEF Promise!vars
  <2> QED  BY <2>1, <2>2
<1>8. SkippedCannotEnter'
  BY <1>4 DEF SkippedCannotEnter
<1>9. call.prime => Promise!PrimeSound(floor)'
  BY <1>1, <1>6 DEF Promise!PrimeSound
<1> QED  BY <1>1, <1>7, <1>8, <1>9 DEF Progress

\* A turn that scores a document, if need be in part when it cannot enter.
LEMMA ScoredStep ==
  ASSUME WandInv, PlacesInv', NEW d, NEW score \in Nat, ScoresAt(d, score), n # 0,
         UNCHANGED cursors, UNCHANGED Relevance,
         score <= FullScore(cursors, d),
         ~ Passed(d) /\ FullScore(cursors, d) > threshold => score = FullScore(cursors, d)
  PROVE  [Promise!Next]_(Promise!vars) /\ Progress' /\ threshold' >= threshold
<1>1. /\ pc = "loop" /\ pc' = "loop" /\ UNCHANGED <<call, floor>> /\ UNCHANGED n /\ PlacesInv
      /\ Insert(score, d)
  BY DEF ScoresAt, n, WandInv
<1>2. /\ d \in Docs
      /\ \E c \in 1..n : pos[c] = d /\ d \in Posted(cursors[c])
      /\ \A c \in 1..n : pos'[c] > d /\ pos'[c] >= pos[c]
  BY <1>1, ScoredPlaces
<1>3. \A e \in Docs : Passed(e)' <=> Passed(e) \/ e = d
  BY <1>1, <1>2, ScoredPasses
<1>4. Settled' = Settled \cup {d} /\ Settled \subseteq Docs /\ (d \in Settled <=> Passed(d))
  BY <1>1, <1>2, <1>3 DEF Settled
<1>5. Relevance[d] = FullScore(cursors, d) /\ Relevance[d] \in Nat /\ threshold \in Nat
  BY <1>1, <1>2, Known
<1>6. ASSUME FullScore(cursors, d) <= threshold
      PROVE  UNCHANGED <<heap, threshold>> /\ Promise!Insert(Relevance[d], d)
  <2>1. ~ (score > threshold) /\ ~ (Relevance[d] > threshold)
    BY <1>5, <1>6
  <2>2. UNCHANGED <<heap, threshold>>
    BY <1>1, <2>1 DEF Insert, WouldEnter, Reject, Push, PushPop, queueVars
  <2>3. Promise!Insert(Relevance[d], d)
    BY <2>1, <2>2 DEF Promise!Insert, Promise!Reject, Promise!WouldEnter, Promise!queueVars
  <2> QED  BY <2>2, <2>3
<1>7. ASSUME ~ Passed(d) PROVE [Promise!Next]_(Promise!vars) /\ threshold' >= threshold
  <2>1. Promise!Insert(Relevance[d], d)
    <3>1. CASE FullScore(cursors, d) > threshold
      <4>1. score = Relevance[d]
        BY <1>5, <1>7, <3>1
      <4> QED  BY <1>1, <4>1, SameInsert
    <3>2. CASE ~ (FullScore(cursors, d) > threshold)
      BY <1>5, <1>6, <3>2
    <3> QED  BY <3>1, <3>2
  <2>2. Promise!Offer(d)
    BY <1>1, <1>2, <1>4, <1>7, <2>1 DEF Promise!Offer
  <2>3. threshold' >= threshold
    BY <1>2, <2>2, Promise!OfferInv, DocsFinite, KAssumption DEF WandInv
  <2>4. Promise!Next
    BY <1>2, <2>2 DEF Promise!Next
  <2> QED  BY <2>3, <2>4
<1>8. ASSUME Passed(d) PROVE [Promise!Next]_(Promise!vars) /\ threshold' >= threshold
  <2>1. FullScore(cursors, d) <= threshold
    <3>1. PICK c \in 1..n : pos[c] = d /\ d \in Posted(cursors[c])
      BY <1>2
    <3>2. ~ (pos[c] > d)
      BY <1>2, <3>1, Known DEF WandInv
    <3>3. ~ (FullScore(cursors, d) > threshold)
      BY <1>1, <1>2, <1>8, <3>1, <3>2 DEF WandInv, Progress, SkippedCannotEnter
    <3> QED  BY <1>5, <3>3
  <2>2. UNCHANGED <<heap, threshold>>
    BY <1>6, <2>1
  <2>3. Settled' = Settled
    BY <1>4, <1>8
  <2> QED  BY <1>1, <1>5, <2>2, <2>3 DEF Promise!vars
<1>9. threshold' >= threshold
  BY <1>7, <1>8
<1>10. SkippedCannotEnter'
  <2> SUFFICES ASSUME NEW e \in Docs, Passed(e)', FullScore(cursors, e) > threshold',
                      NEW c \in 1..n, e \in Posted(cursors[c])
               PROVE  pos'[c] > e
    BY <1>1 DEF SkippedCannotEnter
  <2>1. CASE e = d
    BY <1>2, <2>1
  <2>2. CASE e # d
    <3>1. Passed(e)
      BY <1>3, <2>2
    <3>2. FullScore(cursors, e) > threshold
      <4>1. threshold' \in Nat /\ threshold \in Nat /\ FullScore(cursors, e) \in Nat
        BY <1>1, Known DEF PlacesInv, TypeOK
      <4> QED  BY <1>9, <4>1
    <3>3. pos[c] > e
      BY <1>1, <3>1, <3>2 DEF WandInv, Progress, SkippedCannotEnter
    <3>4. pos'[c] \in Nat /\ pos[c] \in Nat /\ e \in Nat
      <4>1. pos'[c] \in 0..NumDocs
        BY <1>1 DEF PlacesInv, TypeOK
      <4> QED  BY <1>1, <4>1, Known, NumDocsAssumption
    <3> QED  BY <1>2, <3>3, <3>4
  <2> QED  BY <2>1, <2>2
<1>11. Progress'
  <2>1. cursors # <<>> /\ (call.prime => Promise!PrimeSound(floor))
    BY <1>1 DEF WandInv, Progress
  <2>2. Promise!PrimeSound(floor)' <=> Promise!PrimeSound(floor)
    BY <1>1 DEF Promise!PrimeSound
  <2> QED  BY <1>1, <1>10, <2>1, <2>2 DEF Progress
<1> QED  BY <1>7, <1>8, <1>9, <1>11

\* A turn that moves a cursor over documents that cannot enter.
LEMMA JumpStep ==
  ASSUME WandInv, PlacesInv', NEW moved \in 1..n, NEW t \in Nat, Jumps(moved, t),
         UNCHANGED cursors, UNCHANGED Relevance,
         \A e \in Posted(cursors[moved]) :
           e \in Docs /\ e < t /\ ~ Passed(e) => FullScore(cursors, e) <= threshold
  PROVE  Promise!Skip /\ Progress'
<1>1. /\ pc = "loop" /\ pc' = "loop" /\ UNCHANGED <<heap, threshold, call, floor>> /\ UNCHANGED n
      /\ PlacesInv /\ Moves(moved, t)
  BY DEF Jumps, n, WandInv
<1>2. \A e \in Docs : /\ Passed(e) => Passed(e)'
                      /\ Passed(e)' /\ ~ Passed(e) => FullScore(cursors, e) <= threshold
  BY <1>1, JumpPasses
<1>3. /\ Settled' \subseteq Docs /\ Settled \subseteq Settled'
      /\ \A e \in Settled' \ Settled : FullScore(cursors, e) <= threshold
  BY <1>1, <1>2 DEF Settled
<1>4. \A e \in Settled' \ Settled : ~ Promise!WouldEnter(Relevance[e])
  <2> SUFFICES ASSUME NEW e \in Settled' \ Settled PROVE ~ (Relevance[e] > threshold)
    BY DEF Promise!WouldEnter
  <2>1. Relevance[e] = FullScore(cursors, e) /\ Relevance[e] \in Nat /\ threshold \in Nat
    BY <1>1, <1>3, Known
  <2> QED  BY <1>3, <2>1
<1>5. Promise!Skip
  BY <1>1, <1>3, <1>4 DEF Promise!Skip
<1>6. SkippedCannotEnter'
  <2> SUFFICES ASSUME NEW e \in Docs, Passed(e)', FullScore(cursors, e) > threshold,
                      NEW c \in 1..n, e \in Posted(cursors[c])
               PROVE  pos'[c] > e
    BY <1>1 DEF SkippedCannotEnter
  <2>1. FullScore(cursors, e) \in Nat /\ threshold \in Nat /\ e \in Nat /\ pos[c] \in Nat
    BY <1>1, Known
  <2>2. Passed(e)
    BY <1>2, <2>1
  <2>3. pos[c] > e
    BY <1>1, <2>2 DEF WandInv, Progress, SkippedCannotEnter
  <2>4. pos'[c] >= pos[c] /\ pos'[c] \in Nat
    <3>1. pos'[c] >= pos[c] /\ pos' \in [1..n -> 0..NumDocs]
      BY <1>1, MovedPlaces
    <3>2. pos'[c] \in 0..NumDocs
      BY <3>1
    <3> QED  BY <3>1, <3>2, NumDocsAssumption
  <2> QED  BY <2>1, <2>3, <2>4
<1>7. Progress'
  <2>1. cursors # <<>> /\ (call.prime => Promise!PrimeSound(floor))
    BY <1>1 DEF WandInv, Progress
  <2>2. Promise!PrimeSound(floor)' <=> Promise!PrimeSound(floor)
    BY <1>1 DEF Promise!PrimeSound
  <2> QED  BY <1>1, <1>6, <2>1, <2>2 DEF Progress
<1> QED  BY <1>5, <1>7

LEMMA EvaluateStep ==
  ASSUME WandInv, PlacesInv', NEW i \in 1..n, Evaluate(i), UNCHANGED cursors, UNCHANGED Relevance
  PROVE  [Promise!Next]_(Promise!vars) /\ Progress'
<1>1. PlacesInv /\ n # 0
  BY DEF WandInv
<1>2. PICK d \in Docs :
        /\ \A c \in 1..n : pos[c] >= d
        /\ ScoresAt(d, SumOver(Contribution(cursors, d), {c \in 1..n : pos[c] = d}, n))
  BY <1>1, EvaluateScores
<1> DEFINE score == SumOver(Contribution(cursors, d), {c \in 1..n : pos[c] = d}, n)
<1>3. /\ score \in Nat /\ score <= FullScore(cursors, d)
      /\ ~ Passed(d) => score = FullScore(cursors, d)
  BY <1>1, <1>2, ScoreHere
<1> HIDE DEF score
<1>4. ScoresAt(d, score)
  BY <1>2 DEF score
<1> QED  BY <1>1, <1>3, <1>4, ScoredStep

LEMMA AdvanceStep ==
  ASSUME PairAwareOnSplit, WandInv, PlacesInv', NEW i \in 1..n, Advance(i),
         UNCHANGED cursors, UNCHANGED Relevance
  PROVE  Promise!Skip /\ Progress'
<1>1. PlacesInv /\ pc = "loop" /\ IsPivot(i)
  BY DEF WandInv, Advance, AdvanceTo
<1>2. PICK moved \in 1..n : \E t \in Docs : t = pos[order[i]] /\ Jumps(moved, t)
  BY <1>1, AdvanceJumps
<1>3. PICK t \in Docs : t = pos[order[i]] /\ Jumps(moved, t)
  BY <1>2
<1>4. \A e \in Docs : e < t /\ ~ Passed(e) => FullScore(cursors, e) <= threshold
  BY <1>1, <1>3, BeforePivotCannotEnter
<1>5. t \in Nat
  BY <1>1, Known
<1> QED  BY <1>3, <1>4, <1>5, JumpStep

LEMMA StopStep ==
  ASSUME PairAwareOnSplit, WandInv, Stop, UNCHANGED cursors, UNCHANGED Relevance
  PROVE  Promise!Skip /\ Progress'
<1>1. /\ pc = "loop" /\ pc' = "done" /\ UNCHANGED <<heap, threshold, call, floor>> /\ PlacesInv
  BY DEF Stop, WandInv
<1>2. /\ Settled \subseteq Docs /\ Settled' = Docs
      /\ \A e \in Docs : e \in Settled <=> Passed(e)
  BY <1>1 DEF Settled
<1>3. \A e \in Docs \ Settled : ~ Promise!WouldEnter(Relevance[e])
  <2> SUFFICES ASSUME NEW e \in Docs \ Settled PROVE ~ (Relevance[e] > threshold)
    BY DEF Promise!WouldEnter
  <2>1. Relevance[e] = FullScore(cursors, e) /\ Relevance[e] \in Nat /\ threshold \in Nat
    BY <1>1, Known
  <2>2. FullScore(cursors, e) <= threshold
    BY <1>1, <1>2, StopPasses
  <2> QED  BY <2>1, <2>2
<1>4. Promise!Skip
  BY <1>1, <1>2, <1>3 DEF Promise!Skip
<1>5. Promise!PrimeSound(floor)' <=> Promise!PrimeSound(floor)
  BY <1>1 DEF Promise!PrimeSound
<1>6. cursors # <<>> /\ (call.prime => Promise!PrimeSound(floor))
  BY <1>1 DEF WandInv, Progress
<1> QED  BY <1>1, <1>4, <1>5, <1>6 DEF Progress

LEMMA StepInv ==
  PairAwareOnSplit /\ WandInv /\ [Next]_vars => WandInv' /\ [Promise!Next]_(Promise!vars)
<1> SUFFICES ASSUME PairAwareOnSplit, WandInv, [Next]_vars
             PROVE  WandInv' /\ [Promise!Next]_(Promise!vars)
  OBVIOUS
<1>1. UNCHANGED cursors /\ UNCHANGED Relevance /\ UNCHANGED call
  <2>1. UNCHANGED call
    BY DEF Next, vars, ReturnEmpty, Start, Evaluate, Advance, AdvanceTo, Stop
  <2> QED  BY <2>1 DEF cursors, Relevance
<1>2. PlacesInv'
  BY PlacesNext DEF WandInv
<1>3. [Promise!Next]_(Promise!vars) /\ Progress'
  <2>1. CASE ReturnEmpty
    BY <1>1, <2>1, ReturnEmptyStep DEF Promise!Next
  <2>2. CASE Start
    BY <1>1, <2>2, StartStep
  <2>3. ASSUME NEW i \in 1..n, Evaluate(i)
        PROVE  [Promise!Next]_(Promise!vars) /\ Progress'
    BY <1>1, <1>2, <2>3, EvaluateStep
  <2>4. ASSUME NEW i \in 1..n, Advance(i)
        PROVE  [Promise!Next]_(Promise!vars) /\ Progress'
    BY <1>1, <1>2, <2>4, AdvanceStep DEF Promise!Next
  <2>5. CASE Stop
    BY <1>1, <2>5, StopStep DEF Promise!Next
  <2>6. CASE UNCHANGED vars
    <3>1. UNCHANGED <<heap, threshold, call, pos, order, pc, floor>> /\ UNCHANGED n
      <4>1. UNCHANGED <<heap, threshold, call, pos, order, pc, floor>>
        BY <2>6 DEF vars
      <4> QED  BY <4>1 DEF n, cursors
    <3>2. \A d \in Docs : Passed(d)' <=> Passed(d)
      BY <1>1, <3>1 DEF Passed
    <3>3. Settled' = Settled
      BY <3>1, <3>2 DEF Settled
    <3>4. Promise!PrimeSound(floor)' <=> Promise!PrimeSound(floor)
      BY <1>1, <3>1 DEF Promise!PrimeSound
    <3>5. SkippedCannotEnter' <=> SkippedCannotEnter
      BY <1>1, <3>1, <3>2 DEF SkippedCannotEnter
    <3>6. Progress'
      BY <1>1, <3>1, <3>2, <3>4, <3>5 DEF WandInv, Progress
    <3> QED  BY <1>1, <3>1, <3>3, <3>6 DEF Promise!vars
  <2> QED  BY <2>1, <2>2, <2>3, <2>4, <2>5, <2>6 DEF Next
<1>4. Promise!RetrievalInv'
  BY <1>3, Promise!NextInv, DocsFinite, KAssumption DEF WandInv
<1> QED  BY <1>2, <1>3, <1>4 DEF WandInv

-----------------------------------------------------------------------------
(* The theorems about WAND, for calls that are pair aware only on split     *)
(* indexes.                                                                *)

THEOREM InvariantHolds ==
  ASSUME PairAwareOnSplit
  PROVE  Spec => []WandInv
<1>1. Init => WandInv
  BY StartInv
<1>2. WandInv /\ [Next]_vars => WandInv'
  BY StepInv
<1> QED  BY <1>1, <1>2, PTL DEF Spec

\* The bound accumulated over the first cursors covers every document whose lists
\* are all among them, in whichever order the lists of a pair are met.
THEOREM BoundsCover ==
  ASSUME PairAwareOnSplit
  PROVE  Spec => []BoundCoversDocuments
<1>1. PlacesInv => BoundCoversDocuments
  BY InvImpliesBoundCovers
<1> QED  BY <1>1, PlacesHold, PTL

\* Every step of WAND offers a document with its full score, or passes over documents
\* that cannot enter: WAND implements the promise of a ranked query.
THEOREM WandIsRankedRetrieval ==
  ASSUME PairAwareOnSplit
  PROVE  Spec => IsRankedRetrieval
<1>1. Init => Retrieval!Init
  <2>1. Promise!Init <=> Retrieval!Init
    BY DEF Promise!Init, Retrieval!Init, Relevance, Settled
  <2> QED  BY <2>1, StartInv
<1>2. WandInv /\ [Next]_vars => [Retrieval!Next]_(Retrieval!vars)
  BY StepInv, SameNext
<1>3. Spec => []WandInv
  BY InvariantHolds
<1> QED  BY <1>1, <1>2, <1>3, PTL DEF Spec, IsRankedRetrieval, Retrieval!Spec

LEMMA InvImpliesExact == WandInv => ExactResult
<1> SUFFICES ASSUME WandInv, pc = "done"
             PROVE  /\ Retrieval!BestAbove(floor)
                    /\ call.prime \/ floor = 0 => Retrieval!BestAbove(0)
  BY DEF ExactResult
<1>1. Settled = Docs /\ Promise!RetrievalInv /\ PlacesInv
  BY DEF Settled, WandInv
<1>2. Promise!BestAbove(floor)
  BY <1>1, Promise!InvImpliesExact, DocsFinite, KAssumption DEF Promise!ExactAboveFloor
<1>3. ASSUME Promise!PrimeSound(floor) PROVE Promise!BestAbove(0)
  BY <1>1, <1>3, Promise!SoundFloorExact, DocsFinite, KAssumption
<1>4. ASSUME cursors = <<>> PROVE Promise!BestAbove(0)
  <2>1. heap = {}
    BY <1>4 DEF WandInv, Progress
  <2>2. \A d \in Docs : ~ (Relevance[d] > 0)
    <3>1. Len(cursors) = 0
      BY <1>4
    <3> QED  BY <3>1, SumToStep DEF FullScore, Relevance
  <2>3. Cardinality(heap) = 0
    BY <2>1, FS_EmptySet
  <2> QED  BY <2>1, <2>2, <2>3, SameCardinality, KAssumption DEF Promise!BestAbove
<1>5. floor = 0 => Promise!PrimeSound(floor)
  BY DEF Promise!PrimeSound
<1>6. call.prime /\ cursors # <<>> => Promise!PrimeSound(floor)
  BY DEF WandInv, Progress
<1> QED  BY <1>2, <1>3, <1>4, <1>5, <1>6, SameBestAbove

\* When the search stops the queue holds the exact result above the threshold the
\* loop started from, and the exact top K when that is zero or was primed.
THEOREM SearchIsExact ==
  ASSUME PairAwareOnSplit
  PROVE  Spec => []ExactResult
<1>1. Spec => []WandInv
  BY InvariantHolds
<1> QED  BY <1>1, InvImpliesExact, PTL

-----------------------------------------------------------------------------
(* Block-max WAND.                                                         *)

\* The inductive invariant: that of WAND, and blocks that do not run ahead.
BlockWandInv ==
  /\ WandInv
  /\ BlockTypeOK
  /\ pc = "start" => \A c \in 1..n : block[c] = 1
  /\ NoBlockMissed

-----------------------------------------------------------------------------
(* The blocks at the pivot.                                                *)

LEMMA BlocksAre ==
  ASSUME BlocksOfLists, call \in Workload, NEW c \in 1..n
  PROVE  /\ BlocksHold(cursors[c], call.blocks[c])
         /\ Len(call.blocks[c]) \in Nat \ {0}
         /\ \A b \in 1..Len(call.blocks[c]) : BlockLast(c, b) \in Nat /\ BlockMax(c, b) \in Nat
<1>1. BlocksHold(cursors[c], call.blocks[c])
  BY DEF BlocksOfLists, cursors, n
<1> QED  BY <1>1 DEF BlocksHold, BlockLast, BlockMax

\* Where the lists up to the pivot and those after it stand.
LEMMA PivotIs ==
  ASSUME PlacesInv, pc = "loop", NEW p \in 1..n, IsBlockPivot(p)
  PROVE  /\ n \in Nat /\ order[p] \in 1..n /\ p \in Nat
         /\ pos[order[p]] \in Docs
         /\ \E i \in 1..n : IsPivot(i) /\ pos[order[i]] = pos[order[p]]
         /\ PivotLists(p) \subseteq 1..n
         /\ \A c \in 1..n : /\ c \in PivotLists(p) <=> pos[c] <= pos[order[p]]
                            /\ c \notin PivotLists(p) => p < n /\ pos[order[p + 1]] <= pos[c]
         /\ p < n => p + 1 \in 1..n /\ order[p + 1] \in 1..n /\ pos[order[p + 1]] > pos[order[p]]
<1>1. /\ n \in Nat /\ pos \in [1..n -> 0..NumDocs] /\ order \in Sorted(pos) /\ IsOrder(n, order)
      /\ \A c \in 1..n : pos[c] \in Nat /\ pos[c] <= NumDocs
  <2>1. n \in Nat /\ pos \in [1..n -> 0..NumDocs] /\ order \in Sorted(pos) /\ IsOrder(n, order)
    BY SortedIs, CallIsQuery DEF PlacesInv, TypeOK
  <2> QED  BY <2>1, NumDocsAssumption
<1>2. \A i \in 1..n : order[i] \in 1..n
  BY <1>1 DEF IsOrder
<1>3. \A c \in 1..n : \E k \in 1..n : order[k] = c
  BY ZenonT(60), SMTT(30), <1>1, OrderIsOnto
<1>4. \A k, l \in 1..n : k < l => pos[order[k]] <= pos[order[l]]
  BY <1>1 DEF Sorted
<1>5. PICK i \in 1..p : /\ IsPivot(i)
                        /\ \A j \in i..p : pos[order[j]] = pos[order[i]]
                        /\ p < n => pos[order[p + 1]] # pos[order[i]]
  BY DEF IsBlockPivot
<1>6. p \in Nat /\ i \in 1..n /\ p \in i..p
  BY <1>1
<1>7. pos[order[p]] = pos[order[i]] /\ pos[order[i]] < NumDocs
  BY <1>5, <1>6 DEF IsPivot
<1>8. pos[order[p]] \in Docs
  BY <1>1, <1>2, <1>6, <1>7, NumDocsAssumption DEF Docs
<1>9. p < n => p + 1 \in 1..n /\ order[p + 1] \in 1..n /\ pos[order[p + 1]] > pos[order[p]]
  <2> SUFFICES ASSUME p < n
               PROVE  p + 1 \in 1..n /\ order[p + 1] \in 1..n /\ pos[order[p + 1]] > pos[order[p]]
    OBVIOUS
  <2>1. p + 1 \in 1..n /\ p < p + 1
    BY <1>1, <1>6
  <2>2. pos[order[p]] <= pos[order[p + 1]]
    BY <1>4, <2>1
  <2> QED  BY <1>1, <1>2, <1>5, <1>7, <2>1, <2>2
<1>10. PivotLists(p) \subseteq 1..n
  BY <1>1, <1>2 DEF PivotLists
<1>11. ASSUME NEW c \in 1..n
      PROVE  /\ c \in PivotLists(p) <=> pos[c] <= pos[order[p]]
             /\ c \notin PivotLists(p) => p < n /\ pos[order[p + 1]] <= pos[c]
  <2>1. PICK k \in 1..n : order[k] = c
    BY <1>3
  <2>2. CASE k <= p
    <3>1. k \in 1..p /\ (k = p \/ k < p)
      BY <1>1, <1>6, <2>2
    <3>2. pos[order[k]] <= pos[order[p]]
      BY <1>1, <1>2, <1>6, <1>4, <3>1
    <3> QED  BY <2>1, <3>1, <3>2 DEF PivotLists
  <2>3. CASE ~ (k <= p)
    <3>1. p < n /\ (p + 1 = k \/ p + 1 < k)
      BY <1>1, <1>6, <2>3
    <3>2. pos[order[p + 1]] <= pos[order[k]]
      BY <1>1, <1>2, <1>9, <1>4, <3>1
    <3>3. ~ (pos[c] <= pos[order[p]])
      BY <1>1, <1>2, <1>9, <2>1, <3>1, <3>2
    <3>4. c \notin PivotLists(p)
      <4>1. \A l \in 1..p : l \in 1..n /\ l # k
        BY <1>1, <1>6, <2>3
      <4>2. \A l \in 1..p : order[l] # order[k]
        BY <1>1, <4>1 DEF IsOrder
      <4> QED  BY <2>1, <4>2 DEF PivotLists
    <3> QED  BY <2>1, <3>1, <3>2, <3>3, <3>4
  <2> QED  BY <2>2, <2>3
<1>12. \E l \in 1..n : IsPivot(l) /\ pos[order[l]] = pos[order[p]]
  BY <1>5, <1>6, <1>7
<1> QED  BY <1>1, <1>2, <1>6, <1>8, <1>9, <1>10, <1>11, <1>12

LEMMA BehindPivotCannotEnter ==
  ASSUME PairAwareOnSplit, BlocksOfLists, PlacesInv, pc = "loop", NEW p \in 1..n, IsBlockPivot(p),
         NEW e \in Docs, ~ Passed(e), e < pos[order[p]]
  PROVE  FullScore(cursors, e) <= threshold
<1>1. PICK i \in 1..n : IsPivot(i) /\ pos[order[i]] = pos[order[p]]
  BY PivotIs
<1> QED  BY <1>1, BeforePivotCannotEnter

\* A block enumerator moves to the first block ahead that reaches document d, or to the
\* last block.
LEMMA BlockGeqIs ==
  ASSUME BlocksOfLists, BlockTypeOK, call \in Workload, NEW c \in 1..n, NEW d \in Nat
  PROVE  /\ BlockGeq(c, d) \in 1..Len(call.blocks[c])
         /\ BlockGeq(c, d) = Len(call.blocks[c]) \/ BlockLast(c, BlockGeq(c, d)) >= d
         /\ \A b \in 1..(BlockGeq(c, d) - 1) : b \in 1..(block[c] - 1) \/ BlockLast(c, b) < d
<1> DEFINE len == Len(call.blocks[c])
           S == {b \in block[c]..len : b = len \/ BlockLast(c, b) >= d}
<1>1. /\ len \in Nat \ {0} /\ block[c] \in 1..len
      /\ \A b \in 1..len : BlockLast(c, b) \in Nat
  BY BlocksAre DEF BlockTypeOK
<1>2. BlockGeq(c, d) = Earliest(S)
  BY DEF BlockGeq
<1> HIDE DEF len
<1>3. S \subseteq Nat /\ len \in S
  BY <1>1
<1>4. BlockGeq(c, d) \in S /\ \A b \in S : BlockGeq(c, d) <= b
  BY <1>2, <1>3, EarliestIsLeast
<1>5. /\ BlockGeq(c, d) \in block[c]..len
      /\ BlockGeq(c, d) = len \/ BlockLast(c, BlockGeq(c, d)) >= d
  BY <1>4
<1>6. ASSUME NEW b \in 1..(BlockGeq(c, d) - 1), b \notin 1..(block[c] - 1)
      PROVE  BlockLast(c, b) < d
  <2>1. b \in block[c]..len /\ b \in 1..len /\ ~ (BlockGeq(c, d) <= b)
    BY <1>1, <1>5, <1>6
  <2>2. b \notin S
    BY <1>4, <2>1
  <2>3. ~ (BlockLast(c, b) >= d)
    BY <2>1, <2>2
  <2> QED  BY <1>1, <2>1, <2>3
<1>7. BlockGeq(c, d) \in 1..len
  BY <1>1, <1>5
<1> QED  BY <1>5, <1>6, <1>7 DEF len

\* The blocks b leave no posting of document e behind them.
NotBehind(e, b) ==
  \A c \in 1..n : e \in Posted(cursors[c]) => \A a \in 1..(b[c] - 1) : BlockLast(c, a) < e

\* When the blocks of the lists up to the pivot move, they still do not run ahead of a
\* document that can enter: such a document is not before the pivot.
LEMMA MovedBlocks ==
  ASSUME PairAwareOnSplit, BlocksOfLists, BlockWandInv, pc = "loop",
         NEW p \in 1..n, IsBlockPivot(p), MoveBlocks(p)
  PROVE  /\ block' \in [1..n -> Nat]
         /\ \A c \in 1..n : block'[c] \in 1..Len(call.blocks[c])
         /\ \A c \in PivotLists(p) : \/ block'[c] = Len(call.blocks[c])
                                     \/ BlockLast(c, block'[c]) >= pos[order[p]]
         /\ \A e \in Docs : WouldEnter(FullScore(cursors, e)) /\ ~ Passed(e) => NotBehind(e, block')
<1> DEFINE d == pos[order[p]]
<1>1. PlacesInv /\ BlockTypeOK /\ call \in Workload /\ NoBlockMissed
  BY DEF BlockWandInv, WandInv, PlacesInv
<1>2. /\ d \in Docs /\ PivotLists(p) \subseteq 1..n
  BY <1>1, PivotIs
<1>3. d \in Nat
  BY <1>1, <1>2, Known
<1>4. block' = [c \in 1..n |-> IF c \in PivotLists(p) THEN BlockGeq(c, d) ELSE block[c]]
  BY DEF MoveBlocks
<1> HIDE DEF d
<1>5. ASSUME NEW c \in 1..n
      PROVE  /\ block'[c] \in 1..Len(call.blocks[c])
             /\ c \in PivotLists(p) => \/ block'[c] = Len(call.blocks[c])
                                       \/ BlockLast(c, block'[c]) >= d
             /\ \A b \in 1..(block'[c] - 1) : b \in 1..(block[c] - 1) \/ BlockLast(c, b) < d
  <2>1. CASE c \in PivotLists(p)
    BY <1>1, <1>3, <1>4, <2>1, BlockGeqIs
  <2>2. CASE c \notin PivotLists(p)
    BY <1>1, <1>4, <2>2 DEF BlockTypeOK
  <2> QED  BY <2>1, <2>2
<1>6. \A c \in 1..n : block'[c] \in Nat /\ Len(call.blocks[c]) \in Nat
  BY <1>1, <1>5, BlocksAre
<1>7. block' \in [1..n -> Nat]
  BY <1>4, <1>6
<1>8. ASSUME NEW e \in Docs, WouldEnter(FullScore(cursors, e)), ~ Passed(e),
             NEW c \in 1..n, e \in Posted(cursors[c]), NEW b \in 1..(block'[c] - 1)
      PROVE  BlockLast(c, b) < e
  <2>1. CASE b \in 1..(block[c] - 1)
    BY <1>1, <1>8, <2>1 DEF NoBlockMissed
  <2>2. CASE BlockLast(c, b) < d
    <3>1. ~ (e < d)
      <4>1. ~ (FullScore(cursors, e) <= threshold)
        BY <1>1, <1>8, Known DEF WouldEnter
      <4> QED  BY <1>1, <1>8, <4>1, BehindPivotCannotEnter DEF d
    <3>2. b \in 1..Len(call.blocks[c])
      BY <1>5, <1>6
    <3>3. BlockLast(c, b) \in Nat /\ e \in Nat
      BY <1>1, <3>2, BlocksAre, Known
    <3> QED  BY <1>3, <2>2, <3>1, <3>3
  <2> QED  BY <1>5, <2>1, <2>2
<1> QED  BY <1>2, <1>5, <1>7, <1>8 DEF d, NotBehind
-----------------------------------------------------------------------------
(* Scores and their bounds at the pivot.                                   *)

\* The first k lists score no more than the document does in all.
LEMMA PartScoreIs ==
  ASSUME PlacesInv, NEW k \in 0..n, NEW d \in Docs
  PROVE  /\ PartScore(k, d) \in Nat /\ FullScore(cursors, d) \in Nat
         /\ PartScore(k, d) <= FullScore(cursors, d)
         /\ (\A c \in 1..n : d \in Posted(cursors[c]) => c \in PivotLists(k))
              => PartScore(k, d) = FullScore(cursors, d)
<1> DEFINE f == Contribution(cursors, d)
           A == PivotLists(k)
<1>1. /\ n \in Nat /\ n = Len(cursors) /\ Len(cursors) \in Nat
      /\ \A i \in 1..Len(cursors) : IsCursor(cursors[i])
  BY CallIsQuery DEF PlacesInv
<1>2. NatsTo(f, n)
  BY <1>1, ContributionNat
<1>3. FullScore(cursors, d) \in Nat /\ SumOver(f, 1..n, n) = FullScore(cursors, d)
  BY <1>1, FullScoreOver
<1>4. (\A c \in 1..n : d \in Posted(cursors[c]) => c \in A) => SumOver(f, A, n) = FullScore(cursors, d)
  BY <1>1, FullScoreOver
<1>5. PartScore(k, d) = SumOver(f, A, n)
  BY DEF PartScore
<1> HIDE DEF f, A
<1>6. SumOver(f, A, n) \in Nat
  BY <1>1, <1>2, SumOverNat
<1>7. SumOver(f, A, n) <= SumOver(f, 1..n, n)
  <2>1. \A i \in 1..n : f[i] \in Nat /\ f[i] <= f[i]
    BY <1>2 DEF NatsTo
  <2>2. \A i \in 1..n : i \in A => IF i \in 1..n THEN f[i] <= f[i] ELSE f[i] = 0
    BY <2>1
  <2> QED  BY <1>1, <1>2, <2>2, SumOverMonotone
<1> QED  BY <1>3, <1>4, <1>5, <1>6, <1>7 DEF A

\* The bounds of blocks that hold a document, and those in which the blocks of the
\* first k lists gave way to their scores.
LEMMA BoundInParts ==
  ASSUME PlacesInv, NEW p \in 1..n, NEW k \in 0..p, NEW e \in Docs, NEW b,
         \A c \in 1..n : BlockMax(c, b[c]) \in Nat,
         \A c \in 1..n : e \in Posted(cursors[c])
                           => c \in PivotLists(p) /\ cursors[c].post[e] <= BlockMax(c, b[c])
  PROVE  /\ BlockBound(p, b) \in Nat /\ FullScore(cursors, e) <= BlockBound(p, b)
         /\ RefinedBound(k, p, e, b) \in Nat /\ FullScore(cursors, e) <= RefinedBound(k, p, e, b)
<1> DEFINE f == Contribution(cursors, e)
           g == [c \in 1..n |-> BlockMax(c, b[c])]
           A == PivotLists(k)
           P == PivotLists(p)
           R == P \ A
<1>1. /\ n \in Nat /\ n = Len(cursors) /\ Len(cursors) \in Nat
      /\ \A i \in 1..Len(cursors) : IsCursor(cursors[i])
      /\ order \in [1..n -> 1..n]
  BY CallIsQuery DEF PlacesInv, TypeOK
<1>2. NatsTo(f, n) /\ \A i \in 1..n : e \notin Posted(cursors[i]) => f[i] = 0
  BY <1>1, ContributionNat
<1>3. NatsTo(g, n)
  BY DEF NatsTo
<1>4. \A c \in 1..n : f[c] <= g[c]
  <2> SUFFICES ASSUME NEW c \in 1..n PROVE f[c] <= g[c]
    OBVIOUS
  <2>1. CASE e \in Posted(cursors[c])
    BY <1>1, <2>1 DEF Contribution
  <2>2. CASE e \notin Posted(cursors[c])
    <3>1. f[c] = 0 /\ g[c] \in Nat
      BY <1>2, <2>2
    <3> QED  BY <3>1
  <2> QED  BY <2>1, <2>2
<1>5. A \subseteq P /\ P \subseteq 1..n
  <2>1. \A i \in 1..k : i \in 1..p
    OBVIOUS
  <2>2. \A i \in 1..p : i \in 1..n
    BY <1>1
  <2> QED  BY <1>1, <2>1, <2>2 DEF PivotLists
<1>6. SumOver(f, P, n) = FullScore(cursors, e)
  BY <1>1, FullScoreOver
<1>7. /\ BlockBound(p, b) = SumOver(g, P, n) /\ BlockBound(k, b) = SumOver(g, A, n)
      /\ PartScore(k, e) = SumOver(f, A, n)
  BY DEF BlockBound, PartScore
<1> HIDE DEF f, g, A, P
<1>8. P = A \cup R /\ A \cap R = {} /\ R \subseteq 1..n
  BY <1>5
<1> HIDE DEF R
<1>9. /\ SumOver(f, A \cup R, n) = SumOver(f, A, n) + SumOver(f, R, n)
      /\ SumOver(g, A \cup R, n) = SumOver(g, A, n) + SumOver(g, R, n)
  <2>1. SumOver(f, A \cup R, n) = SumOver(f, A, n) + SumOver(f, R, n)
    BY ZenonT(60), SMTT(30), <1>1, <1>2, <1>8, SumOverUnion
  <2>2. SumOver(g, A \cup R, n) = SumOver(g, A, n) + SumOver(g, R, n)
    BY ZenonT(60), SMTT(30), <1>1, <1>3, <1>8, SumOverUnion
  <2> QED  BY <2>1, <2>2
<1>10. /\ SumOver(f, A, n) \in Nat /\ SumOver(f, R, n) \in Nat
       /\ SumOver(g, A, n) \in Nat /\ SumOver(g, R, n) \in Nat
  BY <1>1, <1>2, <1>3, SumOverNat
<1>11. SumOver(f, A, n) <= SumOver(g, A, n) /\ SumOver(f, R, n) <= SumOver(g, R, n)
  <2>1. /\ \A i \in 1..n : i \in A => IF i \in A THEN f[i] <= g[i] ELSE f[i] = 0
        /\ \A i \in 1..n : i \in R => IF i \in R THEN f[i] <= g[i] ELSE f[i] = 0
    BY <1>4
  <2>2. SumOver(f, A, n) <= SumOver(g, A, n)
    BY <1>1, <1>2, <1>3, <2>1, SumOverMonotone
  <2>3. SumOver(f, R, n) <= SumOver(g, R, n)
    BY <1>1, <1>2, <1>3, <2>1, SumOverMonotone
  <2> QED  BY <2>2, <2>3
<1>12. /\ FullScore(cursors, e) = SumOver(f, A, n) + SumOver(f, R, n)
       /\ BlockBound(p, b) = SumOver(g, A, n) + SumOver(g, R, n)
       /\ RefinedBound(k, p, e, b) = BlockBound(p, b) - SumOver(g, A, n) + SumOver(f, A, n)
  BY <1>6, <1>7, <1>8, <1>9 DEF RefinedBound
<1> QED  BY <1>10, <1>11, <1>12

\* A document that can enter and is in the blocks at the pivot is within their bounds.
LEMMA WithinBlocks ==
  ASSUME PairAwareOnSplit, BlocksOfLists, BlockWandInv, pc = "loop",
         NEW p \in 1..n, IsBlockPivot(p), MoveBlocks(p), NEW k \in 0..p,
         NEW e \in Docs, WouldEnter(FullScore(cursors, e)), ~ Passed(e),
         \A c \in 1..n : e \in Posted(cursors[c])
           => /\ c \in PivotLists(p)
              /\ block'[c] = Len(call.blocks[c]) \/ e <= BlockLast(c, block'[c])
  PROVE  WouldEnter(BlockBound(p, block')) /\ WouldEnter(RefinedBound(k, p, e, block'))
<1>1. PlacesInv /\ call \in Workload
  BY DEF BlockWandInv, WandInv, PlacesInv
<1>2. /\ \A c \in 1..n : block'[c] \in 1..Len(call.blocks[c])
      /\ NotBehind(e, block')
  BY MovedBlocks
<1>3. \A c \in 1..n : BlockMax(c, block'[c]) \in Nat
  BY <1>1, <1>2, BlocksAre
<1>4. ASSUME NEW c \in 1..n, e \in Posted(cursors[c])
      PROVE  cursors[c].post[e] <= BlockMax(c, block'[c])
  <2>1. BlocksHold(cursors[c], call.blocks[c])
    BY <1>1, BlocksAre
  <2>2. /\ block'[c] \in 1..Len(call.blocks[c])
        /\ block'[c] = Len(call.blocks[c]) \/ e <= call.blocks[c][block'[c]].last
        /\ \A a \in 1..(block'[c] - 1) : call.blocks[c][a].last < e
    BY <1>2, <1>4 DEF NotBehind, BlockLast
  <2> QED  BY <1>4, <2>1, <2>2 DEF BlocksHold, BlockMax
<1>5. /\ BlockBound(p, block') \in Nat /\ FullScore(cursors, e) <= BlockBound(p, block')
      /\ RefinedBound(k, p, e, block') \in Nat
      /\ FullScore(cursors, e) <= RefinedBound(k, p, e, block')
  BY <1>1, <1>3, <1>4, BoundInParts
<1>6. FullScore(cursors, e) \in Nat /\ threshold \in Nat
  BY <1>1, Known
<1> QED  BY <1>5, <1>6 DEF WouldEnter
-----------------------------------------------------------------------------
(* The three kinds of turns: one scores a document, the others move a cursor. *)

LEMMA BlockEvaluateScores ==
  ASSUME PairAwareOnSplit, BlocksOfLists, BlockWandInv, NEW p \in 1..n, BlockEvaluate(p)
  PROVE  \E d \in Docs : \E score \in Nat :
           /\ ScoresAt(d, score)
           /\ score <= FullScore(cursors, d)
           /\ ~ Passed(d) /\ FullScore(cursors, d) > threshold => score = FullScore(cursors, d)
<1> DEFINE d == pos[order[p]]
           hopeless == {k \in 1..p : ~ WouldEnter(RefinedBound(k, p, d, block'))}
           scored == Earliest(hopeless \cup {p})
           score == PartScore(scored, d)
<1>1. /\ PlacesInv /\ pc = "loop" /\ IsBlockPivot(p) /\ MoveBlocks(p) /\ n # 0
      /\ pos[order[1]] = d /\ Insert(score, d)
      /\ pos' = [c \in 1..n |-> IF pos[c] = d THEN NextFrom(cursors[c], d) ELSE pos[c]]
      /\ order' \in Sorted(pos')
      /\ UNCHANGED <<call, pc, floor>>
  BY DEF BlockEvaluate, BlockWandInv, WandInv
<1>2. /\ d \in Docs /\ n \in Nat /\ p \in Nat
      /\ \A c \in 1..n : c \in PivotLists(p) <=> pos[c] <= d
  BY <1>1, PivotIs
<1>3. d \in Nat /\ NumDocs \in Nat /\ d < NumDocs /\ \A c \in 1..n : pos[c] \in Nat
  BY <1>1, <1>2, Known, NumDocsAssumption DEF Docs
<1>4. ScoresAt(d, score)
  BY <1>1, <1>3 DEF ScoresAt
<1> HIDE DEF d, hopeless, score
<1>5. scored \in 1..p /\ (hopeless = {} => scored = p)
  <2>1. hopeless \subseteq 1..p
    BY DEF hopeless
  <2>2. hopeless \cup {p} \subseteq Nat /\ p \in 1..p
    BY <1>2, <2>1
  <2>3. scored \in hopeless \cup {p}
    BY <2>2, EarliestIsLeast
  <2> QED  BY <2>1, <2>2, <2>3
<1> HIDE DEF scored
<1>6. scored \in 0..n /\ p \in 0..n
  BY <1>2, <1>5
<1>7. score \in Nat /\ score <= FullScore(cursors, d)
  BY <1>1, <1>2, <1>6, PartScoreIs DEF score
<1>8. ASSUME ~ Passed(d), FullScore(cursors, d) > threshold
      PROVE  score = FullScore(cursors, d)
  <2>1. \A c \in 1..n : d \in Posted(cursors[c]) => c \in PivotLists(p)
    BY <1>2, <1>3, <1>8 DEF Passed
  <2>2. \A c \in PivotLists(p) : block'[c] = Len(call.blocks[c]) \/ d <= BlockLast(c, block'[c])
    <3>1. \A c \in PivotLists(p) : /\ c \in 1..n
                                   /\ block'[c] \in 1..Len(call.blocks[c])
                                   /\ \/ block'[c] = Len(call.blocks[c])
                                      \/ BlockLast(c, block'[c]) >= d
      BY <1>1, MovedBlocks, PivotIs DEF d
    <3>2. \A c \in PivotLists(p) : BlockLast(c, block'[c]) \in Nat
      BY <1>1, <3>1, BlocksAre DEF PlacesInv
    <3> QED  BY <1>3, <3>1, <3>2
  <2>3. ASSUME NEW k \in 1..p PROVE WouldEnter(RefinedBound(k, p, d, block'))
    <3>1. k \in 0..p
      BY <1>2
    <3> QED  BY <1>1, <1>2, <1>8, <2>1, <2>2, <3>1, WithinBlocks DEF WouldEnter
  <2>4. scored = p
    BY <1>5, <2>3 DEF hopeless
  <2> QED  BY <1>1, <1>2, <1>6, <2>1, <2>4, PartScoreIs DEF score
<1> QED  BY <1>2, <1>4, <1>7, <1>8

\* A cursor that is moved up past its equals as well.
LEMMA BubbleDownPastEqualSorts ==
  ASSUME n \in Nat, pos \in [1..n -> 0..NumDocs], order \in Sorted(pos), NEW j \in 1..n,
         NEW p \in [1..n -> 0..NumDocs], \A c \in 1..n : c # order[j] => p[c] = pos[c],
         p[order[j]] >= pos[order[j]]
  PROVE  BubbleDownPastEqual(j, p) \in Sorted(p)
<1> DEFINE stops(m) == /\ \A i \in (j + 1)..m : p[order[i]] <= p[order[j]]
                       /\ m < n => p[order[m + 1]] > p[order[j]]
           m0 == CHOOSE m \in j..n : stops(m)
<1>1. \A i \in 1..n : order[i] \in 1..n
  BY SortedIs DEF IsOrder
<1>2. \E m \in j..n : stops(m)
  BY <1>1, StopAtPlaces
<1>3. m0 \in j..n /\ stops(m0)
  <2> HIDE DEF stops
  <2> QED  BY <1>2
<1>4. BubbleDownPastEqual(j, p) = MovedTo(j, m0)
  BY DEF BubbleDownPastEqual
<1> HIDE DEF m0
<1>5. m0 < n => p[order[m0 + 1]] >= p[order[j]]
  <2> SUFFICES ASSUME m0 < n PROVE p[order[m0 + 1]] >= p[order[j]]
    OBVIOUS
  <2>1. m0 + 1 \in 1..n /\ p[order[m0 + 1]] > p[order[j]]
    BY <1>3
  <2>2. p[order[m0 + 1]] \in 0..NumDocs /\ p[order[j]] \in 0..NumDocs
    BY <1>1, <2>1
  <2>3. p[order[m0 + 1]] \in Nat /\ p[order[j]] \in Nat
    BY <2>2, NumDocsAssumption
  <2>4. \A x, y \in Nat : x > y => x >= y
    OBVIOUS
  <2> QED  BY <2>1, <2>3, <2>4
<1> QED  BY <1>3, <1>4, <1>5, MovedToSorts

LEMMA BlockAdvanceJumps ==
  ASSUME PlacesInv, NEW p \in 1..n, BlockAdvance(p)
  PROVE  \E moved \in 1..n : \E t \in Docs : t = pos[order[p]] /\ Jumps(moved, t)
<1> DEFINE t == pos[order[p]]
           j == LastBehind(p, t)
           moved == order[j]
<1>1. n \in Nat /\ pos \in [1..n -> 0..NumDocs] /\ order \in Sorted(pos)
  BY CallIsQuery DEF PlacesInv, TypeOK, BlockAdvance
<1>2. /\ pc = "loop" /\ IsBlockPivot(p) /\ pos[order[1]] # t
      /\ pos' = [pos EXCEPT ![moved] = NextGeq(cursors[moved], @, t)]
      /\ order' = BubbleDownPastEqual(j, pos')
      /\ UNCHANGED <<heap, threshold, call, pc, floor>>
  BY DEF BlockAdvance
<1>3. t \in Docs /\ t \in Nat
  BY <1>2, PivotIs, Known
<1>4. j \in 1..n /\ moved \in 1..n /\ pos[moved] < t
  BY <1>2, LastBehindIs
<1> HIDE DEF t, j
<1>5. Moves(moved, t)
  BY <1>1, <1>2, <1>4 DEF NextGeq, Moves
<1>6. /\ pos' \in [1..n -> 0..NumDocs]
      /\ \A c \in 1..n : (c # moved => pos'[c] = pos[c]) /\ pos'[c] >= pos[c]
  BY <1>3, <1>4, <1>5, MovedPlaces
<1>7. order' \in Sorted(pos')
  BY <1>1, <1>2, <1>4, <1>6, BubbleDownPastEqualSorts
<1>8. Jumps(moved, t)
  BY <1>2, <1>5, <1>7 DEF Jumps
<1> QED  BY <1>3, <1>4, <1>8 DEF t

\* The list that jumps is one of those up to the pivot.
LEMMA JumperIs ==
  ASSUME PlacesInv, NEW p \in 1..n
  PROVE  Jumper(p) \in 1..p
<1> DEFINE bound(i) == cursors[order[i]].max
           largest == {i \in 1..p : \A j \in 1..p : bound(j) <= bound(i)}
           f == [i \in 1..p |-> bound(i)]
<1>1. n \in Nat /\ p \in Nat /\ p # 0 /\ p \in 1..p
  BY CallIsQuery DEF PlacesInv
<1>2. ASSUME NEW i \in 1..p PROVE bound(i) \in Nat /\ f[i] = bound(i)
  <2>1. i \in 1..n
    BY <1>1
  <2>2. order[i] \in 1..n
    BY <2>1 DEF PlacesInv, TypeOK
  <2> QED  BY <2>2, CallIsQuery DEF PlacesInv, IsCursor
<1> HIDE DEF f, bound
<1>3. \E i \in 1..p : \A j \in 1..p : f[j] <= f[i]
  BY <1>1, <1>2, LargestExists
<1>4. largest # {} /\ largest \subseteq Nat /\ largest \subseteq 1..p
  BY <1>1, <1>2, <1>3
<1>5. Earliest(largest) \in 1..p
  BY <1>4, EarliestIsLeast
<1>6. Jumper(p) = IF p \in largest THEN p ELSE Earliest(largest)
  BY DEF Jumper, bound
<1> QED  BY <1>1, <1>5, <1>6

\* It jumps beyond the pivot, but over no document behind the blocks of those lists or
\* on the list after the pivot.
LEMMA JumpTargetIs ==
  ASSUME PlacesInv, pc = "loop", NEW p \in 1..n, IsBlockPivot(p), NEW b,
         \A c \in 1..n : BlockLast(c, b[c]) \in Nat
  PROVE  /\ JumpTarget(p, b) \in Nat /\ JumpTarget(p, b) > pos[order[p]]
         /\ \A e \in Nat : e < JumpTarget(p, b) /\ e > pos[order[p]] =>
              /\ \A c \in PivotLists(p) : e <= BlockLast(c, b[c])
              /\ p < n => e < pos[order[p + 1]]
<1> DEFINE d == pos[order[p]]
           S == {BlockLast(c, b[c]) : c \in PivotLists(p)} \cup {NumDocs}
           ends == BlocksEnd(p, b)
           after == pos[order[p + 1]]
           limit == IF p < n THEN Earliest({ends, after}) ELSE ends
<1>1. /\ n \in Nat /\ PivotLists(p) \subseteq 1..n /\ d \in Docs
      /\ p < n => order[p + 1] \in 1..n
  BY PivotIs
<1>2. /\ d \in Nat /\ NumDocs \in Nat
      /\ p < n => after \in Nat
  BY <1>1, Known, NumDocsAssumption
<1>3. S \subseteq Nat /\ S # {}
  BY <1>1, <1>2
<1>4. Earliest(S) \in Nat /\ ends = Earliest(S) + 1
      /\ \A c \in PivotLists(p) : Earliest(S) <= BlockLast(c, b[c])
  <2>1. Earliest(S) \in S /\ \A x \in S : Earliest(S) <= x
    BY <1>3, EarliestIsLeast
  <2>2. ends = Earliest(S) + 1
    BY DEF BlocksEnd
  <2> HIDE DEF ends
  <2> QED  BY <1>3, <2>1, <2>2
<1> HIDE DEF S, ends
<1>5. ends \in Nat /\ \A e \in Nat : e < ends => \A c \in PivotLists(p) : e <= BlockLast(c, b[c])
  <2>1. \A c \in PivotLists(p) : BlockLast(c, b[c]) \in Nat
    BY <1>1
  <2> QED  BY <1>4, <2>1
<1>6. limit \in Nat /\ limit <= ends /\ (p < n => limit <= after)
  <2>1. CASE p < n
    <3>1. {ends, after} \subseteq Nat /\ {ends, after} # {}
      BY <1>2, <1>5, <2>1
    <3>2. Earliest({ends, after}) \in {ends, after} /\ \A x \in {ends, after} : Earliest({ends, after}) <= x
      BY <3>1, EarliestIsLeast
    <3> QED  BY <1>2, <1>5, <2>1, <3>2
  <2>2. CASE ~ (p < n)
    BY <1>5, <2>2
  <2> QED  BY <2>1, <2>2
<1>7. JumpTarget(p, b) = IF limit <= d THEN d + 1 ELSE limit
  BY DEF JumpTarget, ends
<1> HIDE DEF limit, d, after
<1>8. JumpTarget(p, b) \in Nat /\ JumpTarget(p, b) > d
  BY <1>2, <1>6, <1>7
<1>9. ASSUME NEW e \in Nat, e < JumpTarget(p, b), e > d
      PROVE  (\A c \in PivotLists(p) : e <= BlockLast(c, b[c])) /\ (p < n => e < after)
  <2>1. e < limit
    BY <1>2, <1>6, <1>7, <1>9
  <2>2. e < ends /\ (p < n => e < after)
    BY <1>2, <1>5, <1>6, <2>1
  <2> QED  BY <1>5, <2>2
<1> QED  BY <1>8, <1>9 DEF d, after

\* When the blocks at the pivot cannot enter, a list jumps over documents that cannot.
LEMMA BlockSkipJumps ==
  ASSUME PairAwareOnSplit, BlocksOfLists, BlockWandInv, NEW p \in 1..n, BlockSkip(p)
  PROVE  \E moved \in 1..n : \E t \in Nat :
           /\ Jumps(moved, t)
           /\ \A e \in Docs : e < t /\ ~ Passed(e) => FullScore(cursors, e) <= threshold
<1> DEFINE d == pos[order[p]]
           t == JumpTarget(p, block')
           j == Jumper(p)
           moved == order[j]
<1>1. /\ PlacesInv /\ call \in Workload /\ pc = "loop" /\ IsBlockPivot(p) /\ MoveBlocks(p)
      /\ ~ WouldEnter(BlockBound(p, block'))
      /\ pos' = [pos EXCEPT ![moved] = NextGeq(cursors[moved], @, t)]
      /\ order' = BubbleDown(j, pos')
      /\ UNCHANGED <<heap, threshold, call, pc, floor>>
  BY DEF BlockSkip, BlockWandInv, WandInv, PlacesInv
<1>2. /\ n \in Nat /\ d \in Docs /\ PivotLists(p) \subseteq 1..n
      /\ \A c \in 1..n : /\ c \in PivotLists(p) <=> pos[c] <= d
                         /\ c \notin PivotLists(p) => p < n /\ pos[order[p + 1]] <= pos[c]
  BY <1>1, PivotIs
<1>3. /\ \A c \in 1..n : block'[c] \in 1..Len(call.blocks[c])
      /\ \A c \in PivotLists(p) : \/ block'[c] = Len(call.blocks[c])
                                  \/ BlockLast(c, block'[c]) >= d
  BY <1>1, MovedBlocks
<1>4. \A c \in 1..n : BlockLast(c, block'[c]) \in Nat
  BY <1>1, <1>3, BlocksAre
<1>5. /\ t \in Nat /\ t > d
      /\ \A e \in Nat : e < t /\ e > d =>
           /\ \A c \in PivotLists(p) : e <= BlockLast(c, block'[c])
           /\ p < n => e < pos[order[p + 1]]
  BY <1>1, <1>4, JumpTargetIs
<1>6. j \in 1..n /\ moved \in PivotLists(p) /\ moved \in 1..n
  <2>1. j \in 1..p
    BY <1>1, JumperIs
  <2> QED  BY <1>2, <2>1 DEF PivotLists
<1>7. /\ d \in Nat
      /\ \A c \in 1..n : pos[c] \in Nat
      /\ \A e \in Docs : e \in Nat /\ FullScore(cursors, e) \in Nat
      /\ threshold \in Nat
      /\ p < n => pos[order[p + 1]] \in Nat
  <2>1. p < n => order[p + 1] \in 1..n
    BY <1>1, PivotIs
  <2>2. \A e \in Docs : FullScore(cursors, e) \in Nat
    BY <1>1, Known
  <2> QED  BY <1>1, <1>2, <2>1, <2>2, Known
<1> HIDE DEF d, t, j
<1>8. Moves(moved, t)
  <2>1. pos[moved] < t
    BY <1>2, <1>5, <1>6, <1>7
  <2>2. pos \in [1..n -> 0..NumDocs]
    BY <1>1 DEF PlacesInv, TypeOK
  <2> QED  BY <1>1, <1>6, <2>1, <2>2 DEF NextGeq, Moves
<1>9. /\ pos' \in [1..n -> 0..NumDocs]
      /\ \A c \in 1..n : (c # moved => pos'[c] = pos[c]) /\ pos'[c] >= pos[c]
  BY <1>1, <1>5, <1>6, <1>8, MovedPlaces
<1>10. order' \in Sorted(pos')
  <2>1. pos \in [1..n -> 0..NumDocs] /\ order \in Sorted(pos)
    BY <1>1 DEF PlacesInv, TypeOK
  <2> QED  BY <1>1, <1>2, <1>6, <1>9, <2>1, BubbleDownSorts
<1>11. Jumps(moved, t)
  BY <1>1, <1>8, <1>10 DEF Jumps
<1>12. ASSUME NEW e \in Docs, e < t, ~ Passed(e)
       PROVE  FullScore(cursors, e) <= threshold
  <2>1. CASE e < d
    BY <1>1, <1>12, <2>1, BehindPivotCannotEnter DEF d
  <2>2. CASE ~ (e < d)
    <3>1. ASSUME NEW c \in 1..n, e \in Posted(cursors[c])
          PROVE  /\ c \in PivotLists(p)
                 /\ block'[c] = Len(call.blocks[c]) \/ e <= BlockLast(c, block'[c])
      <4>1. ~ (pos[c] > e)
        BY <1>12, <3>1 DEF Passed
      <4>2. CASE e = d
        BY <1>2, <1>3, <1>4, <1>7, <4>1, <4>2
      <4>3. CASE e # d
        <5>1. e > d
          BY <1>7, <2>2, <4>3
        <5>2. c \in PivotLists(p)
          BY <1>2, <1>5, <1>7, <1>12, <4>1, <5>1
        <5> QED  BY <1>5, <1>7, <1>12, <5>1, <5>2
      <4> QED  BY <4>2, <4>3
    <3>2. 0 \in 0..p
      BY <1>2
    <3>3. ~ WouldEnter(FullScore(cursors, e))
      BY <1>1, <1>12, <3>1, <3>2, WithinBlocks
    <3> QED  BY <1>7, <3>3 DEF WouldEnter
  <2> QED  BY <2>1, <2>2
<1> QED  BY <1>5, <1>6, <1>11, <1>12

-----------------------------------------------------------------------------
(* The invariant: every step is one of a ranked retrieval.                  *)

LEMMA BlockStartInv == BlocksOfLists /\ BlockInit => BlockWandInv /\ Promise!Init
<1> SUFFICES ASSUME BlocksOfLists, BlockInit PROVE BlockWandInv /\ Promise!Init
  OBVIOUS
<1>1. WandInv /\ Promise!Init /\ pc = "start" /\ call \in Workload
  BY StartInv DEF BlockInit, Init
<1>2. block = [i \in 1..n |-> 1]
  BY DEF BlockInit
<1>3. \A c \in 1..n : Len(call.blocks[c]) \in Nat \ {0}
  BY <1>1, BlocksAre
<1>4. \A c \in 1..n : block[c] \in 1..Len(call.blocks[c])
  BY <1>2, <1>3
<1>5. BlockTypeOK
  BY <1>1, <1>2, <1>4 DEF BlockTypeOK, WandInv, PlacesInv
<1> QED  BY <1>1, <1>2, <1>5 DEF BlockWandInv, NoBlockMissed

\* The blocks that a turn moves stay behind the search: it passes more documents, and
\* fewer can enter.
LEMMA TurnKeepsBlocks ==
  ASSUME PairAwareOnSplit, BlocksOfLists, BlockWandInv, pc = "loop",
         NEW p \in 1..n, IsBlockPivot(p), MoveBlocks(p),
         PlacesInv', [Promise!Next]_(Promise!vars), Progress', threshold' >= threshold,
         UNCHANGED <<call, pc>>, \A e \in Docs : Passed(e) => Passed(e)'
  PROVE  BlockWandInv'
<1>1. UNCHANGED n /\ UNCHANGED cursors
  BY DEF n, cursors
<1>2. /\ block' \in [1..n -> Nat]
      /\ \A c \in 1..n : block'[c] \in 1..Len(call.blocks[c])
      /\ \A e \in Docs : WouldEnter(FullScore(cursors, e)) /\ ~ Passed(e) => NotBehind(e, block')
  BY MovedBlocks
<1>3. WandInv'
  <2>1. Promise!RetrievalInv'
    BY Promise!NextInv, DocsFinite, KAssumption DEF BlockWandInv, WandInv
  <2> QED  BY <2>1 DEF WandInv
<1>4. BlockTypeOK'
  BY <1>1, <1>2 DEF BlockTypeOK, PlacesInv
<1>5. NoBlockMissed'
  <2> SUFFICES ASSUME NEW e \in Docs, FullScore(cursors, e) > threshold', ~ Passed(e)',
                      NEW c \in 1..n, e \in Posted(cursors[c]), NEW b \in 1..(block'[c] - 1)
               PROVE  BlockLast(c, b) < e
    BY <1>1 DEF NoBlockMissed, WouldEnter, BlockLast
  <2>1. FullScore(cursors, e) \in Nat /\ threshold \in Nat /\ threshold' \in Nat
    BY Known DEF BlockWandInv, WandInv, PlacesInv, TypeOK
  <2>2. WouldEnter(FullScore(cursors, e)) /\ ~ Passed(e)
    BY <2>1 DEF WouldEnter
  <2> QED  BY <1>2, <2>2 DEF NotBehind
<1> QED  BY <1>3, <1>4, <1>5 DEF BlockWandInv

\* A turn that scores a document.
LEMMA ScoringTurn ==
  ASSUME PairAwareOnSplit, BlocksOfLists, BlockWandInv, NEW p \in 1..n, BlockEvaluate(p)
  PROVE  BlockWandInv' /\ [Promise!Next]_(Promise!vars)
<1>1. WandInv /\ PlacesInv /\ pc = "loop" /\ IsBlockPivot(p) /\ MoveBlocks(p) /\ n # 0
  BY DEF BlockEvaluate, BlockWandInv, WandInv
<1>2. PICK d \in Docs : \E score \in Nat :
        /\ ScoresAt(d, score)
        /\ score <= FullScore(cursors, d)
        /\ ~ Passed(d) /\ FullScore(cursors, d) > threshold => score = FullScore(cursors, d)
  BY BlockEvaluateScores
<1>3. PICK score \in Nat :
        /\ ScoresAt(d, score)
        /\ score <= FullScore(cursors, d)
        /\ ~ Passed(d) /\ FullScore(cursors, d) > threshold => score = FullScore(cursors, d)
  BY <1>2
<1>4. UNCHANGED <<call, pc>> /\ UNCHANGED cursors /\ UNCHANGED Relevance
  BY <1>3 DEF ScoresAt, cursors, Relevance
<1>5. PlacesInv'
  BY <1>1, <1>3, ScoredKeepsPlaces
<1>6. [Promise!Next]_(Promise!vars) /\ Progress' /\ threshold' >= threshold
  BY <1>1, <1>3, <1>4, <1>5, ScoredStep
<1>7. \A e \in Docs : Passed(e) => Passed(e)'
  BY <1>1, <1>3, <1>5, ScoredPasses
<1> QED  BY <1>1, <1>4, <1>5, <1>6, <1>7, TurnKeepsBlocks

\* A turn that moves a cursor over documents that cannot enter.
LEMMA JumpingTurn ==
  ASSUME PairAwareOnSplit, BlocksOfLists, BlockWandInv, pc = "loop",
         NEW p \in 1..n, IsBlockPivot(p), MoveBlocks(p),
         NEW moved \in 1..n, NEW t \in Nat, Jumps(moved, t),
         \A e \in Docs : e < t /\ ~ Passed(e) => FullScore(cursors, e) <= threshold
  PROVE  BlockWandInv' /\ [Promise!Next]_(Promise!vars)
<1>1. WandInv /\ PlacesInv
  BY DEF BlockWandInv, WandInv
<1>2. UNCHANGED <<call, pc, threshold>> /\ UNCHANGED cursors /\ UNCHANGED Relevance
  BY DEF Jumps, cursors, Relevance
<1>3. PlacesInv'
  BY <1>1, JumpKeepsPlaces
<1>4. Promise!Skip /\ Progress'
  BY <1>1, <1>2, <1>3, JumpStep
<1>5. [Promise!Next]_(Promise!vars)
  BY <1>4 DEF Promise!Next
<1>6. \A e \in Docs : Passed(e) => Passed(e)'
  BY <1>1, <1>3, JumpPasses
<1>7. threshold' >= threshold
  BY <1>1, <1>2, Known
<1> QED  BY <1>2, <1>3, <1>4, <1>5, <1>6, <1>7, TurnKeepsBlocks

\* The steps that move no block.
LEMMA OtherStep ==
  ASSUME PairAwareOnSplit, BlocksOfLists, BlockWandInv, UNCHANGED block,
         ReturnEmpty \/ Start \/ Stop \/ UNCHANGED vars
  PROVE  BlockWandInv' /\ [Promise!Next]_(Promise!vars)
<1>1. [Next]_vars
  BY DEF Next
<1>2. WandInv' /\ [Promise!Next]_(Promise!vars)
  BY <1>1, StepInv DEF BlockWandInv
<1>3. /\ UNCHANGED call
      /\ pc' = "start" => pc = "start"
      /\ pc' = "loop" => pc = "start" \/ UNCHANGED vars
  BY DEF ReturnEmpty, Start, Stop, vars
<1>4. UNCHANGED n /\ UNCHANGED cursors
  BY <1>3 DEF n, cursors
<1>5. BlockTypeOK'
  BY <1>2, <1>3, <1>4 DEF BlockWandInv, BlockTypeOK, WandInv, PlacesInv
<1>6. (pc = "start" => \A c \in 1..n : block[c] = 1)'
  BY <1>3, <1>4 DEF BlockWandInv
<1>7. NoBlockMissed'
  <2>1. CASE pc = "start"
    <3>1. \A c \in 1..n : block'[c] = 1
      BY <2>1 DEF BlockWandInv
    <3>2. \A c \in 1..n : \A b \in 1..(block'[c] - 1) : FALSE
      BY <3>1
    <3> QED  BY <1>4, <3>2 DEF NoBlockMissed
  <2>2. CASE UNCHANGED vars
    <3>1. UNCHANGED <<threshold, pos, pc>>
      BY <2>2 DEF vars
    <3> QED  BY <1>3, <1>4, <3>1 DEF BlockWandInv, NoBlockMissed, WouldEnter, Passed, BlockLast
  <2>3. CASE pc' # "loop"
    BY <2>3 DEF NoBlockMissed
  <2> QED  BY <1>3, <2>1, <2>2, <2>3
<1> QED  BY <1>2, <1>5, <1>6, <1>7 DEF BlockWandInv

LEMMA BlockStepInv ==
  PairAwareOnSplit /\ BlocksOfLists /\ BlockWandInv /\ [BlockNext]_blockVars
    => BlockWandInv' /\ [Promise!Next]_(Promise!vars)
<1> SUFFICES ASSUME PairAwareOnSplit, BlocksOfLists, BlockWandInv, [BlockNext]_blockVars
             PROVE  BlockWandInv' /\ [Promise!Next]_(Promise!vars)
  OBVIOUS
<1>1. CASE (ReturnEmpty \/ Start \/ Stop) /\ UNCHANGED block
  BY <1>1, OtherStep
<1>2. ASSUME NEW p \in 1..n, BlockEvaluate(p)
      PROVE  BlockWandInv' /\ [Promise!Next]_(Promise!vars)
  BY <1>2, ScoringTurn
<1>3. ASSUME NEW p \in 1..n, BlockAdvance(p)
      PROVE  BlockWandInv' /\ [Promise!Next]_(Promise!vars)
  <2>1. PlacesInv /\ pc = "loop" /\ IsBlockPivot(p) /\ MoveBlocks(p)
    BY <1>3 DEF BlockAdvance, BlockWandInv, WandInv
  <2>2. PICK moved \in 1..n : \E t \in Docs : t = pos[order[p]] /\ Jumps(moved, t)
    BY <1>3, <2>1, BlockAdvanceJumps
  <2>3. PICK t \in Docs : t = pos[order[p]] /\ Jumps(moved, t)
    BY <2>2
  <2>4. \A e \in Docs : e < t /\ ~ Passed(e) => FullScore(cursors, e) <= threshold
    BY <2>1, <2>3, BehindPivotCannotEnter
  <2>5. t \in Nat
    BY <2>1, Known
  <2> QED  BY <2>1, <2>3, <2>4, <2>5, JumpingTurn
<1>4. ASSUME NEW p \in 1..n, BlockSkip(p)
      PROVE  BlockWandInv' /\ [Promise!Next]_(Promise!vars)
  <2>1. pc = "loop" /\ IsBlockPivot(p) /\ MoveBlocks(p)
    BY <1>4 DEF BlockSkip
  <2>2. PICK moved \in 1..n : \E t \in Nat :
          /\ Jumps(moved, t)
          /\ \A e \in Docs : e < t /\ ~ Passed(e) => FullScore(cursors, e) <= threshold
    BY <1>4, BlockSkipJumps
  <2>3. PICK t \in Nat :
          /\ Jumps(moved, t)
          /\ \A e \in Docs : e < t /\ ~ Passed(e) => FullScore(cursors, e) <= threshold
    BY <2>2
  <2> QED  BY <2>1, <2>3, JumpingTurn
<1>5. CASE UNCHANGED blockVars
  <2>1. UNCHANGED vars /\ UNCHANGED block
    BY <1>5 DEF blockVars
  <2> QED  BY <2>1, OtherStep
<1> QED  BY <1>1, <1>2, <1>3, <1>4, <1>5 DEF BlockNext

-----------------------------------------------------------------------------
(* The theorems about block-max WAND, for calls that are pair aware only on *)
(* split indexes.                                                          *)

THEOREM BlockInvariantHolds ==
  ASSUME PairAwareOnSplit, BlocksOfLists
  PROVE  BlockSpec => []BlockWandInv
<1>1. BlockInit => BlockWandInv
  BY BlockStartInv
<1>2. BlockWandInv /\ [BlockNext]_blockVars => BlockWandInv'
  BY BlockStepInv
<1> QED  BY <1>1, <1>2, PTL DEF BlockSpec

\* The state of the loop has its types: each block enumerator stands on a block.
THEOREM BlockTypeCorrect ==
  ASSUME PairAwareOnSplit, BlocksOfLists
  PROVE  BlockSpec => []BlockTypeOK
<1>1. BlockWandInv => BlockTypeOK
  BY DEF BlockWandInv
<1> QED  BY <1>1, BlockInvariantHolds, PTL

\* The block enumerators never run ahead of a document that can still enter the queue.
THEOREM BlocksNotMissed ==
  ASSUME PairAwareOnSplit, BlocksOfLists
  PROVE  BlockSpec => []NoBlockMissed
<1>1. BlockWandInv => NoBlockMissed
  BY DEF BlockWandInv
<1> QED  BY <1>1, BlockInvariantHolds, PTL

\* Every step of block-max WAND offers a document with its full score, or passes over
\* documents that cannot enter: skipping blocks is rank safe.
THEOREM BlockMaxWandIsRankedRetrieval ==
  ASSUME PairAwareOnSplit, BlocksOfLists
  PROVE  BlockSpec => IsRankedRetrieval
<1>1. BlockInit => Retrieval!Init
  <2>1. Promise!Init <=> Retrieval!Init
    BY DEF Promise!Init, Retrieval!Init, Relevance, Settled
  <2> QED  BY <2>1, BlockStartInv
<1>2. BlockWandInv /\ [BlockNext]_blockVars => [Retrieval!Next]_(Retrieval!vars)
  BY BlockStepInv, SameNext
<1> QED  BY <1>1, <1>2, BlockInvariantHolds, PTL DEF BlockSpec, IsRankedRetrieval, Retrieval!Spec

\* When the search stops the queue holds the exact result above the threshold the
\* loop started from, and the exact top K when that is zero or was primed.
THEOREM BlockSearchIsExact ==
  ASSUME PairAwareOnSplit, BlocksOfLists
  PROVE  BlockSpec => []ExactResult
<1>1. BlockWandInv => ExactResult
  BY InvImpliesExact DEF BlockWandInv
<1> QED  BY <1>1, BlockInvariantHolds, PTL
=============================================================================
