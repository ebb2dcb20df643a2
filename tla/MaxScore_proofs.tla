-------------------------- MODULE MaxScore_proofs ---------------------------
(***************************************************************************)
(* Proofs about MaxScore: type correctness, the cursors of the essential   *)
(* lists, the lists that are given up, the step-by-step refinement of      *)
(* RankedRetrieval and the exact result, for every number of documents and *)
(* lists, every capacity, and each of the three algorithms.                *)
(***************************************************************************)
EXTENDS MaxScore, Cursors_proofs

\* The pair-aware calls are over split indexes.
PairAwareOnSplit ==
  \A w \in Workload : w.algorithm = "pair_aware_maxscore" => PairBoundsHold(w.cursors)

\* RankedRetrieval with its theorems, under the mapping of MaxScore's Retrieval.
\* The flag and the phase of a query, which only SafeQuery has, are any values.
Relevance == [d \in Docs |-> FullScore(cursors, d)]
Settled == IF pc = "done" THEN Docs ELSE {d \in Docs : d < nextDoc}

Promise ==
  INSTANCE RankedRetrieval_proofs WITH
    Scores <- Nat, relevance <- Relevance, settled <- Settled,
    safe <- FALSE, phase <- "first"

-----------------------------------------------------------------------------
(* The definitions of the instances are those of MaxScore.                 *)

LEMMA DocsFinite == IsFiniteSet(Docs) /\ Promise!IsFiniteSet(Docs)
<1>1. IsFiniteSet(Docs)
  BY FS_Interval, NumDocsAssumption DEF Docs
<1> QED  BY <1>1 DEF IsFiniteSet, Promise!IsFiniteSet

LEMMA SameCardinality ==
  \A S : /\ Retrieval!Cardinality(S) = Cardinality(S)
         /\ Promise!Cardinality(S) = Cardinality(S)
BY DEF Cardinality, Promise!Cardinality, Retrieval!Cardinality

LEMMA SameNext == [Promise!Next]_(Promise!vars) => [Retrieval!Next]_(Retrieval!vars)
BY SameCardinality
   DEF Promise!Next, Promise!vars, Promise!Prime, Promise!Offer, Promise!Skip,
       Promise!PrimeSound, Promise!Insert, Promise!Reject, Promise!Push, Promise!PushPop,
       Promise!WouldEnter, Promise!Lowest, Promise!FrontScore, Promise!queueVars,
       Retrieval!Next, Retrieval!vars, Retrieval!Prime, Retrieval!Offer, Retrieval!Skip,
       Retrieval!PrimeSound, Retrieval!Insert, Retrieval!Reject, Retrieval!Push, Retrieval!PushPop,
       Retrieval!WouldEnter, Retrieval!Lowest, Retrieval!FrontScore, Retrieval!queueVars, Relevance, Settled

LEMMA SameInsert == \A score, d : Insert(score, d) <=> Promise!Insert(score, d)
BY SameCardinality
   DEF Insert, Reject, Push, PushPop, WouldEnter, Lowest, FrontScore, queueVars,
       Promise!Insert, Promise!Reject, Promise!Push, Promise!PushPop,
       Promise!WouldEnter, Promise!Lowest, Promise!FrontScore, Promise!queueVars

LEMMA SameBestAbove == \A b : Promise!BestAbove(b) <=> Retrieval!BestAbove(b)
BY SameCardinality
   DEF Promise!BestAbove, Retrieval!BestAbove, Promise!Entry, Retrieval!Entry, Relevance, Settled

-----------------------------------------------------------------------------
(* Where the cursors stand.                                                *)

\* A cursor stands on a document of its list, or past its end.
OnPostings == \A c \in 1..n : pos[c] < NumDocs => pos[c] \in Posted(cursors[c])

\* No cursor is past a document still to come, and the essential ones have reached
\* the next one.
NothingJumped ==
  \A c \in 1..n : \A e \in Posted(cursors[c]) : nextDoc <= e => pos[c] <= e
EssentialReached == \A i \in 1..lookup : pos[order[i]] >= nextDoc

\* Documents in the heap are behind: none is offered twice.
Offered == \A e \in heap : e[2] < nextDoc

PlacesInv ==
  /\ call \in Workload
  /\ TypeOK
  /\ IsOrder(n, order)
  /\ OnPostings
  /\ NothingJumped
  /\ Offered
  /\ pc \in {"start", "primed"} => nextDoc = 0 /\ lookup = n /\ heap = {}
  /\ pc = "primed" => cursors # <<>>
  /\ pc = "loop" => EssentialReached /\ lookup # 0 /\ cursors # <<>>

LEMMA CallIsQuery ==
  ASSUME call \in Workload
  PROVE  /\ n \in Nat /\ (cursors # <<>> => n # 0)
         /\ IsQuery(cursors)
         /\ n = Len(cursors)
         /\ \A i \in 1..n : IsCursor(cursors[i]) /\ Posted(cursors[i]) \subseteq Docs
BY WorkloadAssumption DEF IsQuery, IsCursor, cursors, n


LEMMA PlacesInit == Init => PlacesInv
<1> SUFFICES ASSUME Init PROVE PlacesInv
  OBVIOUS
<1>1. call \in Workload /\ n \in Nat
  BY CallIsQuery DEF Init
<1>2. \A c \in 1..n : pos[c] = FirstGeq(cursors[c], 0) /\ Posted(cursors[c]) \subseteq Docs
  BY <1>1, CallIsQuery DEF Init
<1>3. 0 \in 0..NumDocs
  BY NumDocsAssumption
<1>4. \A c \in 1..n : /\ pos[c] \in 0..NumDocs
                      /\ pos[c] < NumDocs => pos[c] \in Posted(cursors[c])
                      /\ \A e \in Posted(cursors[c]) : 0 <= e => pos[c] <= e
  BY <1>2, <1>3, FirstGeqIsNext
<1>5. pos \in [1..n -> 0..NumDocs]
  BY <1>4 DEF Init
<1>6. order \in [1..n -> 1..n] /\ IsOrder(n, order)
  BY DEF Init, IsOrder
<1>7. TypeOK
  BY <1>1, <1>3, <1>5, <1>6, CallIsQuery, ThresholdsAssumption DEF Init, TypeOK
<1>8. OnPostings /\ Offered /\ NothingJumped
  BY <1>4 DEF Init, OnPostings, Offered, NothingJumped
<1> QED  BY <1>1, <1>6, <1>7, <1>8 DEF Init, PlacesInv

\* What is known of every state.
LEMMA Known ==
  ASSUME PlacesInv
  PROVE  /\ n \in Nat
         /\ \A d \in Docs : Relevance[d] = FullScore(cursors, d) /\ Relevance[d] \in Nat
         /\ Relevance \in [Docs -> Nat]
         /\ Settled \subseteq Docs
         /\ threshold \in Nat
         /\ nextDoc \in Nat /\ nextDoc <= NumDocs
         /\ lookup \in Nat /\ lookup <= n
         /\ \A c \in 1..n : pos[c] \in Nat /\ pos[c] <= NumDocs
         /\ \A i \in 1..n : order[i] \in 1..n
         /\ \A d \in Docs : d \in Nat
<1>1. \A d \in Docs : FullScore(cursors, d) \in Nat
  <2>1. /\ Len(cursors) \in Nat /\ \A i \in 1..Len(cursors) : IsCursor(cursors[i])
    BY CallIsQuery DEF PlacesInv
  <2> QED  BY <2>1, FullScoreOver
<1>2. /\ \A c \in 1..n : pos[c] \in 0..NumDocs
      /\ \A i \in 1..n : order[i] \in 1..n
      /\ nextDoc \in 0..NumDocs /\ lookup \in 0..n /\ threshold \in Nat
  BY DEF PlacesInv, TypeOK
<1>3. n \in Nat
  BY CallIsQuery DEF PlacesInv
<1>4. \A x \in 0..NumDocs : x \in Nat /\ x <= NumDocs
  BY NumDocsAssumption
<1>5. Settled \subseteq Docs
  BY DEF Settled
<1>6. \A d \in Docs : d \in Nat
  BY NumDocsAssumption DEF Docs
<1>7. /\ \A d \in Docs : Relevance[d] = FullScore(cursors, d) /\ Relevance[d] \in Nat
      /\ Relevance \in [Docs -> Nat]
  BY <1>1 DEF Relevance
<1>8. lookup \in Nat /\ lookup <= n
  BY <1>2, <1>3
<1> QED  BY <1>2, <1>3, <1>4, <1>5, <1>6, <1>7, <1>8

\* A list is at one place of the order.
LEMMA PlaceOf ==
  ASSUME PlacesInv, NEW i \in 1..n
  PROVE  (CHOOSE j \in 1..n : order[j] = order[i]) = i
BY DEF PlacesInv, IsOrder

LEMMA PlaceExists ==
  ASSUME PlacesInv
  PROVE  \A c \in 1..n : \E i \in 1..n : order[i] = c
BY Known, OrderIsOnto DEF PlacesInv

\* A list after a document was considered: nothing still to come is jumped, and an
\* essential list is past that document.
LEMMA MovedPosting ==
  ASSUME PlacesInv, pc = "loop", nextDoc < NumDocs, NEW until, MovePostings(until),
         NEW i \in 1..n
  PROVE  /\ pos'[order[i]] \in 0..NumDocs
         /\ pos'[order[i]] < NumDocs => pos'[order[i]] \in Posted(cursors[order[i]])
         /\ \A e \in Posted(cursors[order[i]]) : nextDoc < e => pos'[order[i]] <= e
         /\ i <= lookup => pos'[order[i]] > nextDoc
<1> DEFINE c == order[i]
           d == nextDoc
<1>1. /\ c \in 1..n /\ pos[c] \in Nat /\ pos[c] <= NumDocs /\ d \in Nat /\ d \in 0..NumDocs
      /\ d + 1 \in 0..NumDocs /\ lookup \in Nat /\ i \in Nat
  BY Known, NumDocsAssumption
<1>2. pos'[c] = IF i <= lookup
                THEN IF pos[c] = d THEN NextFrom(cursors[c], pos[c]) ELSE pos[c]
                ELSE IF i < until THEN NextGeq(cursors[c], pos[c], d) ELSE pos[c]
  BY <1>1, PlaceOf DEF MovePostings
<1>3. Posted(cursors[c]) \subseteq Docs /\ \A e \in Posted(cursors[c]) : e \in Nat
  BY <1>1, Known, CallIsQuery DEF PlacesInv
<1>4. pos[c] < NumDocs => pos[c] \in Posted(cursors[c])
  BY <1>1 DEF PlacesInv, OnPostings
<1>5. \A e \in Posted(cursors[c]) : d <= e => pos[c] <= e
  BY <1>1 DEF PlacesInv, NothingJumped
<1>6. i <= lookup => pos[c] >= d
  <2>1. i <= lookup => i \in 1..lookup
    BY <1>1
  <2> QED  BY <2>1 DEF PlacesInv, EssentialReached
<1> HIDE DEF c, d
<1>7. pos[c] \in 0..NumDocs
  BY <1>1, NumDocsAssumption
<1>8. CASE i <= lookup /\ pos[c] = d
  <2>1. pos'[c] = FirstGeq(cursors[c], d + 1)
    BY <1>2, <1>8 DEF NextFrom
  <2>2. /\ pos'[c] \in 0..NumDocs /\ pos'[c] >= d + 1
        /\ pos'[c] < NumDocs => pos'[c] \in Posted(cursors[c])
        /\ \A e \in Posted(cursors[c]) : d + 1 <= e => pos'[c] <= e
    BY <1>1, <1>3, <2>1, FirstGeqIsNext
  <2>3. \A e \in Posted(cursors[c]) : d < e => d + 1 <= e
    BY <1>1, <1>3
  <2>4. pos'[c] > d
    BY <1>1, <2>2, NumDocsAssumption
  <2> QED  BY <2>2, <2>3, <2>4 DEF c, d
<1>9. CASE i > lookup /\ i < until /\ pos[c] < d
  <2>1. pos'[c] = FirstGeq(cursors[c], d)
    BY <1>1, <1>2, <1>9 DEF NextGeq
  <2>2. /\ pos'[c] \in 0..NumDocs
        /\ pos'[c] < NumDocs => pos'[c] \in Posted(cursors[c])
        /\ \A e \in Posted(cursors[c]) : d <= e => pos'[c] <= e
    BY <1>1, <1>3, <2>1, FirstGeqIsNext
  <2>3. \A e \in Posted(cursors[c]) : d < e => d <= e
    BY <1>1, <1>3
  <2> QED  BY <1>1, <1>9, <2>2, <2>3 DEF c, d
<1>10. CASE ~ (i <= lookup /\ pos[c] = d) /\ ~ (i > lookup /\ i < until /\ pos[c] < d)
  <2>1. pos'[c] = pos[c]
    BY <1>1, <1>2, <1>10 DEF NextGeq
  <2>2. \A e \in Posted(cursors[c]) : d < e => pos[c] <= e
    BY <1>1, <1>3, <1>5
  <2>3. i <= lookup => pos[c] > d
    BY <1>1, <1>6, <1>10
  <2> QED  BY <1>4, <1>7, <2>1, <2>2, <2>3 DEF c, d
<1> QED  BY <1>8, <1>9, <1>10

\* What the cursors are after a document was considered.
Moved ==
  /\ nextDoc' \in 0..NumDocs
  /\ nextDoc < nextDoc'
  /\ pos' \in [1..n -> 0..NumDocs]
  /\ \A c \in 1..n : /\ pos'[c] < NumDocs => pos'[c] \in Posted(cursors[c])
                     /\ \A e \in Posted(cursors[c]) : nextDoc' <= e => pos'[c] <= e
  /\ \A i \in 1..lookup : nextDoc' <= pos'[order[i]]
  /\ \A e \in Docs : nextDoc < e /\ e < nextDoc'
       => \A i \in 1..lookup : e \notin Posted(cursors[order[i]])

LEMMA CursorsMoved ==
  ASSUME PlacesInv, pc = "loop", nextDoc < NumDocs, NEW until, MoveCursors(until)
  PROVE  Moved
<1> DEFINE S == {pos'[order[i]] : i \in 1..lookup} \cup {NumDocs}
<1>1. MovePostings(until) /\ nextDoc' = Earliest(S)
  BY DEF MoveCursors
<1>2. ASSUME NEW i \in 1..n
      PROVE  /\ pos'[order[i]] \in 0..NumDocs
             /\ pos'[order[i]] < NumDocs => pos'[order[i]] \in Posted(cursors[order[i]])
             /\ \A e \in Posted(cursors[order[i]]) : nextDoc < e => pos'[order[i]] <= e
             /\ i <= lookup => pos'[order[i]] > nextDoc
  BY <1>1, MovedPosting
<1>3. nextDoc \in Nat /\ NumDocs \in Nat /\ \A i \in 1..lookup : i \in 1..n /\ i <= lookup
  BY Known, NumDocsAssumption
<1>4. S \subseteq 0..NumDocs /\ NumDocs \in S
  BY <1>2, <1>3
<1>5. \A p \in S : p > nextDoc
  BY <1>2, <1>3
<1>6. \A i \in 1..lookup : pos'[order[i]] \in S
  OBVIOUS
<1> HIDE DEF S
<1>7. nextDoc' \in S /\ \A p \in S : nextDoc' <= p
  <2>1. S \subseteq Nat
    BY <1>4
  <2> QED  BY <1>1, <1>4, <2>1, EarliestIsLeast
<1>8. nextDoc' \in 0..NumDocs /\ nextDoc < nextDoc' /\ nextDoc' \in Nat
  BY <1>3, <1>4, <1>5, <1>7
<1>9. \A i \in 1..lookup : nextDoc' <= pos'[order[i]]
  BY <1>6, <1>7
<1>10. ASSUME NEW c \in 1..n
       PROVE  /\ pos'[c] \in 0..NumDocs
              /\ pos'[c] < NumDocs => pos'[c] \in Posted(cursors[c])
              /\ \A e \in Posted(cursors[c]) : nextDoc < e => pos'[c] <= e
  <2>1. PICK i \in 1..n : order[i] = c
    BY PlaceExists
  <2> QED  BY <1>2, <2>1
<1>11. ASSUME NEW c \in 1..n, NEW e \in Posted(cursors[c]), nextDoc' <= e PROVE pos'[c] <= e
  <2>1. e \in Nat
    BY Known, CallIsQuery DEF PlacesInv
  <2>2. nextDoc < e
    BY <1>3, <1>8, <1>11, <2>1
  <2> QED  BY <1>10, <2>2
<1>12. pos' \in [1..n -> 0..NumDocs]
  BY <1>1, <1>10 DEF MovePostings
<1>13. ASSUME NEW e \in Docs, nextDoc < e, e < nextDoc', NEW i \in 1..lookup, e \in Posted(cursors[order[i]])
       PROVE  FALSE
  <2>1. pos'[order[i]] <= e /\ pos'[order[i]] \in 0..NumDocs
    BY <1>2, <1>3, <1>13
  <2>2. nextDoc' <= pos'[order[i]] /\ e \in Nat /\ pos'[order[i]] \in Nat
    BY <1>9, <2>1, Known, NumDocsAssumption
  <2> QED  BY <1>8, <1>13, <2>1, <2>2
<1> QED  BY <1>8, <1>9, <1>10, <1>11, <1>12, <1>13 DEF Moved

-----------------------------------------------------------------------------
(* The score of the document considered.                                   *)

\* The lists at the places a to b of the order.
Lists(a, b) == {order[j] : j \in a..b}

\* A list takes part in the score exactly when it holds the document.
LEMMA StandsOnPosting ==
  ASSUME PlacesInv, pc = "loop", nextDoc < NumDocs, NEW i \in 1..n
  PROVE  Stands(i) <=> nextDoc \in Posted(cursors[order[i]])
<1> DEFINE c == order[i]
           d == nextDoc
<1>1. /\ c \in 1..n /\ pos[c] \in Nat /\ pos[c] <= NumDocs /\ d \in Nat /\ d \in 0..NumDocs
      /\ lookup \in Nat /\ i \in Nat
  BY Known, NumDocsAssumption
<1>2. Posted(cursors[c]) \subseteq Docs
  BY <1>1, CallIsQuery DEF PlacesInv
<1>3. pos[c] < NumDocs => pos[c] \in Posted(cursors[c])
  BY <1>1 DEF PlacesInv, OnPostings
<1>4. d \in Posted(cursors[c]) => pos[c] <= d
  BY <1>1 DEF PlacesInv, NothingJumped
<1>5. i <= lookup => pos[c] >= d
  <2>1. i <= lookup => i \in 1..lookup
    BY <1>1
  <2> QED  BY <2>1 DEF PlacesInv, EssentialReached
<1>6. Stands(i) <=> IF i <= lookup THEN pos[c] = d ELSE NextGeq(cursors[c], pos[c], d) = d
  BY DEF Stands
<1> HIDE DEF c, d
<1>7. CASE pos[c] >= d
  <2>1. Stands(i) <=> pos[c] = d
    BY <1>1, <1>6, <1>7 DEF NextGeq
  <2>2. pos[c] = d => d \in Posted(cursors[c])
    BY <1>3 DEF d
  <2> QED  BY <1>1, <1>4, <1>7, <2>1, <2>2 DEF c, d
<1>8. CASE pos[c] < d
  <2>1. Stands(i) <=> FirstGeq(cursors[c], d) = d
    BY <1>1, <1>5, <1>6, <1>8 DEF NextGeq
  <2>2. /\ FirstGeq(cursors[c], d) \in Nat /\ FirstGeq(cursors[c], d) >= d
        /\ FirstGeq(cursors[c], d) < NumDocs => FirstGeq(cursors[c], d) \in Posted(cursors[c])
        /\ d \in Posted(cursors[c]) => FirstGeq(cursors[c], d) <= d
    BY <1>1, <1>2, FirstGeqIsNext, NumDocsAssumption
  <2> QED  BY <1>1, <2>1, <2>2 DEF c, d
<1> QED  BY <1>1, <1>7, <1>8

\* The partial score is that of the lists considered so far.
LEMMA CurrentScoreIs ==
  ASSUME PlacesInv, pc = "loop", nextDoc < NumDocs, NEW i \in 0..n
  PROVE  /\ CurrentScore(i) = SumOver(Contribution(cursors, nextDoc), Lists(1, i), n)
         /\ CurrentScore(i) \in Nat
<1> DEFINE f == Contribution(cursors, nextDoc)
           g == [j \in 1..n |-> f[order[j]]]
           T == {j \in 1..i : Stands(j)}
<1>1. /\ n \in Nat /\ n = Len(cursors) /\ Len(cursors) \in Nat
      /\ \A c \in 1..Len(cursors) : IsCursor(cursors[c])
      /\ \A j \in 1..n : order[j] \in 1..n
  BY CallIsQuery, Known DEF PlacesInv
<1>2. NatsTo(f, n) /\ \A c \in 1..n : nextDoc \notin Posted(cursors[c]) => f[c] = 0
  BY <1>1, ContributionNat
<1>3. \A j \in 1..i : j \in 1..n
  BY <1>1
<1>4. \A j \in 1..n : j \in 1..i /\ j \notin T => f[order[j]] = 0
  BY <1>1, <1>2, StandsOnPosting
<1>5. CurrentScore(i) = SumOver(g, T, n)
  BY DEF CurrentScore
<1>6. Lists(1, i) = {order[j] : j \in 1..i}
  BY DEF Lists
<1>7. T \subseteq 1..i
  OBVIOUS
<1> HIDE DEF f, T
<1>8. NatsTo(g, n) /\ \A j \in 1..n : g[j] = f[order[j]]
  BY <1>1, <1>2 DEF NatsTo
<1>9. \A j \in 1..n : (IF j \in T THEN g[j] ELSE 0) = (IF j \in 1..i THEN g[j] ELSE 0)
  BY <1>4, <1>7, <1>8
<1>10. SumOver(g, T, n) = SumOver(g, 1..i, n)
  <2> HIDE DEF g
  <2> QED  BY <1>1, <1>8, <1>9, SumOverSame
<1>11. SumOver(g, 1..i, n) = SumOver(f, {order[j] : j \in 1..i}, n)
  <2>1. 1..i \subseteq 1..n /\ IsOrder(n, order)
    BY <1>3 DEF PlacesInv
  <2> QED  BY <1>1, <1>2, <2>1, SumOverPlaces
<1>12. SumOver(f, Lists(1, i), n) \in Nat
  BY <1>1, <1>2, SumOverNat
<1> QED  BY <1>5, <1>6, <1>10, <1>11, <1>12 DEF f

\* After the last list it is the full score.
LEMMA FullyScored ==
  ASSUME PlacesInv, pc = "loop", nextDoc < NumDocs
  PROVE  CurrentScore(n) = FullScore(cursors, nextDoc)
<1>1. /\ n \in Nat /\ n = Len(cursors) /\ Len(cursors) \in Nat /\ n \in 0..n
      /\ \A c \in 1..Len(cursors) : IsCursor(cursors[c])
  BY CallIsQuery DEF PlacesInv
<1>2. \A c \in 1..n : c \in Lists(1, n)
  BY PlaceExists DEF Lists
<1>3. CurrentScore(n) = SumOver(Contribution(cursors, nextDoc), Lists(1, n), n)
  BY <1>1, CurrentScoreIs
<1>4. SumOver(Contribution(cursors, nextDoc), Lists(1, n), Len(cursors)) = FullScore(cursors, nextDoc)
  BY <1>1, <1>2, FullScoreOver
<1> QED  BY <1>1, <1>3, <1>4

-----------------------------------------------------------------------------
(* The essential lists.                                                    *)

\* As many lists stay essential as needed: those after them cannot beat t.
LEMMA EssentialIs ==
  ASSUME lookup \in Nat, NEW t
  PROVE  /\ Essential(t) \in 0..lookup
         /\ Essential(t) < lookup => ~ (Bound(Essential(t) + 1) > t)
<1> DEFINE enough == {i \in 1..lookup : Bound(i) > t}
<1>1. Essential(t) = IF enough = {} THEN 0 ELSE CHOOSE i \in enough : \A j \in enough : j <= i
  BY DEF Essential
<1>2. CASE enough = {}
  <2>1. Essential(t) = 0
    BY <1>1, <1>2
  <2>2. 0 < lookup => 1 \in 1..lookup
    OBVIOUS
  <2>3. 0 < lookup => ~ (Bound(0 + 1) > t)
    BY <1>2, <2>2
  <2> QED  BY <2>1, <2>3
<1>3. CASE enough # {}
  <2>1. enough \subseteq 0..lookup
    OBVIOUS
  <2> HIDE DEF enough
  <2>2. \E i \in enough : \A j \in enough : j <= i
    BY <1>3, <2>1, GreatestNat
  <2>3. Essential(t) \in enough /\ \A j \in enough : j <= Essential(t)
    BY <1>1, <1>3, <2>2
  <2>4. Essential(t) \in 1..lookup
    BY <2>3 DEF enough
  <2>5. Essential(t) < lookup => Essential(t) + 1 \in 1..lookup /\ ~ (Essential(t) + 1 <= Essential(t))
    BY <2>4
  <2> QED  BY <2>3, <2>4, <2>5 DEF enough
<1> QED  BY <1>2, <1>3

-----------------------------------------------------------------------------
(* The places are kept by every step.                                      *)

LEMMA PrimedIsNat ==
  ASSUME call \in Workload, call.prime
  PROVE  /\ PrimedThreshold(cursors, K) \in Nat
         /\ \/ PrimedThreshold(cursors, K) = 0
            \/ Cardinality({d \in Docs : FullScore(cursors, d) > PrimedThreshold(cursors, K)}) >= K
<1>1. IsQuery(cursors) /\ PrimingHolds(cursors) /\ K \in Nat \ {0}
  BY WorkloadAssumption, KAssumption DEF cursors
<1> QED  BY <1>1, PrimedThresholdSound

\* The search starts at the first document of any list.
LEMMA BeginPlaces ==
  ASSUME PlacesInv, Begin
  PROVE  /\ nextDoc' \in 0..NumDocs
         /\ \A c \in 1..n : nextDoc' <= pos[c]
         /\ lookup' \in 0..n
<1> DEFINE S == {pos[c] : c \in 1..n}
<1>1. /\ n \in Nat /\ n # 0 /\ lookup = n
      /\ \A c \in 1..n : pos[c] \in 0..NumDocs /\ pos[c] \in Nat
      /\ lookup' = Essential(threshold) /\ nextDoc' = Earliest(S)
  BY CallIsQuery, Known DEF PlacesInv, Begin, TypeOK
<1>2. S \subseteq Nat /\ S \subseteq 0..NumDocs /\ pos[1] \in S
  BY <1>1
<1>3. \A c \in 1..n : pos[c] \in S
  OBVIOUS
<1> HIDE DEF S
<1>4. nextDoc' \in S /\ \A p \in S : nextDoc' <= p
  BY <1>1, <1>2, EarliestIsLeast
<1> QED  BY <1>1, <1>2, <1>3, <1>4, EssentialIs

\* The document considered has its full score and no entry yet.
LEMMA InsertPlaces ==
  ASSUME PlacesInv, InsertDocument
  PROVE  /\ heap' \subseteq Nat \X Docs /\ threshold' \in Nat
         /\ heap' \subseteq heap \cup {<<FullScore(cursors, nextDoc), nextDoc>>}
         /\ nextDoc \in Docs
         /\ Promise!Insert(FullScore(cursors, nextDoc), nextDoc)
<1> DEFINE score == FullScore(cursors, nextDoc)
<1>1. Insert(score, nextDoc) /\ pc = "loop" /\ nextDoc < NumDocs
  BY FullyScored DEF InsertDocument
<1>2. nextDoc \in Docs /\ score \in Nat
  <2>1. nextDoc \in Docs
    BY <1>1, Known, NumDocsAssumption DEF Docs
  <2> QED  BY <2>1, Known
<1> HIDE DEF score
<1>3. <<score, nextDoc>> \notin heap
  <2>1. ~ (nextDoc < nextDoc)
    BY Known
  <2> QED  BY <2>1 DEF PlacesInv, Offered
<1>4. Promise!Insert(score, nextDoc)
  BY <1>1, SameInsert
<1>5. heap \subseteq Nat \X Docs /\ threshold \in Nat
  BY DEF PlacesInv, TypeOK
<1>6. /\ heap' \subseteq Nat \X Docs /\ threshold' \in Nat
      /\ heap' \subseteq heap \cup {<<score, nextDoc>>}
  BY <1>2, <1>3, <1>4, <1>5, Promise!InsertTypes, KAssumption, DocsFinite
<1> QED  BY <1>2, <1>4, <1>6 DEF score

\* A document behind is still behind after the cursors moved.
LEMMA MovedPlaces ==
  ASSUME PlacesInv, Moved, UNCHANGED n, UNCHANGED cursors, UNCHANGED order,
         lookup' \in 0..lookup, heap' \subseteq Nat \X Docs,
         \A e \in heap' : e[2] <= nextDoc
  PROVE  OnPostings' /\ NothingJumped' /\ Offered' /\ EssentialReached' /\ IsOrder(n, order)'
<1>1. OnPostings' /\ NothingJumped'
  BY DEF Moved, OnPostings, NothingJumped
<1>2. Offered'
  <2> SUFFICES ASSUME NEW e \in heap' PROVE e[2] < nextDoc'
    BY DEF Offered
  <2>1. e[2] \in Docs /\ e[2] <= nextDoc /\ nextDoc < nextDoc' /\ nextDoc' \in 0..NumDocs
    BY DEF Moved
  <2> QED  BY <2>1, Known, NumDocsAssumption
<1>3. EssentialReached'
  <2>1. \A i \in 1..lookup' : i \in 1..lookup
    BY Known
  <2>2. \A i \in 1..lookup' : pos'[order[i]] \in Nat /\ nextDoc' \in Nat /\ nextDoc' <= pos'[order[i]]
    <3>1. \A i \in 1..lookup : i \in 1..n
      BY Known
    <3> QED  BY <2>1, <3>1, Known, NumDocsAssumption DEF Moved
  <2> QED  BY <2>2 DEF EssentialReached
<1>4. IsOrder(n, order)'
  BY DEF PlacesInv, IsOrder
<1> QED  BY <1>1, <1>2, <1>3, <1>4

LEMMA PlacesNext == PlacesInv /\ [Next]_vars => PlacesInv'
<1> SUFFICES ASSUME PlacesInv, [Next]_vars PROVE PlacesInv'
  OBVIOUS
<1>1. UNCHANGED call /\ UNCHANGED n /\ UNCHANGED cursors
  <2>1. UNCHANGED call
    BY DEF Next, vars, ReturnEmpty, Prime, Begin, SkipDocument, InsertDocument, Stop
  <2> QED  BY <2>1 DEF n, cursors
<1>2. CASE ReturnEmpty
  BY <1>1, <1>2 DEF ReturnEmpty, PlacesInv, TypeOK, IsOrder, OnPostings, NothingJumped, Offered
<1>3. CASE Prime
  <2>1. /\ threshold' \in Nat /\ UNCHANGED heap /\ floor' \in Nat
        /\ UNCHANGED <<call, pos, lookup, nextDoc>> /\ pc = "start" /\ pc' = "primed"
        /\ cursors # <<>>
    BY <1>3, PrimedIsNat DEF Prime, SetThreshold, queueVars, PlacesInv, TypeOK
  <2>2. order' \in [1..n -> 1..n] /\ IsOrder(n, order)'
    BY <1>1, <1>3 DEF Prime, Sorted, IsOrder
  <2> QED  BY <1>1, <2>1, <2>2 DEF PlacesInv, TypeOK, OnPostings, NothingJumped, Offered
<1>4. CASE Begin
  <2>1. /\ nextDoc' \in 0..NumDocs /\ lookup' \in 0..n
        /\ \A c \in 1..n : nextDoc' <= pos[c]
    BY <1>4, BeginPlaces
  <2>2. /\ UNCHANGED <<heap, threshold, call, pos, order, floor>>
        /\ pc' \in {"done", "loop"} /\ (pc' = "loop" => lookup' # 0)
        /\ pc = "primed" /\ nextDoc = 0 /\ heap = {} /\ cursors # <<>>
    BY <1>4 DEF Begin, PlacesInv
  <2>3. NothingJumped'
    <3> SUFFICES ASSUME NEW c \in 1..n, NEW e \in Posted(cursors[c]) PROVE pos[c] <= e
      BY <1>1, <2>2 DEF NothingJumped
    <3>1. e \in Nat
      BY Known, CallIsQuery DEF PlacesInv
    <3> QED  BY <2>2, <3>1 DEF PlacesInv, NothingJumped
  <2>4. EssentialReached'
    <3>1. \A i \in 1..lookup' : order[i] \in 1..n
      BY <2>1, Known
    <3>2. \A c \in 1..n : pos[c] \in Nat /\ nextDoc' \in Nat
      BY <2>1, Known, NumDocsAssumption
    <3> QED  BY <2>1, <2>2, <3>1, <3>2 DEF EssentialReached
  <2>5. IsOrder(n, order)' /\ OnPostings' /\ Offered'
    BY <1>1, <2>2 DEF PlacesInv, IsOrder, OnPostings, Offered
  <2> QED  BY <1>1, <2>1, <2>2, <2>3, <2>4, <2>5 DEF PlacesInv, TypeOK
<1>5. CASE SkipDocument
  <2>1. /\ pc = "loop" /\ nextDoc < NumDocs
        /\ UNCHANGED <<heap, threshold, call, order, lookup, pc, floor>>
    BY <1>5 DEF SkipDocument
  <2>2. Moved
    <3>1. PICK i \in (lookup + 1)..n : MoveCursors(i)
      BY <1>5 DEF SkipDocument
    <3> QED  BY <2>1, <3>1, CursorsMoved
  <2>3. heap' \subseteq Nat \X Docs /\ \A e \in heap' : e[2] <= nextDoc
    <3>1. heap \subseteq Nat \X Docs /\ \A e \in heap : e[2] < nextDoc
      BY DEF PlacesInv, TypeOK, Offered
    <3>2. \A e \in heap : e[2] \in Nat
      BY <3>1, Known
    <3> QED  BY <2>1, <3>1, <3>2, Known
  <2>4. lookup' \in 0..lookup
    BY <2>1, Known
  <2>5. OnPostings' /\ NothingJumped' /\ Offered' /\ EssentialReached' /\ IsOrder(n, order)'
    BY <1>1, <2>1, <2>2, <2>3, <2>4, MovedPlaces
  <2>6. pos' \in [1..n -> 0..NumDocs] /\ nextDoc' \in 0..NumDocs
    BY <2>2 DEF Moved
  <2> QED  BY <1>1, <2>1, <2>5, <2>6 DEF PlacesInv, TypeOK
<1>6. CASE InsertDocument
  <2>1. /\ pc = "loop" /\ nextDoc < NumDocs /\ UNCHANGED <<call, order, floor>>
        /\ MoveCursors(n + 1)
        /\ lookup' = Essential(threshold') \/ lookup' = lookup
        /\ pc' = IF lookup' = 0 THEN "done" ELSE "loop"
    BY <1>6 DEF InsertDocument
  <2>2. Moved
    BY <2>1, CursorsMoved
  <2>3. /\ heap' \subseteq Nat \X Docs /\ threshold' \in Nat
        /\ heap' \subseteq heap \cup {<<FullScore(cursors, nextDoc), nextDoc>>}
    BY <1>6, InsertPlaces
  <2>4. \A e \in heap' : e[2] <= nextDoc
    <3>1. \A e \in heap : e[2] < nextDoc /\ e[2] \in Docs
      BY DEF PlacesInv, TypeOK, Offered
    <3>2. \A e \in heap : e[2] <= nextDoc
      BY <3>1, Known
    <3> QED  BY <2>3, <3>2, Known
  <2>5. lookup' \in 0..lookup /\ lookup' \in 0..n
    BY <2>1, EssentialIs, Known
  <2>6. OnPostings' /\ NothingJumped' /\ Offered' /\ EssentialReached' /\ IsOrder(n, order)'
    BY <1>1, <2>1, <2>2, <2>3, <2>4, <2>5, MovedPlaces
  <2>7. pos' \in [1..n -> 0..NumDocs] /\ nextDoc' \in 0..NumDocs
    BY <2>2 DEF Moved
  <2> QED  BY <1>1, <2>1, <2>3, <2>5, <2>6, <2>7 DEF PlacesInv, TypeOK
<1>7. CASE Stop
  BY <1>1, <1>7 DEF Stop, PlacesInv, TypeOK, IsOrder, OnPostings, NothingJumped, Offered
<1>8. CASE UNCHANGED vars
  BY <1>1, <1>8 DEF vars, PlacesInv, TypeOK, IsOrder, OnPostings, NothingJumped, Offered, EssentialReached
<1> QED  BY <1>2, <1>3, <1>4, <1>5, <1>6, <1>7, <1>8 DEF Next

THEOREM PlacesHold == Spec => []PlacesInv
BY PlacesInit, PlacesNext, PTL DEF Spec

\* The state of the loop has its types.
THEOREM TypeCorrect == Spec => []TypeOK
BY PlacesHold, PTL DEF PlacesInv

\* The essential cursors stand on their first posting at or after the next document:
\* no posting of an essential list is jumped, whatever lists were given up.
THEOREM EssentialInStep == Spec => []EssentialCursorsInStep
<1>1. PlacesInv => EssentialCursorsInStep
  <2> SUFFICES ASSUME PlacesInv, pc = "loop", NEW i \in 1..lookup
               PROVE  pos[order[i]] = FirstGeq(cursors[order[i]], nextDoc)
    BY DEF EssentialCursorsInStep
  <2>1. order[i] \in 1..n /\ nextDoc \in 0..NumDocs
    BY Known DEF PlacesInv, TypeOK
  <2>2. /\ pos[order[i]] \in 0..NumDocs /\ pos[order[i]] >= nextDoc
        /\ pos[order[i]] < NumDocs => pos[order[i]] \in Posted(cursors[order[i]])
        /\ \A e \in Posted(cursors[order[i]]) : nextDoc <= e => pos[order[i]] <= e
        /\ Posted(cursors[order[i]]) \subseteq Docs
    BY <2>1, CallIsQuery
       DEF PlacesInv, TypeOK, EssentialReached, OnPostings, NothingJumped
  <2> QED  BY <2>1, <2>2, FirstGeqUnique
<1> QED  BY <1>1, PlacesHold, PTL

-----------------------------------------------------------------------------
(* What is left to the lists that are not essential.                       *)

\* What the lists from place i on contribute to a document is within their bound.
LEMMA BoundCoversRest ==
  ASSUME PairAwareOnSplit, PlacesInv, NEW i \in 1..(n + 1), NEW d
  PROVE  /\ Bound(i) \in Nat
         /\ SumOver(Contribution(cursors, d), Lists(i, n), n) <= Bound(i)
<1> DEFINE pairAware == call.algorithm = "pair_aware_maxscore"
           m == n + 1 - i
<1>1. /\ IsQuery(cursors) /\ n = Len(cursors) /\ n \in Nat
      /\ pairAware => PairBoundsHold(cursors)
  BY CallIsQuery DEF PlacesInv, PairAwareOnSplit, cursors
<1>2. m \in Nat /\ \A j \in 1..m : j \in 1..n /\ n + 1 - j \in i..n /\ n + 1 - j \in 1..n
  BY <1>1
<1>3. \A j \in 1..m : Backwards[j] = order[n + 1 - j]
  BY <1>2 DEF Backwards
<1>4. IsOrder(n, order)
  BY DEF PlacesInv
<1>5. \A j \in 1..m : Backwards[j] \in 1..Len(cursors)
  BY <1>1, <1>2, <1>3, <1>4 DEF IsOrder
<1>6. \A j, k \in 1..m : j # k => Backwards[j] # Backwards[k]
  <2> TAKE j, k \in 1..m
  <2>1. j # k => n + 1 - j # n + 1 - k
    BY <1>1
  <2> QED  BY <1>2, <1>3, <1>4, <2>1 DEF IsOrder
<1>7. {Backwards[j] : j \in 1..m} = Lists(i, n)
  <2>1. \A k \in i..n : n + 1 - k \in 1..m /\ n + 1 - (n + 1 - k) = k
    BY <1>1
  <2> QED  BY <1>2, <1>3, <2>1 DEF Lists
<1>8. Bound(i) = Accumulated(cursors, Backwards, m, pairAware).bound
  BY DEF Bound
<1> HIDE DEF pairAware, m
<1>9. /\ Accumulated(cursors, Backwards, m, pairAware).bound \in Nat
      /\ SumOver(Contribution(cursors, d), {Backwards[j] : j \in 1..m}, Len(cursors))
           <= Accumulated(cursors, Backwards, m, pairAware).bound
  BY <1>1, <1>2, <1>5, <1>6, AccumulatedCoversPart
<1> QED  BY <1>1, <1>7, <1>8, <1>9

\* A lookup that cannot lift the document above the threshold shows that nothing can.
LEMMA Hopeless ==
  ASSUME PairAwareOnSplit, PlacesInv, pc = "loop", nextDoc < NumDocs,
         NEW i \in 1..n, ~ Promising(i)
  PROVE  FullScore(cursors, nextDoc) <= threshold
<1> DEFINE f == Contribution(cursors, nextDoc)
           done == Lists(1, i - 1)
           rest == Lists(i, n)
<1>1. /\ n \in Nat /\ n = Len(cursors) /\ Len(cursors) \in Nat
      /\ \A c \in 1..Len(cursors) : IsCursor(cursors[c])
  BY CallIsQuery DEF PlacesInv
<1>2. i - 1 \in 0..n /\ i \in 1..(n + 1)
  BY <1>1
<1>3. /\ CurrentScore(i - 1) = SumOver(f, done, n)
      /\ CurrentScore(i - 1) \in Nat
  BY <1>2, CurrentScoreIs
<1>4. Bound(i) \in Nat /\ SumOver(f, rest, n) <= Bound(i)
  BY <1>2, BoundCoversRest
<1>5. ~ (CurrentScore(i - 1) + Bound(i) > threshold)
  BY DEF Promising, WouldEnter
<1>6. NatsTo(f, n)
  BY <1>1, ContributionNat
<1>7. done \cap rest = {} /\ rest \subseteq 1..n
  <2>1. \A k \in 1..(i - 1), l \in i..n : k \in 1..n /\ l \in 1..n /\ k # l
    BY <1>1
  <2>2. \A l \in i..n : l \in 1..n
    BY <1>1
  <2> QED  BY <2>1, <2>2 DEF Lists, PlacesInv, IsOrder
<1>8. \A c \in 1..n : c \in done \cup rest
  <2> SUFFICES ASSUME NEW c \in 1..n PROVE c \in done \cup rest
    OBVIOUS
  <2>1. PICK k \in 1..n : order[k] = c
    BY PlaceExists
  <2>2. k \in 1..(i - 1) \/ k \in i..n
    BY <1>1
  <2> QED  BY <2>1, <2>2 DEF Lists
<1> HIDE DEF f, done, rest
<1>9. SumOver(f, done \cup rest, n) = SumOver(f, done, n) + SumOver(f, rest, n)
  <2>1. n \in Nat
    BY <1>1
  <2> QED  BY <1>6, <1>7, <2>1, SumOverUnion, ZenonT(30)
<1>10. SumOver(f, done \cup rest, n) = FullScore(cursors, nextDoc)
  BY <1>1, <1>8, FullScoreOver DEF f
<1>11. SumOver(f, rest, n) \in Nat
  BY <1>1, <1>6, SumOverNat
<1> QED  BY <1>3, <1>4, <1>5, <1>9, <1>10, <1>11, Known

\* The lists after place l cannot beat threshold t.
GivenUp(l, t) == l = n \/ ~ (Bound(l + 1) > t)

\* A document of no other list cannot beat it either.
LEMMA GivenUpCannotEnter ==
  ASSUME PairAwareOnSplit, PlacesInv, NEW l \in 0..n, NEW t \in Nat, GivenUp(l, t), NEW d \in Docs,
         \A i \in 1..l : d \notin Posted(cursors[order[i]])
  PROVE  FullScore(cursors, d) <= t
<1>1. /\ n \in Nat /\ n = Len(cursors) /\ Len(cursors) \in Nat
      /\ \A c \in 1..Len(cursors) : IsCursor(cursors[c])
  BY CallIsQuery DEF PlacesInv
<1>2. l + 1 \in 1..(n + 1) /\ l \in Nat
  BY <1>1
<1>3. /\ Bound(l + 1) \in Nat
      /\ SumOver(Contribution(cursors, d), Lists(l + 1, n), n) <= Bound(l + 1)
  BY <1>2, BoundCoversRest
<1>4. l = n => Bound(l + 1) = 0
  <2>1. l = n => n + 1 - (l + 1) = 0
    BY <1>1
  <2> QED  BY <2>1, AccumulatedStep DEF Bound, NoBound
<1>5. \A c \in 1..n : d \in Posted(cursors[c]) => c \in Lists(l + 1, n)
  <2> SUFFICES ASSUME NEW c \in 1..n, d \in Posted(cursors[c]) PROVE c \in Lists(l + 1, n)
    OBVIOUS
  <2>1. PICK k \in 1..n : order[k] = c
    BY PlaceExists
  <2>2. k \in 1..l \/ k \in (l + 1)..n
    BY <1>1, <1>2
  <2> QED  BY <2>1, <2>2 DEF Lists
<1>6. /\ SumOver(Contribution(cursors, d), Lists(l + 1, n), Len(cursors)) = FullScore(cursors, d)
      /\ FullScore(cursors, d) \in Nat
  BY <1>1, <1>5, FullScoreOver
<1> QED  BY <1>1, <1>3, <1>4, <1>6 DEF GivenUp

\* Giving up lists for a threshold that has risen.
LEMMA EssentialGivesUp ==
  ASSUME PairAwareOnSplit, PlacesInv, GivenUp(lookup, threshold), NEW t \in Nat, t >= threshold
  PROVE  Essential(t) \in 0..lookup /\ GivenUp(Essential(t), t) /\ GivenUp(lookup, t)
<1>1. lookup \in Nat /\ lookup \in 0..n /\ lookup + 1 \in 1..(n + 1) /\ threshold \in Nat
  BY Known
<1>2. Bound(lookup + 1) \in Nat
  BY <1>1, BoundCoversRest
<1>3. GivenUp(lookup, t)
  BY <1>1, <1>2 DEF GivenUp
<1>4. /\ Essential(t) \in 0..lookup
      /\ Essential(t) < lookup => ~ (Bound(Essential(t) + 1) > t)
  BY <1>1, EssentialIs
<1>5. Essential(t) = lookup \/ Essential(t) < lookup
  BY <1>1, <1>4
<1> QED  BY <1>3, <1>4, <1>5 DEF GivenUp

-----------------------------------------------------------------------------
(* The inductive invariant: MaxScore keeps the promise of a ranked query.   *)

Progress ==
  /\ pc \in {"start", "primed"} => threshold = floor
  /\ pc = "loop" => GivenUp(lookup, threshold)
  /\ pc = "done" /\ cursors = <<>> => heap = {}
  /\ pc # "start" /\ call.prime /\ cursors # <<>> => Promise!PrimeSound(floor)

MaxInv == PlacesInv /\ Promise!RetrievalInv /\ Progress

LEMMA StartInv == Init => MaxInv /\ Promise!Init
<1> SUFFICES ASSUME Init PROVE MaxInv /\ Promise!Init
  OBVIOUS
<1>1. PlacesInv
  BY PlacesInit
<1>2. Settled = {}
  <2>1. \A d \in Docs : ~ (d < 0)
    BY NumDocsAssumption DEF Docs
  <2> QED  BY <2>1 DEF Settled, Init
<1>3. Promise!Init
  BY <1>1, <1>2, Known DEF Init, Promise!Init, PlacesInv, TypeOK
<1>4. Promise!RetrievalInv
  BY <1>3, Promise!InitInv, DocsFinite, KAssumption
<1> QED  BY <1>1, <1>3, <1>4 DEF Init, MaxInv, Progress

\* A call without cursors: every document scores nothing.
LEMMA ReturnEmptyStep ==
  ASSUME MaxInv, ReturnEmpty, UNCHANGED cursors, UNCHANGED Relevance
  PROVE  Promise!Skip /\ Progress'
<1>1. ASSUME NEW d \in Docs PROVE Relevance[d] = 0
  <2>1. Len(cursors) = 0
    BY DEF ReturnEmpty
  <2>2. FullScore(cursors, d) = 0
    BY <2>1, SumToStep DEF FullScore
  <2> QED  BY <2>2 DEF Relevance
<1>2. threshold \in Nat
  BY Known DEF MaxInv
<1>3. \A d \in Docs : ~ Promise!WouldEnter(Relevance[d])
  BY <1>1, <1>2 DEF Promise!WouldEnter
<1>4. Settled \subseteq Docs /\ Settled' = Docs
  BY DEF Settled, ReturnEmpty
<1>5. Promise!Skip
  BY <1>3, <1>4 DEF Promise!Skip, ReturnEmpty
<1>6. Progress'
  BY DEF MaxInv, PlacesInv, Progress, ReturnEmpty
<1> QED  BY <1>5, <1>6

\* The heap keeps the threshold given, or takes one that K documents beat.
LEMMA PrimeStep ==
  ASSUME MaxInv, Prime, UNCHANGED cursors, UNCHANGED Relevance
  PROVE  [Promise!Next]_(Promise!vars) /\ Progress'
<1>1. /\ pc = "start" /\ pc' = "primed" /\ UNCHANGED <<heap, call, nextDoc>> /\ floor' = threshold'
      /\ cursors # <<>>
      /\ threshold' = IF call.prime THEN PrimedThreshold(cursors, K) ELSE threshold
  BY DEF Prime, SetThreshold, queueVars
<1>2. heap = {} /\ threshold = floor /\ nextDoc = 0
  BY <1>1 DEF MaxInv, PlacesInv, Progress
<1>3. Settled = {} /\ Settled' = {}
  <2>1. \A d \in Docs : ~ (d < 0)
    BY NumDocsAssumption DEF Docs
  <2> QED  BY <1>1, <1>2, <2>1 DEF Settled
<1>4. ASSUME call.prime PROVE Promise!PrimeSound(threshold') /\ threshold' \in Nat
  <2>1. /\ threshold' \in Nat
        /\ \/ threshold' = 0
           \/ Cardinality({d \in Docs : FullScore(cursors, d) > threshold'}) >= K
    BY <1>1, <1>4, PrimedIsNat DEF MaxInv, PlacesInv
  <2>2. {d \in Docs : FullScore(cursors, d) > threshold'} = {d \in Docs : Relevance[d] > threshold'}
    BY DEF Relevance
  <2> QED  BY <2>1, <2>2, SameCardinality DEF Promise!PrimeSound
<1>5. [Promise!Next]_(Promise!vars)
  <2>1. CASE call.prime
    BY <1>1, <1>2, <1>3, <1>4, <2>1 DEF Promise!Next, Promise!Prime
  <2>2. CASE ~ call.prime
    BY <1>1, <1>2, <1>3, <2>2 DEF Promise!vars
  <2> QED  BY <2>1, <2>2
<1>6. call.prime => Promise!PrimeSound(floor)'
  BY <1>1, <1>4 DEF Promise!PrimeSound
<1> QED  BY <1>1, <1>5, <1>6 DEF Progress

\* The threshold of a priming call is not touched again.
LEMMA FloorKept ==
  ASSUME MaxInv, pc # "start", UNCHANGED <<call, floor>>, UNCHANGED cursors, UNCHANGED Relevance
  PROVE  call.prime /\ cursors # <<>> => Promise!PrimeSound(floor)'
<1>1. Promise!PrimeSound(floor)' <=> Promise!PrimeSound(floor)
  BY DEF Promise!PrimeSound
<1> QED  BY <1>1 DEF MaxInv, Progress

\* What the first turn passes over: documents before the first posting of any list, or
\* all when no list is essential.
LEMMA BeginStep ==
  ASSUME PairAwareOnSplit, MaxInv, Begin, UNCHANGED cursors, UNCHANGED Relevance
  PROVE  Promise!Skip /\ Progress'
<1>1. /\ pc = "primed" /\ UNCHANGED <<heap, threshold, call, pos, order, floor>>
      /\ lookup' = Essential(threshold)
      /\ pc' = IF lookup' = 0 THEN "done" ELSE "loop"
      /\ PlacesInv /\ nextDoc = 0 /\ lookup = n /\ cursors # <<>>
  BY DEF Begin, MaxInv, PlacesInv
<1>2. n \in Nat /\ threshold \in Nat /\ threshold >= threshold
  BY <1>1, Known
<1>3. GivenUp(lookup, threshold)
  BY <1>1 DEF GivenUp
<1>4. lookup' \in 0..n /\ GivenUp(lookup', threshold)
  BY <1>1, <1>2, <1>3, EssentialGivesUp
<1>5. ASSUME NEW e \in Settled' PROVE e \in Docs /\ FullScore(cursors, e) <= threshold
  <2>1. CASE lookup' = 0
    <3>1. e \in Docs /\ 0 \in 0..n /\ GivenUp(0, threshold)
      BY <1>1, <1>4, <2>1 DEF Settled
    <3> QED  BY <1>1, <1>2, <3>1, GivenUpCannotEnter
  <2>2. CASE lookup' # 0
    <3>1. e \in Docs /\ e < nextDoc' /\ e \in Nat
      BY <1>1, <2>2, Known DEF Settled
    <3>2. ASSUME NEW i \in 1..n, e \in Posted(cursors[order[i]]) PROVE FALSE
      <4>1. order[i] \in 1..n /\ pos[order[i]] \in Nat
        BY <1>1, Known
      <4>2. pos[order[i]] <= e
        BY <1>1, <3>1, <3>2, <4>1 DEF PlacesInv, NothingJumped
      <4>3. nextDoc' <= pos[order[i]] /\ nextDoc' \in Nat
        BY <1>1, <4>1, BeginPlaces, NumDocsAssumption
      <4> QED  BY <3>1, <4>1, <4>2, <4>3
    <3>3. n \in 0..n /\ GivenUp(n, threshold)
      BY <1>2 DEF GivenUp
    <3> QED  BY <1>1, <1>2, <3>1, <3>2, <3>3, GivenUpCannotEnter
  <2> QED  BY <2>1, <2>2
<1>6. Settled = {}
  <2>1. \A d \in Docs : ~ (d < 0)
    BY NumDocsAssumption DEF Docs
  <2> QED  BY <1>1, <2>1 DEF Settled
<1>7. \A e \in Settled' : e \in Docs /\ ~ Promise!WouldEnter(Relevance[e])
  <2> SUFFICES ASSUME NEW e \in Settled' PROVE e \in Docs /\ ~ (Relevance[e] > threshold)
    BY DEF Promise!WouldEnter
  <2> QED  BY <1>1, <1>2, <1>5, Known
<1>8. Promise!Skip
  BY <1>1, <1>6, <1>7 DEF Promise!Skip
<1>9. GivenUp(lookup, threshold)'
  BY <1>1, <1>4 DEF GivenUp, Bound, Backwards, n, cursors
<1>10. call.prime /\ cursors # <<>> => Promise!PrimeSound(floor)'
  BY <1>1, FloorKept
<1> QED  BY <1>1, <1>8, <1>9, <1>10 DEF Progress

\* The documents between the one considered and the next are in no essential list.
LEMMA PassedOver ==
  ASSUME PairAwareOnSplit, MaxInv, pc = "loop", Moved, NEW e \in Docs, nextDoc < e, e < nextDoc'
  PROVE  FullScore(cursors, e) <= threshold
<1>1. PlacesInv /\ GivenUp(lookup, threshold) /\ lookup \in 0..n /\ threshold \in Nat
  BY Known DEF MaxInv, PlacesInv, TypeOK, Progress
<1>2. \A i \in 1..lookup : e \notin Posted(cursors[order[i]])
  BY DEF Moved
<1> QED  BY <1>1, <1>2, GivenUpCannotEnter

LEMMA SkipStep ==
  ASSUME PairAwareOnSplit, MaxInv, SkipDocument, UNCHANGED cursors, UNCHANGED Relevance
  PROVE  Promise!Skip /\ Progress'
<1>1. /\ pc = "loop" /\ nextDoc < NumDocs /\ PlacesInv
      /\ UNCHANGED <<heap, threshold, call, order, lookup, pc, floor>>
  BY DEF SkipDocument, MaxInv
<1>2. PICK i \in (lookup + 1)..n : ~ Promising(i) /\ MoveCursors(i)
  BY DEF SkipDocument
<1>3. Moved
  BY <1>1, <1>2, CursorsMoved
<1>4. FullScore(cursors, nextDoc) <= threshold
  <2>1. i \in 1..n
    BY <1>1, Known
  <2> QED  BY <1>1, <1>2, <2>1, Hopeless
<1>5. /\ Settled = {d \in Docs : d < nextDoc}
      /\ Settled' = {d \in Docs : d < nextDoc'}
      /\ nextDoc \in Nat /\ nextDoc' \in Nat /\ nextDoc < nextDoc'
  BY <1>1, <1>3, Known, NumDocsAssumption DEF Settled, Moved
<1>6. \A e \in Settled' \ Settled : ~ Promise!WouldEnter(Relevance[e])
  <2> SUFFICES ASSUME NEW e \in Settled' \ Settled PROVE ~ (Relevance[e] > threshold)
    BY DEF Promise!WouldEnter
  <2>1. /\ e \in Docs /\ e \in Nat /\ Relevance[e] \in Nat /\ threshold \in Nat
        /\ Relevance[e] = FullScore(cursors, e)
    BY <1>1, <1>5, Known
  <2>2. e = nextDoc \/ (nextDoc < e /\ e < nextDoc')
    BY <1>5, <2>1
  <2>3. FullScore(cursors, e) <= threshold
    BY <1>1, <1>3, <1>4, <2>1, <2>2, PassedOver
  <2> QED  BY <2>1, <2>3
<1>7. Settled \subseteq Settled' /\ Settled' \subseteq Docs
  BY <1>5, Known, <1>1
<1>8. Promise!Skip
  BY <1>1, <1>6, <1>7 DEF Promise!Skip
<1>9. call.prime /\ cursors # <<>> => Promise!PrimeSound(floor)'
  BY <1>1, FloorKept
<1>10. GivenUp(lookup, threshold)'
  BY <1>1 DEF MaxInv, Progress, GivenUp, Bound, Backwards, n, cursors
<1> QED  BY <1>1, <1>8, <1>9, <1>10 DEF Progress

LEMMA InsertStep ==
  ASSUME PairAwareOnSplit, MaxInv, InsertDocument, UNCHANGED cursors, UNCHANGED Relevance
  PROVE  Promise!Offer(nextDoc) /\ nextDoc \in Docs /\ Progress'
<1>1. /\ pc = "loop" /\ nextDoc < NumDocs /\ PlacesInv /\ MoveCursors(n + 1)
      /\ UNCHANGED <<call, order, floor>>
      /\ lookup' = Essential(threshold') \/ lookup' = lookup
      /\ WouldEnter(CurrentScore(n)) => lookup' = Essential(threshold')
      /\ pc' = IF lookup' = 0 THEN "done" ELSE "loop"
      /\ lookup # 0 /\ GivenUp(lookup, threshold) /\ cursors # <<>>
  BY DEF InsertDocument, MaxInv, PlacesInv, Progress
<1>2. Moved
  BY <1>1, CursorsMoved
<1>3. /\ nextDoc \in Docs /\ Relevance[nextDoc] = FullScore(cursors, nextDoc)
      /\ Promise!Insert(Relevance[nextDoc], nextDoc)
  BY <1>1, InsertPlaces, Known
<1>4. nextDoc \notin Settled
  BY <1>1, Known DEF Settled
<1>5. threshold' \in Nat /\ threshold' >= threshold /\ threshold \in Nat
  BY <1>1, <1>3, <1>4, Promise!InsertRaises, DocsFinite, KAssumption, Known DEF MaxInv
<1>6. lookup' \in 0..n /\ GivenUp(lookup', threshold')
  BY <1>1, <1>5, EssentialGivesUp, Known
<1>7. /\ Settled = {d \in Docs : d < nextDoc}
      /\ Settled' = IF lookup' = 0 THEN Docs ELSE {d \in Docs : d < nextDoc'}
      /\ nextDoc \in Nat /\ nextDoc' \in Nat /\ nextDoc < nextDoc'
  BY <1>1, <1>2, Known, NumDocsAssumption DEF Settled, Moved
<1>8. ASSUME NEW e \in Settled' \ (Settled \cup {nextDoc}) PROVE Relevance[e] <= threshold'
  <2>1. /\ e \in Docs /\ e \in Nat /\ Relevance[e] \in Nat
        /\ Relevance[e] = FullScore(cursors, e)
    BY <1>1, <1>7, Known
  <2>2. CASE lookup' = 0
    <3>1. 0 \in 0..n /\ GivenUp(0, threshold')
      BY <1>6, <2>2
    <3> QED  BY <1>1, <1>5, <2>1, <3>1, GivenUpCannotEnter
  <2>3. CASE lookup' # 0
    <3>1. nextDoc < e /\ e < nextDoc'
      BY <1>7, <2>1, <2>3
    <3>2. FullScore(cursors, e) <= threshold
      BY <1>1, <1>2, <2>1, <3>1, PassedOver
    <3> QED  BY <1>5, <2>1, <3>2
  <2> QED  BY <2>2, <2>3
<1>9. Settled' \subseteq Docs /\ Settled \cup {nextDoc} \subseteq Settled'
  <2>1. \A d \in Docs : d \in Nat /\ (d < nextDoc \/ d = nextDoc => d < nextDoc')
    BY <1>1, <1>7, Known
  <2> QED  BY <1>3, <1>7, <2>1
<1>10. Promise!Offer(nextDoc)
  BY <1>1, <1>3, <1>4, <1>8, <1>9 DEF Promise!Offer
<1>11. call.prime /\ cursors # <<>> => Promise!PrimeSound(floor)'
  BY <1>1, FloorKept
<1>12. GivenUp(lookup, threshold)'
  BY <1>1, <1>6 DEF GivenUp, Bound, Backwards, n, cursors
<1> QED  BY <1>1, <1>3, <1>10, <1>11, <1>12 DEF Progress

\* The end of the essential lists: every document is behind.
LEMMA StopStep ==
  ASSUME MaxInv, Stop, UNCHANGED cursors, UNCHANGED Relevance
  PROVE  UNCHANGED Promise!vars /\ Progress'
<1>1. /\ pc = "loop" /\ nextDoc >= NumDocs /\ pc' = "done" /\ PlacesInv
      /\ UNCHANGED <<heap, threshold, call, pos, order, lookup, nextDoc, floor>> /\ cursors # <<>>
  BY DEF Stop, MaxInv, PlacesInv
<1>2. \A d \in Docs : d < nextDoc
  BY <1>1, Known, NumDocsAssumption DEF Docs
<1>3. Settled = Docs /\ Settled' = Docs
  BY <1>1, <1>2 DEF Settled
<1>4. call.prime /\ cursors # <<>> => Promise!PrimeSound(floor)'
  BY <1>1, FloorKept
<1> QED  BY <1>1, <1>3, <1>4 DEF Promise!vars, Progress

LEMMA StepInv ==
  PairAwareOnSplit /\ MaxInv /\ [Next]_vars => MaxInv' /\ [Promise!Next]_(Promise!vars)
<1> SUFFICES ASSUME PairAwareOnSplit, MaxInv, [Next]_vars
             PROVE  MaxInv' /\ [Promise!Next]_(Promise!vars)
  OBVIOUS
<1>1. UNCHANGED cursors /\ UNCHANGED Relevance /\ UNCHANGED call
  <2>1. UNCHANGED call
    BY DEF Next, vars, ReturnEmpty, Prime, Begin, SkipDocument, InsertDocument, Stop
  <2> QED  BY <2>1 DEF cursors, Relevance
<1>2. PlacesInv'
  BY PlacesNext DEF MaxInv
<1>3. [Promise!Next]_(Promise!vars) /\ Progress'
  <2>1. CASE ReturnEmpty
    BY <1>1, <2>1, ReturnEmptyStep DEF Promise!Next
  <2>2. CASE Prime
    BY <1>1, <2>2, PrimeStep
  <2>3. CASE Begin
    BY <1>1, <2>3, BeginStep DEF Promise!Next
  <2>4. CASE SkipDocument
    BY <1>1, <2>4, SkipStep DEF Promise!Next
  <2>5. CASE InsertDocument
    BY <1>1, <2>5, InsertStep DEF Promise!Next
  <2>6. CASE Stop
    BY <1>1, <2>6, StopStep
  <2>7. CASE UNCHANGED vars
    <3>1. UNCHANGED <<heap, threshold, call, pos, order, lookup, nextDoc, pc, floor>>
      BY <2>7 DEF vars
    <3>2. UNCHANGED Settled
      BY <3>1 DEF Settled
    <3>3. Promise!PrimeSound(floor)' <=> Promise!PrimeSound(floor)
      BY <1>1, <3>1 DEF Promise!PrimeSound
    <3>4. GivenUp(lookup, threshold)' <=> GivenUp(lookup, threshold)
      BY <3>1 DEF GivenUp, Bound, Backwards, n, cursors
    <3>5. Progress'
      BY <1>1, <3>1, <3>3, <3>4 DEF MaxInv, Progress
    <3> QED  BY <1>1, <3>1, <3>2, <3>5 DEF Promise!vars
  <2> QED  BY <2>1, <2>2, <2>3, <2>4, <2>5, <2>6, <2>7 DEF Next
<1>4. Promise!RetrievalInv'
  BY <1>3, Promise!NextInv, DocsFinite, KAssumption DEF MaxInv
<1> QED  BY <1>2, <1>3, <1>4 DEF MaxInv

-----------------------------------------------------------------------------
(* The theorems, for calls that are pair aware only on split indexes.       *)

THEOREM InvariantHolds ==
  ASSUME PairAwareOnSplit
  PROVE  Spec => []MaxInv
<1>1. Init => MaxInv
  BY StartInv
<1>2. MaxInv /\ [Next]_vars => MaxInv'
  BY StepInv
<1> QED  BY <1>1, <1>2, PTL DEF Spec

LEMMA InvImpliesNonEssential == PairAwareOnSplit /\ MaxInv => NonEssentialCannotEnter
<1> SUFFICES ASSUME PairAwareOnSplit, MaxInv, pc = "loop", NEW d \in Docs,
                    \A i \in 1..lookup : d \notin Posted(cursors[order[i]])
             PROVE  ~ WouldEnter(FullScore(cursors, d))
  BY DEF NonEssentialCannotEnter
<1>1. PlacesInv /\ GivenUp(lookup, threshold) /\ lookup \in 0..n /\ threshold \in Nat
  BY Known DEF MaxInv, PlacesInv, TypeOK, Progress
<1>2. FullScore(cursors, d) <= threshold /\ FullScore(cursors, d) \in Nat
  BY <1>1, GivenUpCannotEnter, Known
<1> QED  BY <1>1, <1>2 DEF WouldEnter

\* Lists are only given up when what they hold together cannot beat the threshold: a
\* document that is in no essential list cannot enter, and the loop may skip it.
THEOREM GivenUpListsCannotEnter ==
  ASSUME PairAwareOnSplit
  PROVE  Spec => []NonEssentialCannotEnter
<1>1. Spec => []MaxInv
  BY InvariantHolds
<1>2. MaxInv => NonEssentialCannotEnter
  BY InvImpliesNonEssential
<1> QED  BY <1>1, <1>2, PTL

\* Every step of MaxScore offers a document with its full score, or passes over
\* documents that cannot enter: MaxScore implements the promise of a ranked query.
THEOREM MaxScoreIsRankedRetrieval ==
  ASSUME PairAwareOnSplit
  PROVE  Spec => IsRankedRetrieval
<1>1. Init => Retrieval!Init
  <2>1. Promise!Init <=> Retrieval!Init
    BY DEF Promise!Init, Retrieval!Init, Relevance, Settled
  <2> QED  BY <2>1, StartInv
<1>2. MaxInv /\ [Next]_vars => [Retrieval!Next]_(Retrieval!vars)
  BY StepInv, SameNext
<1>3. Spec => []MaxInv
  BY InvariantHolds
<1> QED  BY <1>1, <1>2, <1>3, PTL DEF Spec, IsRankedRetrieval, Retrieval!Spec

LEMMA InvImpliesExact == MaxInv => ExactResult
<1> SUFFICES ASSUME MaxInv, pc = "done"
             PROVE  /\ Retrieval!BestAbove(floor)
                    /\ call.prime \/ floor = 0 => Retrieval!BestAbove(0)
  BY DEF ExactResult
<1>1. Settled = Docs /\ Promise!RetrievalInv /\ PlacesInv
  BY DEF Settled, MaxInv
<1>2. Promise!BestAbove(floor)
  BY <1>1, Promise!InvImpliesExact, DocsFinite, KAssumption DEF Promise!ExactAboveFloor
<1>3. ASSUME Promise!PrimeSound(floor) PROVE Promise!BestAbove(0)
  BY <1>1, <1>3, Promise!SoundFloorExact, DocsFinite, KAssumption
<1>4. ASSUME cursors = <<>> PROVE Promise!BestAbove(0)
  <2>1. heap = {}
    BY <1>4 DEF MaxInv, Progress
  <2>2. \A d \in Docs : ~ (Relevance[d] > 0)
    <3>1. Len(cursors) = 0
      BY <1>4
    <3> QED  BY <3>1, SumToStep DEF FullScore, Relevance
  <2>3. Cardinality(heap) = 0
    BY <2>1, FS_EmptySet
  <2> QED  BY <2>1, <2>2, <2>3, SameCardinality, KAssumption DEF Promise!BestAbove
<1>5. floor = 0 => Promise!PrimeSound(floor)
  BY DEF Promise!PrimeSound
<1>6. call.prime /\ cursors # <<>> => Promise!PrimeSound(floor)
  BY DEF MaxInv, Progress
<1> QED  BY <1>2, <1>3, <1>4, <1>5, <1>6, SameBestAbove

\* When the query returns the queue holds the exact result above the threshold the
\* loop started from, and the exact top K when that is zero or was primed.
THEOREM SearchIsExact ==
  ASSUME PairAwareOnSplit
  PROVE  Spec => []ExactResult
<1>1. Spec => []MaxInv
  BY InvariantHolds
<1> QED  BY <1>1, InvImpliesExact, PTL
=============================================================================
