---------------------- MODULE BlockMaxMaxScore_proofs -----------------------
(***************************************************************************)
(* Proofs about BlockMaxMaxScore: type correctness, the bounds of blocks   *)
(* and of the lists given up, the step-by-step refinement of               *)
(* RankedRetrieval and the exact result, for every number of documents,    *)
(* lists and blocks and every capacity.                                    *)
(***************************************************************************)
EXTENDS BlockMaxMaxScore, Cursors_proofs

\* RankedRetrieval with its theorems, under the mapping of the module's Retrieval.
\* The flag and the phase of a query, which only SafeQuery has, are any values.
Relevance == [d \in Docs |-> FullScore(cursors, d)]
Settled == IF pc = "done" THEN Docs ELSE {d \in Docs : d < curDoc}

Promise ==
  INSTANCE RankedRetrieval_proofs WITH
    Scores <- Nat, relevance <- Relevance, settled <- Settled,
    safe <- FALSE, phase <- "first"

-----------------------------------------------------------------------------
(* The definitions of the instances are those of BlockMaxMaxScore.         *)

LEMMA DocsFinite == IsFiniteSet(Docs) /\ Promise!IsFiniteSet(Docs)
<1>1. IsFiniteSet(Docs)
  BY FS_Interval, NumDocsAssumption DEF Docs
<1> QED  BY <1>1 DEF IsFiniteSet, Promise!IsFiniteSet

LEMMA SameCardinality ==
  \A S : /\ Retrieval!Cardinality(S) = Cardinality(S)
         /\ Promise!Cardinality(S) = Cardinality(S)
BY DEF Cardinality, Promise!Cardinality, Retrieval!Cardinality

LEMMA SameNext == [Promise!Next]_(Promise!vars) => [Retrieval!Next]_(Retrieval!vars)
BY SameCardinality
   DEF Promise!Next, Promise!vars, Promise!Prime, Promise!Offer, Promise!Skip,
       Promise!PrimeSound, Promise!Insert, Promise!Reject, Promise!Push, Promise!PushPop,
       Promise!WouldEnter, Promise!Lowest, Promise!FrontScore, Promise!queueVars,
       Retrieval!Next, Retrieval!vars, Retrieval!Prime, Retrieval!Offer, Retrieval!Skip,
       Retrieval!PrimeSound, Retrieval!Insert, Retrieval!Reject, Retrieval!Push, Retrieval!PushPop,
       Retrieval!WouldEnter, Retrieval!Lowest, Retrieval!FrontScore, Retrieval!queueVars, Relevance, Settled

LEMMA SameInsert == \A score, d : Insert(score, d) <=> Promise!Insert(score, d)
BY SameCardinality
   DEF Insert, Reject, Push, PushPop, WouldEnter, Lowest, FrontScore, queueVars,
       Promise!Insert, Promise!Reject, Promise!Push, Promise!PushPop,
       Promise!WouldEnter, Promise!Lowest, Promise!FrontScore, Promise!queueVars

LEMMA SameBestAbove == \A b : Promise!BestAbove(b) <=> Retrieval!BestAbove(b)
BY SameCardinality
   DEF Promise!BestAbove, Retrieval!BestAbove, Promise!Entry, Retrieval!Entry, Relevance, Settled

-----------------------------------------------------------------------------
(* Where the cursors and their blocks stand.                               *)

\* A cursor stands on a document of its list, or past its end.
OnPostings == \A c \in 1..n : pos[c] < NumDocs => pos[c] \in Posted(cursors[c])

\* No cursor is past a document still to come, and the essential ones have reached
\* the next one.
NothingJumped ==
  \A c \in 1..n : \A e \in Posted(cursors[c]) : curDoc <= e => pos[c] <= e
EssentialReached == \A i \in (nonEssential + 1)..n : pos[order[i]] >= curDoc

\* The blocks that were passed end before the document considered.
BlocksBehind ==
  \A c \in 1..n :
    /\ block[c] \in 1..Len(call.blocks[c])
    /\ \A b \in 1..(block[c] - 1) : call.blocks[c][b].last < curDoc

\* Documents in the heap are behind: none is offered twice.
Offered == \A e \in heap : e[2] < curDoc

PlacesInv ==
  /\ call \in Workload
  /\ TypeOK
  /\ IsOrder(n, order)
  /\ OnPostings
  /\ NothingJumped
  /\ BlocksBehind
  /\ Offered
  /\ floor \in Nat
  /\ pc = "start" => curDoc = 0 /\ nonEssential = 0 /\ heap = {}
  /\ pc = "loop" => EssentialReached

LEMMA CallIsQuery ==
  ASSUME call \in Workload
  PROVE  /\ n \in Nat /\ (cursors # <<>> => n # 0)
         /\ IsQuery(cursors)
         /\ n = Len(cursors)
         /\ \A i \in 1..n : /\ IsCursor(cursors[i]) /\ Posted(cursors[i]) \subseteq Docs
                            /\ BlocksHold(cursors[i], call.blocks[i])
BY WorkloadAssumption DEF IsQuery, IsCursor, cursors, n

LEMMA PlacesInit == Init => PlacesInv
<1> SUFFICES ASSUME Init PROVE PlacesInv
  OBVIOUS
<1>1. call \in Workload /\ n \in Nat
  BY CallIsQuery DEF Init
<1>2. \A c \in 1..n : pos[c] = FirstGeq(cursors[c], 0) /\ Posted(cursors[c]) \subseteq Docs
  BY <1>1, CallIsQuery DEF Init
<1>3. 0 \in 0..NumDocs
  BY NumDocsAssumption
<1>4. \A c \in 1..n : /\ pos[c] \in 0..NumDocs
                      /\ pos[c] < NumDocs => pos[c] \in Posted(cursors[c])
                      /\ \A e \in Posted(cursors[c]) : 0 <= e => pos[c] <= e
  BY <1>2, <1>3, FirstGeqIsNext
<1>5. pos \in [1..n -> 0..NumDocs]
  BY <1>4 DEF Init
<1>6. order \in [1..n -> 1..n] /\ IsOrder(n, order)
  BY DEF Init, IsOrder
<1>7. block \in [1..n -> Nat] /\ BlocksBehind
  <2>1. \A c \in 1..n : block[c] = 1 /\ Len(call.blocks[c]) \in Nat \ {0}
    BY <1>1, CallIsQuery DEF Init, BlocksHold
  <2>2. \A c \in 1..n : block[c] \in 1..Len(call.blocks[c]) /\ 1..(block[c] - 1) = {}
    BY <2>1
  <2> QED  BY <2>2 DEF BlocksBehind, Init
<1>8. TypeOK
  BY <1>1, <1>3, <1>5, <1>6, <1>7, CallIsQuery, ThresholdsAssumption DEF Init, TypeOK, BlocksBehind
<1>9. OnPostings /\ Offered /\ NothingJumped
  BY <1>4 DEF Init, OnPostings, Offered, NothingJumped
<1> QED  BY <1>1, <1>6, <1>7, <1>8, <1>9, ThresholdsAssumption DEF Init, PlacesInv

\* What is known of every state.
LEMMA Known ==
  ASSUME PlacesInv
  PROVE  /\ n \in Nat
         /\ \A d \in Docs : Relevance[d] = FullScore(cursors, d) /\ Relevance[d] \in Nat
         /\ Relevance \in [Docs -> Nat]
         /\ Settled \subseteq Docs
         /\ threshold \in Nat
         /\ curDoc \in Nat /\ curDoc <= NumDocs
         /\ nonEssential \in Nat /\ nonEssential <= n
         /\ \A c \in 1..n : pos[c] \in Nat /\ pos[c] <= NumDocs
         /\ \A i \in 1..n : order[i] \in 1..n
         /\ \A d \in Docs : d \in Nat
<1>1. \A d \in Docs : FullScore(cursors, d) \in Nat
  <2>1. /\ Len(cursors) \in Nat /\ \A i \in 1..Len(cursors) : IsCursor(cursors[i])
    BY CallIsQuery DEF PlacesInv
  <2> QED  BY <2>1, FullScoreOver
<1>2. /\ \A c \in 1..n : pos[c] \in 0..NumDocs
      /\ \A i \in 1..n : order[i] \in 1..n
      /\ curDoc \in 0..NumDocs /\ nonEssential \in 0..n /\ threshold \in Nat
  BY DEF PlacesInv, TypeOK
<1>3. n \in Nat
  BY CallIsQuery DEF PlacesInv
<1>4. \A x \in 0..NumDocs : x \in Nat /\ x <= NumDocs
  BY NumDocsAssumption
<1>5. Settled \subseteq Docs
  BY DEF Settled
<1>6. \A d \in Docs : d \in Nat
  BY NumDocsAssumption DEF Docs
<1>7. /\ \A d \in Docs : Relevance[d] = FullScore(cursors, d) /\ Relevance[d] \in Nat
      /\ Relevance \in [Docs -> Nat]
  BY <1>1 DEF Relevance
<1>8. nonEssential \in Nat /\ nonEssential <= n
  BY <1>2, <1>3
<1> QED  BY <1>2, <1>3, <1>4, <1>5, <1>6, <1>7, <1>8

LEMMA PlaceExists ==
  ASSUME PlacesInv
  PROVE  \A c \in 1..n : \E i \in 1..n : order[i] = c
BY Known, OrderIsOnto DEF PlacesInv

\* A list at place i is essential exactly when its place is.
LEMMA PlaceAmong ==
  ASSUME PlacesInv, NEW i \in 1..n, NEW S, S \subseteq 1..n
  PROVE  (\E j \in S : order[j] = order[i]) <=> i \in S
BY DEF PlacesInv, IsOrder

\* A block enumerator moves to the first block that reaches the document considered,
\* or the last one.
LEMMA BlockGeqIs ==
  ASSUME PlacesInv, NEW c \in 1..n
  PROVE  /\ BlockGeq(c) \in 1..Len(call.blocks[c])
         /\ BlockGeq(c) = Len(call.blocks[c]) \/ call.blocks[c][BlockGeq(c)].last >= curDoc
         /\ \A b \in 1..(BlockGeq(c) - 1) : call.blocks[c][b].last < curDoc
<1> DEFINE len == Len(call.blocks[c])
           last(b) == call.blocks[c][b].last
           S == {b \in block[c]..len : b = len \/ last(b) >= curDoc}
<1>1. /\ len \in Nat \ {0} /\ block[c] \in 1..len /\ curDoc \in Nat
      /\ \A b \in 1..len : last(b) \in Nat
      /\ \A b \in 1..(block[c] - 1) : last(b) < curDoc
  BY CallIsQuery, Known DEF PlacesInv, BlocksHold, BlocksBehind
<1>2. BlockGeq(c) = Earliest(S)
  BY DEF BlockGeq
<1> HIDE DEF len, last
<1>3. S \subseteq Nat /\ len \in S
  BY <1>1
<1>4. BlockGeq(c) \in S /\ \A b \in S : BlockGeq(c) <= b
  BY <1>2, <1>3, EarliestIsLeast
<1>5. ASSUME NEW b \in 1..(BlockGeq(c) - 1) PROVE last(b) < curDoc
  <2>1. BlockGeq(c) \in block[c]..len
    BY <1>4
  <2>2. b \in 1..(block[c] - 1) \/ b \in block[c]..len
    BY <1>1, <2>1
  <2>3. b \in Nat /\ ~ (BlockGeq(c) <= b)
    BY <1>1, <2>1
  <2>4. b \in block[c]..len => last(b) < curDoc
    <3> SUFFICES ASSUME b \in block[c]..len, ~ (last(b) < curDoc) PROVE FALSE
      OBVIOUS
    <3>1. b \in 1..len
      BY <1>1
    <3>2. last(b) >= curDoc
      BY <1>1, <3>1
    <3> QED  BY <1>4, <2>3, <3>2
  <2> QED  BY <1>1, <2>2, <2>4
<1>6. BlockGeq(c) \in 1..len /\ (BlockGeq(c) = len \/ last(BlockGeq(c)) >= curDoc)
  BY <1>1, <1>4
<1> QED  BY <1>5, <1>6 DEF len, last

-----------------------------------------------------------------------------
(* A document is considered.                                               *)

\* The guard of the loop.
LEMMA InLoopIs ==
  ASSUME PlacesInv, InLoop
  PROVE  /\ pc = "loop" /\ nonEssential < n /\ curDoc < NumDocs
         /\ curDoc \in Docs /\ curDoc \in 0..NumDocs /\ curDoc + 1 \in 0..NumDocs
BY Known, NumDocsAssumption DEF InLoop, Docs

\* A list after a document was considered: nothing still to come is jumped, and an
\* essential list is past that document.
LEMMA MovedPosting ==
  ASSUME PlacesInv, InLoop, NEW looked, looked \subseteq 1..n, MovePostings(looked),
         NEW i \in 1..n
  PROVE  /\ pos'[order[i]] \in 0..NumDocs
         /\ pos'[order[i]] < NumDocs => pos'[order[i]] \in Posted(cursors[order[i]])
         /\ \A e \in Posted(cursors[order[i]]) : curDoc < e => pos'[order[i]] <= e
         /\ i > nonEssential => pos'[order[i]] > curDoc
<1> DEFINE c == order[i]
           d == curDoc
           essential == i > nonEssential
<1>1. /\ c \in 1..n /\ pos[c] \in Nat /\ pos[c] <= NumDocs /\ d \in Nat /\ d \in 0..NumDocs
      /\ d + 1 \in 0..NumDocs /\ nonEssential \in Nat /\ i \in Nat
  BY Known, InLoopIs
<1>2. pos'[c] = IF essential
                THEN IF pos[c] = d THEN NextFrom(cursors[c], pos[c]) ELSE pos[c]
                ELSE IF i \in looked THEN NextGeq(cursors[c], pos[c], d) ELSE pos[c]
  <2>1. (nonEssential + 1)..n \subseteq 1..n
    BY <1>1
  <2>2. i \in (nonEssential + 1)..n <=> essential
    BY <1>1, Known
  <2>3. /\ (\E j \in (nonEssential + 1)..n : order[j] = order[i]) <=> essential
        /\ (\E j \in looked : order[j] = order[i]) <=> i \in looked
    BY <2>1, <2>2, PlaceAmong
  <2> QED  BY <1>1, <2>3 DEF MovePostings
<1>3. Posted(cursors[c]) \subseteq Docs /\ \A e \in Posted(cursors[c]) : e \in Nat
  BY <1>1, Known, CallIsQuery DEF PlacesInv
<1>4. pos[c] < NumDocs => pos[c] \in Posted(cursors[c])
  BY <1>1 DEF PlacesInv, OnPostings
<1>5. \A e \in Posted(cursors[c]) : d <= e => pos[c] <= e
  BY <1>1 DEF PlacesInv, NothingJumped
<1>6. essential => pos[c] >= d
  <2>1. essential => i \in (nonEssential + 1)..n
    BY <1>1, Known
  <2> QED  BY <2>1, InLoopIs DEF PlacesInv, EssentialReached
<1> HIDE DEF c, d, essential
<1>7. pos[c] \in 0..NumDocs
  BY <1>1, NumDocsAssumption
<1>8. CASE essential /\ pos[c] = d
  <2>1. pos'[c] = FirstGeq(cursors[c], d + 1)
    BY <1>2, <1>8 DEF NextFrom
  <2>2. /\ pos'[c] \in 0..NumDocs /\ pos'[c] >= d + 1
        /\ pos'[c] < NumDocs => pos'[c] \in Posted(cursors[c])
        /\ \A e \in Posted(cursors[c]) : d + 1 <= e => pos'[c] <= e
    BY <1>1, <1>3, <2>1, FirstGeqIsNext
  <2>3. \A e \in Posted(cursors[c]) : d < e => d + 1 <= e
    BY <1>1, <1>3
  <2>4. pos'[c] > d
    BY <1>1, <2>2, NumDocsAssumption
  <2> QED  BY <2>2, <2>3, <2>4 DEF c, d
<1>9. CASE ~ essential /\ i \in looked /\ pos[c] < d
  <2>1. pos'[c] = FirstGeq(cursors[c], d)
    BY <1>1, <1>2, <1>9 DEF NextGeq
  <2>2. /\ pos'[c] \in 0..NumDocs
        /\ pos'[c] < NumDocs => pos'[c] \in Posted(cursors[c])
        /\ \A e \in Posted(cursors[c]) : d <= e => pos'[c] <= e
    BY <1>1, <1>3, <2>1, FirstGeqIsNext
  <2>3. \A e \in Posted(cursors[c]) : d < e => d <= e
    BY <1>1, <1>3
  <2> QED  BY <1>1, <1>9, <2>2, <2>3 DEF c, d, essential
<1>10. CASE ~ (essential /\ pos[c] = d) /\ ~ (~ essential /\ i \in looked /\ pos[c] < d)
  <2>1. pos'[c] = pos[c]
    BY <1>1, <1>2, <1>10 DEF NextGeq
  <2>2. \A e \in Posted(cursors[c]) : d < e => pos[c] <= e
    BY <1>1, <1>3, <1>5
  <2>3. essential => pos[c] > d
    BY <1>1, <1>6, <1>10
  <2> QED  BY <1>4, <1>7, <2>1, <2>2, <2>3 DEF c, d, essential
<1> QED  BY <1>8, <1>9, <1>10

\* What the cursors are after a document was considered.
Moved ==
  /\ curDoc' \in 0..NumDocs
  /\ curDoc < curDoc'
  /\ pos' \in [1..n -> 0..NumDocs]
  /\ \A c \in 1..n : /\ pos'[c] < NumDocs => pos'[c] \in Posted(cursors[c])
                     /\ \A e \in Posted(cursors[c]) : curDoc' <= e => pos'[c] <= e
  /\ \A i \in (nonEssential + 1)..n : curDoc' <= pos'[order[i]]
  /\ \A e \in Docs : curDoc < e /\ e < curDoc'
       => \A i \in (nonEssential + 1)..n : e \notin Posted(cursors[order[i]])

LEMMA CursorsMoved ==
  ASSUME PlacesInv, InLoop, NEW looked, looked \subseteq 1..n, MovePostings(looked)
  PROVE  Moved
<1> DEFINE S == {pos'[order[i]] : i \in (nonEssential + 1)..n} \cup {NumDocs}
<1>1. curDoc' = Earliest(S)
  BY DEF MovePostings
<1>2. ASSUME NEW i \in 1..n
      PROVE  /\ pos'[order[i]] \in 0..NumDocs
             /\ pos'[order[i]] < NumDocs => pos'[order[i]] \in Posted(cursors[order[i]])
             /\ \A e \in Posted(cursors[order[i]]) : curDoc < e => pos'[order[i]] <= e
             /\ i > nonEssential => pos'[order[i]] > curDoc
  BY MovedPosting
<1>3. /\ curDoc \in Nat /\ NumDocs \in Nat /\ curDoc < NumDocs
      /\ \A i \in (nonEssential + 1)..n : i \in 1..n /\ i > nonEssential
  BY Known, InLoopIs, NumDocsAssumption
<1>4. S \subseteq 0..NumDocs /\ NumDocs \in S
  BY <1>2, <1>3
<1>5. \A p \in S : p > curDoc
  BY <1>2, <1>3
<1>6. \A i \in (nonEssential + 1)..n : pos'[order[i]] \in S
  OBVIOUS
<1> HIDE DEF S
<1>7. curDoc' \in S /\ \A p \in S : curDoc' <= p
  <2>1. S \subseteq Nat
    BY <1>4
  <2> QED  BY <1>1, <1>4, <2>1, EarliestIsLeast
<1>8. curDoc' \in 0..NumDocs /\ curDoc < curDoc' /\ curDoc' \in Nat
  BY <1>3, <1>4, <1>5, <1>7
<1>9. \A i \in (nonEssential + 1)..n : curDoc' <= pos'[order[i]]
  BY <1>6, <1>7
<1>10. ASSUME NEW c \in 1..n
       PROVE  /\ pos'[c] \in 0..NumDocs
              /\ pos'[c] < NumDocs => pos'[c] \in Posted(cursors[c])
              /\ \A e \in Posted(cursors[c]) : curDoc < e => pos'[c] <= e
  <2>1. PICK i \in 1..n : order[i] = c
    BY PlaceExists
  <2> QED  BY <1>2, <2>1
<1>11. ASSUME NEW c \in 1..n, NEW e \in Posted(cursors[c]), curDoc' <= e PROVE pos'[c] <= e
  <2>1. e \in Nat
    BY Known, CallIsQuery DEF PlacesInv
  <2>2. curDoc < e
    BY <1>3, <1>8, <1>11, <2>1
  <2> QED  BY <1>10, <2>2
<1>12. pos' \in [1..n -> 0..NumDocs]
  BY <1>10 DEF MovePostings
<1>13. ASSUME NEW e \in Docs, curDoc < e, e < curDoc', NEW i \in (nonEssential + 1)..n,
              e \in Posted(cursors[order[i]])
       PROVE  FALSE
  <2>1. pos'[order[i]] <= e /\ pos'[order[i]] \in 0..NumDocs
    BY <1>2, <1>3, <1>13
  <2>2. curDoc' <= pos'[order[i]] /\ e \in Nat /\ pos'[order[i]] \in Nat
    BY <1>9, <2>1, Known, NumDocsAssumption
  <2> QED  BY <1>8, <1>13, <2>1, <2>2
<1> QED  BY <1>8, <1>9, <1>10, <1>11, <1>12, <1>13 DEF Moved

\* The block enumerators are still behind the next document.
LEMMA BlocksMoved ==
  ASSUME PlacesInv, curDoc' \in 0..NumDocs, curDoc < curDoc', NEW i, MoveBlocks(i), UNCHANGED call
  PROVE  BlocksBehind' /\ block' \in [1..n -> Nat]
<1>1. UNCHANGED n
  BY DEF n, cursors
<1>2. ASSUME NEW c \in 1..n
      PROVE  /\ block'[c] \in 1..Len(call.blocks[c])
             /\ \A b \in 1..(block'[c] - 1) : call.blocks[c][b].last < curDoc'
  <2>1. block'[c] = BlockGeq(c) \/ block'[c] = block[c]
    BY DEF MoveBlocks
  <2>2. /\ block'[c] \in 1..Len(call.blocks[c])
        /\ \A b \in 1..(block'[c] - 1) : call.blocks[c][b].last < curDoc
    BY <2>1, BlockGeqIs DEF PlacesInv, BlocksBehind
  <2>3. \A b \in 1..(block'[c] - 1) : call.blocks[c][b].last \in Nat
    <3>1. \A b \in 1..(block'[c] - 1) : b \in 1..Len(call.blocks[c])
      <4>1. Len(call.blocks[c]) \in Nat
        BY CallIsQuery DEF PlacesInv, BlocksHold
      <4> QED  BY <2>2, <4>1
    <3> QED  BY <3>1, CallIsQuery DEF PlacesInv, BlocksHold
  <2>4. curDoc \in Nat /\ curDoc' \in Nat
    BY Known, NumDocsAssumption
  <2> QED  BY <2>2, <2>3, <2>4
<1>3. \A c \in 1..n : block'[c] \in Nat
  BY <1>2, CallIsQuery DEF PlacesInv, BlocksHold
<1> QED  BY <1>1, <1>2, <1>3 DEF BlocksBehind, MoveBlocks

-----------------------------------------------------------------------------
(* Scores and their bounds.                                                *)

Maxes == [j \in 1..n |-> cursors[order[j]].max]
BlockMaxes == [j \in 1..n |-> BlockMaxAt(j)]
PartAt(d) == [i \in 1..n |-> Contribution(cursors, d)[order[i]]]

\* A document scores in each list no more than the bound of the list.
LEMMA PartWithinMax ==
  ASSUME PlacesInv, NEW d
  PROVE  /\ NatsTo(PartAt(d), n) /\ NatsTo(Maxes, n)
         /\ NatsTo(Contribution(cursors, d), n)
         /\ \A i \in 1..n : /\ PartAt(d)[i] <= Maxes[i]
                            /\ PartAt(d)[i] = Contribution(cursors, d)[order[i]]
                            /\ d \notin Posted(cursors[order[i]]) => PartAt(d)[i] = 0
<1>1. /\ n = Len(cursors) /\ Len(cursors) \in Nat
      /\ \A i \in 1..n : order[i] \in 1..n /\ IsCursor(cursors[i])
  BY CallIsQuery, Known DEF PlacesInv
<1>2. /\ NatsTo(Contribution(cursors, d), n)
      /\ \A c \in 1..n : /\ Contribution(cursors, d)[c] <= cursors[c].max
                         /\ d \notin Posted(cursors[c]) => Contribution(cursors, d)[c] = 0
  BY <1>1, ContributionNat
<1>3. \A i \in 1..n : /\ Maxes[i] = cursors[order[i]].max /\ cursors[order[i]].max \in Nat
                      /\ PartAt(d)[i] = Contribution(cursors, d)[order[i]]
  BY <1>1 DEF Maxes, PartAt, IsCursor
<1> QED  BY <1>1, <1>2, <1>3 DEF NatsTo

\* The document considered scores in each list no more than its block there.
LEMMA PartWithinBlock ==
  ASSUME PlacesInv
  PROVE  /\ NatsTo(BlockMaxes, n)
         /\ \A i \in 1..n : PartAt(curDoc)[i] <= BlockMaxes[i]
<1> SUFFICES ASSUME NEW i \in 1..n
             PROVE  BlockMaxes[i] \in Nat /\ PartAt(curDoc)[i] <= BlockMaxes[i]
  BY DEF NatsTo
<1> DEFINE c == order[i]
           b == BlockGeq(c)
<1>1. c \in 1..n /\ curDoc \in Nat
  BY Known
<1>2. /\ b \in 1..Len(call.blocks[c])
      /\ b = Len(call.blocks[c]) \/ call.blocks[c][b].last >= curDoc
      /\ \A a \in 1..(b - 1) : call.blocks[c][a].last < curDoc
  BY <1>1, BlockGeqIs
<1>3. BlocksHold(cursors[c], call.blocks[c]) /\ IsCursor(cursors[c])
  BY <1>1, CallIsQuery DEF PlacesInv
<1>4. BlockMaxes[i] = call.blocks[c][b].max
  BY DEF BlockMaxes, BlockMaxAt
<1> HIDE DEF b, c
<1>5. call.blocks[c][b].max \in Nat /\ call.blocks[c][b].last \in Nat
  BY <1>2, <1>3 DEF BlocksHold
<1>6. CASE curDoc \in Posted(cursors[c])
  <2>1. cursors[c].post[curDoc] <= call.blocks[c][b].max
    <3>1. b = Len(call.blocks[c]) \/ curDoc <= call.blocks[c][b].last
      BY <1>1, <1>2, <1>5
    <3> QED  BY <1>2, <1>3, <1>6, <3>1 DEF BlocksHold
  <2>2. PartAt(curDoc)[i] = cursors[c].post[curDoc]
    <3>1. PartAt(curDoc)[i] = Contribution(cursors, curDoc)[c]
      BY PartWithinMax DEF c
    <3>2. Contribution(cursors, curDoc)[c] = cursors[c].post[curDoc]
      BY <1>1, <1>6, CallIsQuery DEF Contribution, PlacesInv
    <3> QED  BY <3>1, <3>2
  <2> QED  BY <1>4, <1>5, <2>1, <2>2
<1>7. CASE curDoc \notin Posted(cursors[c])
  <2>1. PartAt(curDoc)[i] = 0
    BY <1>7, PartWithinMax DEF c
  <2> QED  BY <1>4, <1>5, <2>1
<1> QED  BY <1>6, <1>7

\* The bound of the first lists covers what a document scores in them.
LEMMA UpperBoundCovers ==
  ASSUME PlacesInv, NEW l \in 0..n, NEW d
  PROVE  /\ UpperBound(l) \in Nat
         /\ UpperBound(l) = SumOver(Maxes, 1..l, n)
         /\ SumOver(PartAt(d), 1..l, n) <= UpperBound(l)
<1>1. n \in Nat /\ NatsTo(PartAt(d), n) /\ NatsTo(Maxes, n) /\ \A i \in 1..n : PartAt(d)[i] <= Maxes[i]
  BY PartWithinMax, Known
<1>2. UpperBound(l) = SumOver(Maxes, 1..l, n)
  <2>1. SumOver(Maxes, 1..l, n) = SumTo(Maxes, l)
    BY <1>1, SumOverFirst
  <2> QED  BY <2>1 DEF UpperBound, Maxes
<1>3. SumOver(Maxes, 1..l, n) \in Nat
  BY <1>1, SumOverNat
<1>4. \A i \in 1..n : i \in 1..l => IF i \in 1..l THEN PartAt(d)[i] <= Maxes[i] ELSE PartAt(d)[i] = 0
  BY <1>1
<1>5. SumOver(PartAt(d), 1..l, n) <= SumOver(Maxes, 1..l, n)
  BY <1>1, <1>4, SumOverMonotone
<1> QED  BY <1>2, <1>3, <1>5

\* The bound of more lists is no smaller.
LEMMA UpperBoundsGrow ==
  ASSUME PlacesInv, NEW l \in 0..n, NEW m \in 0..n, l <= m
  PROVE  UpperBound(l) <= UpperBound(m)
<1>1. n \in Nat /\ NatsTo(Maxes, n)
  BY PartWithinMax, Known
<1>2. UpperBound(l) = SumOver(Maxes, 1..l, n) /\ UpperBound(m) = SumOver(Maxes, 1..m, n)
  BY UpperBoundCovers
<1>3. \A i \in 1..n : i \in 1..l => IF i \in 1..m THEN Maxes[i] <= Maxes[i] ELSE Maxes[i] = 0
  BY <1>1 DEF NatsTo
<1>4. SumOver(Maxes, 1..l, n) <= SumOver(Maxes, 1..m, n)
  BY <1>1, <1>3, SumOverMonotone
<1> QED  BY <1>2, <1>4

\* What a document scores in the lists at the first and at the other places.
LEMMA ScoreInParts ==
  ASSUME PlacesInv, NEW d, NEW l \in 0..n
  PROVE  /\ FullScore(cursors, d) = SumOver(PartAt(d), 1..l, n) + SumOver(PartAt(d), (l + 1)..n, n)
         /\ FullScore(cursors, d) \in Nat
         /\ SumOver(PartAt(d), 1..l, n) \in Nat
         /\ SumOver(PartAt(d), (l + 1)..n, n) \in Nat
<1> DEFINE f == Contribution(cursors, d)
           g == PartAt(d)
           all == {order[j] : j \in 1..n}
<1>1. /\ n \in Nat /\ n = Len(cursors) /\ Len(cursors) \in Nat
      /\ \A c \in 1..Len(cursors) : IsCursor(cursors[c])
      /\ NatsTo(f, n) /\ NatsTo(g, n) /\ IsOrder(n, order)
  BY CallIsQuery, PartWithinMax DEF PlacesInv
<1>2. \A c \in 1..n : c \in all
  BY PlaceExists
<1>3. SumOver(f, all, n) = FullScore(cursors, d) /\ FullScore(cursors, d) \in Nat
  <2> HIDE DEF all
  <2> QED  BY <1>1, <1>2, FullScoreOver
<1>4. SumOver(g, 1..n, n) = SumOver(f, all, n)
  <2>1. \A T : T \subseteq 1..n => SumOver([j \in 1..n |-> f[order[j]]], T, n) = SumOver(f, {order[j] : j \in T}, n)
    <3> HIDE DEF f
    <3> QED  BY <1>1, SumOverPlaces
  <2>2. g = [j \in 1..n |-> f[order[j]]]
    BY DEF PartAt
  <2> QED  BY <2>1, <2>2
<1> HIDE DEF f, g, all
<1>5. n \in Nat /\ NatsTo(g, n) /\ n \in 0..n
  BY <1>1
<1>6. SumOver(g, 1..n, n) = SumOver(g, 1..l, n) + SumOver(g, (l + 1)..n, n)
  BY <1>5, SumOverSplit
<1>7. SumOver(g, 1..l, n) \in Nat /\ SumOver(g, (l + 1)..n, n) \in Nat
  BY <1>1, SumOverNat
<1> QED  BY <1>3, <1>4, <1>6, <1>7 DEF g

\* The score in the essential lists and that in the others are the full score.
LEMMA EssentialScoreIs ==
  ASSUME PlacesInv, InLoop
  PROVE  /\ EssentialScore \in Nat
         /\ SumOver(PartAt(curDoc), 1..nonEssential, n) \in Nat
         /\ FullScore(cursors, curDoc) = EssentialScore + SumOver(PartAt(curDoc), 1..nonEssential, n)
         /\ FullScore(cursors, curDoc) \in Nat
<1> DEFINE E == {i \in (nonEssential + 1)..n : pos[order[i]] = curDoc}
           g == PartAt(curDoc)
<1>1. n \in Nat /\ NatsTo(g, n) /\ nonEssential \in 0..n
  BY PartWithinMax, Known
<1>2. EssentialScore = SumOver(g, E, n)
  BY DEF EssentialScore, Part, PartAt
<1>3. ASSUME NEW i \in (nonEssential + 1)..n, i \notin E PROVE g[i] = 0
  <2>1. i \in 1..n /\ order[i] \in 1..n /\ pos[order[i]] \in Nat /\ curDoc \in Nat
    BY <1>1, Known
  <2>2. pos[order[i]] # curDoc /\ pos[order[i]] >= curDoc
    BY <1>3, InLoopIs DEF PlacesInv, EssentialReached
  <2>3. ~ (pos[order[i]] <= curDoc) /\ curDoc <= curDoc
    BY <2>1, <2>2
  <2>4. curDoc \notin Posted(cursors[order[i]])
    BY <2>1, <2>3 DEF PlacesInv, NothingJumped
  <2> QED  BY <2>1, <2>4, PartWithinMax
<1>4. \A i \in E : i \in (nonEssential + 1)..n
  OBVIOUS
<1> HIDE DEF E, g
<1>5. \A i \in 1..n : (IF i \in E THEN g[i] ELSE 0) = (IF i \in (nonEssential + 1)..n THEN g[i] ELSE 0)
  BY <1>3, <1>4
<1>6. SumOver(g, E, n) = SumOver(g, (nonEssential + 1)..n, n)
  BY <1>1, <1>5, SumOverSame
<1> QED  BY <1>1, <1>2, <1>6, ScoreInParts DEF g

\* What the lists that are not essential can add, with blocks in the place of lists.
LEMMA BlockBoundCovers ==
  ASSUME PlacesInv, NEW i \in 1..(nonEssential + 1)
  PROVE  /\ BlockBound(i) \in Nat
         /\ SumOver(PartAt(curDoc), 1..nonEssential, n) <= BlockBound(i)
<1> DEFINE g == PartAt(curDoc)
           m == nonEssential
           l == i - 1
<1>1. /\ n \in Nat /\ NatsTo(g, n) /\ NatsTo(BlockMaxes, n) /\ m \in 0..n /\ l \in 0..n /\ l \in 0..m
      /\ l + 1 = i
  BY PartWithinMax, PartWithinBlock, Known
<1>2. UpperBound(l) \in Nat /\ SumOver(g, 1..l, n) <= UpperBound(l)
  BY <1>1, UpperBoundCovers
<1>3. \A j \in 1..n : j \in i..m => IF j \in i..m THEN g[j] <= BlockMaxes[j] ELSE g[j] = 0
  BY PartWithinBlock
<1>4. BlockBound(i) = UpperBound(l) + SumOver(BlockMaxes, i..m, n)
  BY DEF BlockBound, BlockMaxes
<1> HIDE DEF g, m, l
<1>5. SumOver(g, i..m, n) <= SumOver(BlockMaxes, i..m, n)
  BY <1>1, <1>3, SumOverMonotone
<1>6. SumOver(g, 1..m, n) = SumOver(g, 1..l, n) + SumOver(g, (l + 1)..m, n)
  BY <1>1, SumOverSplit
<1>7. /\ SumOver(g, 1..l, n) \in Nat /\ SumOver(g, i..m, n) \in Nat
      /\ SumOver(BlockMaxes, i..m, n) \in Nat
  BY <1>1, SumOverNat
<1> QED  BY <1>1, <1>2, <1>4, <1>5, <1>6, <1>7 DEF g, m

\* And when some of them are looked up; after the last lookup it is what they score.
LEMMA LookupBoundCovers ==
  ASSUME PlacesInv, NEW i \in 1..(nonEssential + 1)
  PROVE  /\ LookupBound(i) \in Nat
         /\ SumOver(PartAt(curDoc), 1..nonEssential, n) <= LookupBound(i)
         /\ i = 1 => LookupBound(i) = SumOver(PartAt(curDoc), 1..nonEssential, n)
<1> DEFINE g == PartAt(curDoc)
           m == nonEssential
           l == i - 1
<1>1. /\ n \in Nat /\ NatsTo(g, n) /\ NatsTo(BlockMaxes, n) /\ m \in 0..n /\ l \in 0..m
      /\ l + 1 = i /\ (i = 1 => 1..l = {})
  BY PartWithinMax, PartWithinBlock, Known
<1>2. \A j \in 1..n : j \in 1..l => IF j \in 1..l THEN g[j] <= BlockMaxes[j] ELSE g[j] = 0
  BY PartWithinBlock
<1>3. LookupBound(i) = SumOver(BlockMaxes, 1..l, n) + SumOver(g, i..m, n)
  BY DEF LookupBound, BlockMaxes, Part, PartAt
<1> HIDE DEF g, m, l
<1>4. SumOver(g, 1..l, n) <= SumOver(BlockMaxes, 1..l, n)
  BY <1>1, <1>2, SumOverMonotone
<1>5. SumOver(g, 1..m, n) = SumOver(g, 1..l, n) + SumOver(g, (l + 1)..m, n)
  BY <1>1, SumOverSplit
<1>6. /\ SumOver(g, 1..l, n) \in Nat /\ SumOver(g, i..m, n) \in Nat
      /\ SumOver(BlockMaxes, 1..l, n) \in Nat
  BY <1>1, SumOverNat
<1>7. SumOver(g, {}, n) = 0 /\ SumOver(BlockMaxes, {}, n) = 0
  BY <1>1, SumOverEmpty
<1> QED  BY <1>1, <1>3, <1>4, <1>5, <1>6, <1>7 DEF g, m

\* The refinement ends at the first place, or where the document cannot enter.
LEMMA StoppedIs ==
  ASSUME nonEssential \in Nat, NEW bound
  PROVE  /\ Stopped(bound) \in 1..(nonEssential + 1)
         /\ \/ Stopped(bound) = 1
            \/ /\ Stopped(bound) \in 1..nonEssential
               /\ ~ WouldEnter(EssentialScore + bound[Stopped(bound)])
<1> DEFINE hopeless == {i \in 1..nonEssential : ~ WouldEnter(EssentialScore + bound[i])}
           i == Stopped(bound)
<1>1. i = CHOOSE k \in hopeless \cup {1} : \A j \in hopeless : j <= k
  BY DEF Stopped
<1>2. \E k \in hopeless \cup {1} : \A j \in hopeless : j <= k
  <2>1. CASE hopeless = {}
    BY <2>1
  <2>2. CASE hopeless # {}
    <3>1. hopeless \subseteq 0..nonEssential
      OBVIOUS
    <3> HIDE DEF hopeless
    <3>2. \E k \in hopeless : \A j \in hopeless : j <= k
      BY <2>2, <3>1, GreatestNat
    <3> QED  BY <3>2
  <2> QED  BY <2>1, <2>2
<1>3. i \in hopeless \cup {1}
  <2> HIDE DEF hopeless
  <2> QED  BY <1>1, <1>2
<1> QED  BY <1>3

-----------------------------------------------------------------------------
(* The lists that are given up.                                            *)

\* The bound of the lists given up cannot beat threshold t.
GivenUp(l, t) == UpperBound(l) <= t

\* A document of no other list cannot beat it either.
LEMMA GivenUpCannotEnter ==
  ASSUME PlacesInv, NEW l \in 0..n, NEW t \in Nat, GivenUp(l, t), NEW d \in Docs,
         \A i \in (l + 1)..n : d \notin Posted(cursors[order[i]])
  PROVE  FullScore(cursors, d) <= t
<1> DEFINE g == PartAt(d)
<1>1. n \in Nat /\ NatsTo(g, n)
  BY PartWithinMax, Known
<1>2. \A i \in 1..n : i \in (l + 1)..n => g[i] = 0
  BY PartWithinMax
<1>3. /\ FullScore(cursors, d) = SumOver(g, 1..l, n) + SumOver(g, (l + 1)..n, n)
      /\ SumOver(g, 1..l, n) \in Nat
  BY ScoreInParts
<1>4. SumOver(g, 1..l, n) <= UpperBound(l) /\ UpperBound(l) \in Nat
  BY UpperBoundCovers
<1> HIDE DEF g
<1>5. \A i \in 1..n : (IF i \in (l + 1)..n THEN g[i] ELSE 0) = (IF i \in {} THEN g[i] ELSE 0)
  BY <1>2
<1>6. SumOver(g, (l + 1)..n, n) = SumOver(g, {}, n)
  BY <1>1, <1>5, SumOverSame
<1>7. SumOver(g, {}, n) = 0
  BY <1>1, SumOverEmpty
<1> QED  BY <1>3, <1>4, <1>6, <1>7 DEF GivenUp

\* The places given up for a threshold are the first ones, up to some place.
LEMMA SurrenderedIsPrefix ==
  ASSUME PlacesInv, NEW t \in Nat, GivenUp(nonEssential, t)
  PROVE  \E m \in nonEssential..n : 1..nonEssential \cup Surrendered(t) = 1..m /\ GivenUp(m, t)
<1> DEFINE S == {m \in nonEssential..n : UpperBound(m) <= t}
<1>1. n \in Nat /\ nonEssential \in 0..n /\ nonEssential \in nonEssential..n /\ nonEssential \in S
  BY Known DEF GivenUp
<1>2. S \subseteq 0..n
  BY <1>1
<1>3. PICK m \in S : \A k \in S : k <= m
  <2> HIDE DEF S
  <2> QED  BY <1>1, <1>2, GreatestNat
<1>4. m \in nonEssential..n /\ UpperBound(m) <= t /\ m \in 0..n /\ m \in Nat
  BY <1>1
<1>5. ASSUME NEW i \in 1..m PROVE i \in Surrendered(t)
  <2>1. i \in 1..n /\ i \in 0..n /\ i <= m
    BY <1>1, <1>4
  <2>2. UpperBound(i) <= UpperBound(m) /\ UpperBound(i) \in Nat /\ UpperBound(m) \in Nat
    BY <1>4, <2>1, UpperBoundsGrow, UpperBoundCovers
  <2> QED  BY <1>4, <2>1, <2>2 DEF Surrendered
<1>6. ASSUME NEW i \in Surrendered(t) PROVE i \in 1..m
  <2>1. i \in 1..n /\ UpperBound(i) <= t
    BY DEF Surrendered
  <2>2. CASE i < nonEssential
    BY <1>1, <1>4, <2>1, <2>2
  <2>3. CASE i >= nonEssential
    <3>1. i \in S
      BY <1>1, <2>1, <2>3
    <3> QED  BY <1>3, <1>4, <2>1, <3>1
  <2> QED  BY <1>1, <2>1, <2>2, <2>3
<1>7. \A i \in 1..nonEssential : i \in 1..m
  BY <1>1, <1>4
<1> QED  BY <1>4, <1>5, <1>6, <1>7 DEF GivenUp

\* The lists given up after an insertion.
LEMMA GiveUpIs ==
  ASSUME PlacesInv, NEW score, GiveUp(score), threshold' \in Nat, threshold' >= threshold,
         GivenUp(nonEssential, threshold)
  PROVE  nonEssential' \in nonEssential..n /\ GivenUp(nonEssential', threshold')
<1>1. nonEssential \in 0..n /\ threshold \in Nat /\ UpperBound(nonEssential) \in Nat /\ n \in Nat
  BY Known, UpperBoundCovers
<1>2. GivenUp(nonEssential, threshold') /\ nonEssential \in nonEssential..n
  BY <1>1 DEF GivenUp
<1>3. CASE ~ WouldEnter(score)
  BY <1>2, <1>3 DEF GiveUp
<1>4. CASE WouldEnter(score)
  <2>1. PICK m \in nonEssential..n :
          1..nonEssential \cup Surrendered(threshold') = 1..m /\ GivenUp(m, threshold')
    BY <1>2, SurrenderedIsPrefix
  <2>2. m \in Nat
    BY <1>1
  <2>3. Cardinality(1..m) = m
    BY <2>2, FS_Interval
  <2>4. nonEssential' = m
    BY <1>4, <2>1, <2>3 DEF GiveUp
  <2> QED  BY <2>1, <2>4
<1> QED  BY <1>3, <1>4

-----------------------------------------------------------------------------
(* What a turn of the loop comes to: the document considered is offered with its    *)
(* full score, or cannot enter.                                                     *)

Considered ==
  /\ Moved
  /\ BlocksBehind' /\ block' \in [1..n -> Nat]
  /\ \/ FullScore(cursors, curDoc) <= threshold /\ UNCHANGED <<heap, threshold, nonEssential>>
     \/ Insert(FullScore(cursors, curDoc), curDoc) /\ GiveUp(FullScore(cursors, curDoc))
  /\ UNCHANGED <<call, order, pc, floor>>

\* What cannot enter is not inserted.
LEMMA CannotEnter ==
  ASSUME PlacesInv, NEW score, Insert(score, curDoc), GiveUp(score), ~ WouldEnter(score)
  PROVE  UNCHANGED <<heap, threshold, nonEssential>>
BY DEF Insert, Reject, Push, PushPop, GiveUp, queueVars

\* When the blocks show that the document cannot enter, neither can what it scores in
\* the essential lists.
LEMMA RejectConsiders ==
  ASSUME PlacesInv, RejectByBlocks
  PROVE  InLoop /\ Considered
<1> DEFINE i == BlocksStop
<1>1. /\ InLoop /\ ~ WouldEnter(EssentialScore + BlockBound(i)) /\ MoveBlocks(i) /\ MovePostings({})
      /\ Insert(EssentialScore, curDoc) /\ GiveUp(EssentialScore)
      /\ UNCHANGED <<call, order, pc, floor>>
  BY DEF RejectByBlocks
<1>2. i \in 1..(nonEssential + 1)
  <2>1. nonEssential \in Nat
    BY Known
  <2> QED  BY <2>1, StoppedIs DEF BlocksStop
<1> HIDE DEF i
<1>3. Moved
  BY <1>1, CursorsMoved
<1>4. BlocksBehind' /\ block' \in [1..n -> Nat]
  BY <1>1, <1>3, BlocksMoved DEF Moved
<1>5. /\ BlockBound(i) \in Nat
      /\ SumOver(PartAt(curDoc), 1..nonEssential, n) <= BlockBound(i)
  BY <1>2, BlockBoundCovers
<1>6. /\ EssentialScore \in Nat
      /\ SumOver(PartAt(curDoc), 1..nonEssential, n) \in Nat
      /\ FullScore(cursors, curDoc) = EssentialScore + SumOver(PartAt(curDoc), 1..nonEssential, n)
      /\ threshold \in Nat
  BY <1>1, EssentialScoreIs, Known
<1>7. ~ (EssentialScore + BlockBound(i) > threshold)
  BY <1>1 DEF WouldEnter
<1>8. FullScore(cursors, curDoc) <= threshold /\ ~ (EssentialScore > threshold)
  BY <1>5, <1>6, <1>7
<1>9. UNCHANGED <<heap, threshold, nonEssential>>
  <2>1. ~ WouldEnter(EssentialScore)
    BY <1>8 DEF WouldEnter
  <2> QED  BY <1>1, <2>1, CannotEnter
<1> QED  BY <1>1, <1>3, <1>4, <1>8, <1>9 DEF Considered

\* The bound that is left after the last lookup is the score; one that cannot enter
\* before that shows that the document cannot.
LEMMA LookUpConsiders ==
  ASSUME PlacesInv, LookUp
  PROVE  InLoop /\ Considered
<1> DEFINE i == LookupStop
           score == EssentialScore + LookupBound(i)
<1>1. /\ InLoop /\ MoveBlocks(1) /\ MovePostings(i..nonEssential)
      /\ Insert(score, curDoc) /\ GiveUp(score)
      /\ UNCHANGED <<call, order, pc, floor>>
  BY DEF LookUp
<1>2. /\ i \in 1..(nonEssential + 1)
      /\ \/ i = 1
         \/ ~ WouldEnter(score)
  <2> DEFINE bound == [k \in 1..nonEssential |-> LookupBound(k)]
  <2>1. nonEssential \in Nat /\ i = Stopped(bound)
    BY Known DEF LookupStop
  <2>2. i \in 1..nonEssential => bound[i] = LookupBound(i)
    OBVIOUS
  <2> HIDE DEF bound, i
  <2>3. /\ i \in 1..(nonEssential + 1)
        /\ \/ i = 1
           \/ i \in 1..nonEssential /\ ~ WouldEnter(EssentialScore + bound[i])
    BY <2>1, StoppedIs
  <2> QED  BY <2>2, <2>3
<1> HIDE DEF i
<1>3. i..nonEssential \subseteq 1..n
  BY <1>2, Known
<1>4. Moved
  BY <1>1, <1>3, CursorsMoved
<1>5. BlocksBehind' /\ block' \in [1..n -> Nat]
  BY <1>1, <1>4, BlocksMoved DEF Moved
<1>6. /\ LookupBound(i) \in Nat
      /\ SumOver(PartAt(curDoc), 1..nonEssential, n) <= LookupBound(i)
      /\ i = 1 => LookupBound(i) = SumOver(PartAt(curDoc), 1..nonEssential, n)
  BY <1>2, LookupBoundCovers
<1>7. /\ EssentialScore \in Nat
      /\ SumOver(PartAt(curDoc), 1..nonEssential, n) \in Nat
      /\ FullScore(cursors, curDoc) = EssentialScore + SumOver(PartAt(curDoc), 1..nonEssential, n)
      /\ threshold \in Nat
  BY <1>1, EssentialScoreIs, Known
<1>8. CASE i = 1
  <2>1. score = FullScore(cursors, curDoc)
    BY <1>6, <1>7, <1>8
  <2> QED  BY <1>1, <1>4, <1>5, <2>1 DEF Considered
<1>9. CASE ~ WouldEnter(score)
  <2>1. ~ (score > threshold)
    BY <1>9 DEF WouldEnter
  <2>2. FullScore(cursors, curDoc) <= threshold
    BY <1>6, <1>7, <2>1
  <2> HIDE DEF score
  <2>3. UNCHANGED <<heap, threshold, nonEssential>>
    BY <1>1, <1>9, CannotEnter
  <2> QED  BY <1>1, <1>4, <1>5, <2>2, <2>3 DEF Considered
<1> QED  BY <1>2, <1>8, <1>9

\* The document considered has no entry yet.
LEMMA InsertPlaces ==
  ASSUME PlacesInv, InLoop, Insert(FullScore(cursors, curDoc), curDoc)
  PROVE  /\ heap' \subseteq Nat \X Docs /\ threshold' \in Nat
         /\ heap' \subseteq heap \cup {<<FullScore(cursors, curDoc), curDoc>>}
         /\ Promise!Insert(FullScore(cursors, curDoc), curDoc)
<1> DEFINE score == FullScore(cursors, curDoc)
<1>1. curDoc \in Docs /\ score \in Nat
  BY InLoopIs, Known
<1>2. Insert(score, curDoc)
  OBVIOUS
<1> HIDE DEF score
<1>3. <<score, curDoc>> \notin heap
  <2>1. ~ (curDoc < curDoc)
    BY Known
  <2> QED  BY <2>1 DEF PlacesInv, Offered
<1>4. Promise!Insert(score, curDoc)
  BY <1>2, SameInsert
<1>5. heap \subseteq Nat \X Docs /\ threshold \in Nat
  BY DEF PlacesInv, TypeOK
<1>6. /\ heap' \subseteq Nat \X Docs /\ threshold' \in Nat
      /\ heap' \subseteq heap \cup {<<score, curDoc>>}
  BY <1>1, <1>3, <1>4, <1>5, Promise!InsertTypes, KAssumption, DocsFinite
<1> QED  BY <1>4, <1>6 DEF score

-----------------------------------------------------------------------------
(* The inductive invariant: block-max MaxScore keeps the promise of a ranked query. *)

BlockMaxInv ==
  /\ PlacesInv
  /\ Promise!RetrievalInv
  /\ pc = "loop" => GivenUp(nonEssential, threshold)

LEMMA StartInv == Init => BlockMaxInv /\ Promise!Init
<1> SUFFICES ASSUME Init PROVE BlockMaxInv /\ Promise!Init
  OBVIOUS
<1>1. PlacesInv
  BY PlacesInit
<1>2. Settled = {}
  <2>1. \A d \in Docs : ~ (d < 0)
    BY NumDocsAssumption DEF Docs
  <2> QED  BY <2>1 DEF Settled, Init
<1>3. Promise!Init
  BY <1>1, <1>2, Known DEF Init, Promise!Init, PlacesInv, TypeOK
<1>4. Promise!RetrievalInv
  BY <1>3, Promise!InitInv, DocsFinite, KAssumption
<1> QED  BY <1>1, <1>3, <1>4 DEF Init, BlockMaxInv

\* The documents between the one considered and the next are in no essential list.
LEMMA PassedOver ==
  ASSUME PlacesInv, GivenUp(nonEssential, threshold), Moved,
         NEW e \in Docs, curDoc < e, e < curDoc'
  PROVE  FullScore(cursors, e) <= threshold
<1>1. nonEssential \in 0..n /\ threshold \in Nat
  BY Known
<1>2. \A i \in (nonEssential + 1)..n : e \notin Posted(cursors[order[i]])
  BY DEF Moved
<1> QED  BY <1>1, <1>2, GivenUpCannotEnter

\* The lists that stay essential after a turn of the loop.
LEMMA ConsideredGivesUp ==
  ASSUME BlockMaxInv, InLoop, Considered
  PROVE  /\ threshold' \in Nat /\ threshold' >= threshold
         /\ heap' \subseteq Nat \X Docs
         /\ \A e \in heap' : e[2] <= curDoc
         /\ nonEssential' \in nonEssential..n
         /\ GivenUp(nonEssential', threshold')
<1>1. /\ PlacesInv /\ Promise!RetrievalInv /\ GivenUp(nonEssential, threshold)
      /\ pc = "loop" /\ curDoc \in Docs
  BY InLoopIs DEF BlockMaxInv
<1>2. /\ threshold \in Nat /\ n \in Nat /\ nonEssential \in Nat /\ nonEssential <= n
      /\ heap \subseteq Nat \X Docs
  BY <1>1, Known DEF PlacesInv, TypeOK
<1>3. \A e \in heap : e[2] <= curDoc
  <2>1. \A e \in heap : e[2] < curDoc /\ e[2] \in Docs
    BY <1>1, <1>2 DEF PlacesInv, Offered
  <2> QED  BY <1>1, <2>1, Known
<1>4. CASE UNCHANGED <<heap, threshold, nonEssential>>
  BY <1>1, <1>2, <1>3, <1>4
<1>5. CASE /\ Insert(FullScore(cursors, curDoc), curDoc)
           /\ GiveUp(FullScore(cursors, curDoc))
  <2>1. /\ heap' \subseteq Nat \X Docs /\ threshold' \in Nat
        /\ heap' \subseteq heap \cup {<<FullScore(cursors, curDoc), curDoc>>}
        /\ Promise!Insert(FullScore(cursors, curDoc), curDoc)
    BY <1>1, <1>5, InsertPlaces
  <2>2. Relevance[curDoc] = FullScore(cursors, curDoc)
    BY <1>1 DEF Relevance
  <2>3. curDoc \notin Settled
    BY <1>1, Known DEF Settled
  <2>4. threshold' >= threshold
    BY <1>1, <2>1, <2>2, <2>3, Promise!InsertRaises, DocsFinite, KAssumption
  <2>5. \A e \in heap' : e[2] <= curDoc
    BY <1>1, <1>3, <2>1, Known
  <2>6. nonEssential' \in nonEssential..n /\ GivenUp(nonEssential', threshold')
    BY <1>1, <1>5, <2>1, <2>4, GiveUpIs
  <2> QED  BY <2>1, <2>4, <2>5, <2>6
<1> QED  BY <1>4, <1>5 DEF Considered

LEMMA ConsideredPlaces ==
  ASSUME BlockMaxInv, InLoop, Considered
  PROVE  PlacesInv' /\ GivenUp(nonEssential, threshold)'
<1>1. /\ PlacesInv /\ pc = "loop" /\ pc' = "loop" /\ Moved
      /\ UNCHANGED <<call, order, floor>> /\ UNCHANGED n /\ UNCHANGED cursors
      /\ BlocksBehind' /\ block' \in [1..n -> Nat]
  BY InLoopIs DEF Considered, BlockMaxInv, n, cursors
<1>2. /\ threshold' \in Nat
      /\ heap' \subseteq Nat \X Docs
      /\ \A e \in heap' : e[2] <= curDoc
      /\ nonEssential' \in nonEssential..n
      /\ GivenUp(nonEssential', threshold')
  BY ConsideredGivesUp
<1>3. OnPostings' /\ NothingJumped'
  BY <1>1 DEF Moved, OnPostings, NothingJumped
<1>4. Offered'
  <2> SUFFICES ASSUME NEW e \in heap' PROVE e[2] < curDoc'
    BY DEF Offered
  <2>1. e[2] \in Docs /\ e[2] <= curDoc /\ curDoc < curDoc' /\ curDoc' \in 0..NumDocs
    BY <1>1, <1>2 DEF Moved
  <2> QED  BY <1>1, <2>1, Known, NumDocsAssumption
<1>5. EssentialReached'
  <2>1. \A i \in (nonEssential' + 1)..n : i \in (nonEssential + 1)..n /\ i \in 1..n
    <3>1. n \in Nat /\ nonEssential \in Nat
      BY <1>1, Known
    <3>2. nonEssential' \in Nat /\ nonEssential <= nonEssential'
      BY <1>2, <3>1
    <3>3. \A m \in Nat : nonEssential <= m => \A i \in (m + 1)..n : i \in (nonEssential + 1)..n /\ i \in 1..n
      BY <3>1
    <3> QED  BY <3>2, <3>3
  <2>2. \A i \in (nonEssential' + 1)..n :
          pos'[order[i]] \in Nat /\ curDoc' \in Nat /\ curDoc' <= pos'[order[i]]
    BY <1>1, <2>1, Known, NumDocsAssumption DEF Moved
  <2> QED  BY <1>1, <2>2 DEF EssentialReached
<1>6. IsOrder(n, order)'
  BY <1>1 DEF PlacesInv, IsOrder
<1>7. TypeOK'
  <2>1. nonEssential' \in 0..n
    BY <1>1, <1>2, Known
  <2>2. pos' \in [1..n -> 0..NumDocs] /\ curDoc' \in 0..NumDocs
    BY <1>1 DEF Moved
  <2> QED  BY <1>1, <1>2, <2>1, <2>2 DEF PlacesInv, TypeOK, BlocksBehind
<1>8. GivenUp(nonEssential, threshold)'
  BY <1>1, <1>2 DEF GivenUp, UpperBound
<1> QED  BY <1>1, <1>3, <1>4, <1>5, <1>6, <1>7, <1>8 DEF PlacesInv

\* A turn of the loop is a step of a ranked retrieval.
LEMMA ConsideredStep ==
  ASSUME BlockMaxInv, InLoop, Considered, UNCHANGED cursors, UNCHANGED Relevance
  PROVE  Promise!Next
<1>1. /\ PlacesInv /\ GivenUp(nonEssential, threshold) /\ pc = "loop" /\ curDoc \in Docs
      /\ pc' = "loop" /\ Moved /\ UNCHANGED floor
  BY InLoopIs DEF Considered, BlockMaxInv
<1>2. /\ Settled = {d \in Docs : d < curDoc}
      /\ Settled' = {d \in Docs : d < curDoc'}
      /\ curDoc \in Nat /\ curDoc' \in Nat /\ curDoc < curDoc'
      /\ threshold \in Nat
      /\ \A d \in Docs : d \in Nat /\ Relevance[d] = FullScore(cursors, d) /\ Relevance[d] \in Nat
  BY <1>1, Known, NumDocsAssumption DEF Settled, Moved
<1>3. ASSUME NEW e \in Settled' \ Settled, e # curDoc PROVE Relevance[e] <= threshold
  <2>1. e \in Docs /\ curDoc < e /\ e < curDoc'
    BY <1>2, <1>3
  <2> QED  BY <1>1, <1>2, <2>1, PassedOver
<1>4. Settled' \subseteq Docs /\ Settled \cup {curDoc} \subseteq Settled' /\ curDoc \notin Settled
  <2>1. \A d \in Docs : d \in Nat /\ (d < curDoc \/ d = curDoc => d < curDoc')
    BY <1>2
  <2>2. ~ (curDoc < curDoc)
    BY <1>2
  <2> QED  BY <1>1, <1>2, <2>1, <2>2
<1>5. CASE FullScore(cursors, curDoc) <= threshold /\ UNCHANGED <<heap, threshold, nonEssential>>
  <2>1. \A e \in Settled' \ Settled : ~ Promise!WouldEnter(Relevance[e])
    <3> SUFFICES ASSUME NEW e \in Settled' \ Settled PROVE ~ (Relevance[e] > threshold)
      BY DEF Promise!WouldEnter
    <3>1. e \in Docs
      BY <1>4
    <3>2. Relevance[e] <= threshold
      BY <1>2, <1>3, <1>5, <3>1
    <3> QED  BY <1>2, <3>1, <3>2
  <2>2. Promise!Skip
    BY <1>1, <1>4, <1>5, <2>1 DEF Promise!Skip
  <2> QED  BY <2>2 DEF Promise!Next
<1>6. CASE /\ Insert(FullScore(cursors, curDoc), curDoc)
           /\ GiveUp(FullScore(cursors, curDoc))
  <2>1. Promise!Insert(Relevance[curDoc], curDoc)
    BY <1>1, <1>2, <1>6, InsertPlaces
  <2>2. threshold' \in Nat /\ threshold' >= threshold
    BY ConsideredGivesUp
  <2>3. \A e \in Settled' \ (Settled \cup {curDoc}) : Relevance[e] <= threshold'
    <3> SUFFICES ASSUME NEW e \in Settled' \ (Settled \cup {curDoc}) PROVE Relevance[e] <= threshold'
      OBVIOUS
    <3>1. e \in Docs /\ e \in Settled' \ Settled /\ e # curDoc
      BY <1>4
    <3>2. Relevance[e] <= threshold
      BY <1>3, <3>1
    <3> QED  BY <1>2, <2>2, <3>1, <3>2
  <2>4. Promise!Offer(curDoc)
    BY <1>1, <1>4, <2>1, <2>3 DEF Promise!Offer
  <2> QED  BY <1>1, <2>4 DEF Promise!Next
<1> QED  BY <1>5, <1>6 DEF Considered

\* The search starts at the first document of any list; a call without cursors ends.
LEMMA StartPlaces ==
  ASSUME BlockMaxInv, Start, UNCHANGED cursors
  PROVE  /\ PlacesInv' /\ GivenUp(nonEssential, threshold)'
         /\ Settled = {}
         /\ \A e \in Settled' : e \in Docs /\ FullScore(cursors, e) <= threshold
<1>1. /\ pc = "start" /\ curDoc = 0 /\ nonEssential = 0 /\ heap = {} /\ PlacesInv
      /\ UNCHANGED <<heap, threshold, call, pos, block, nonEssential, floor>> /\ UNCHANGED n
      /\ order' \in [1..n -> 1..n] /\ IsOrder(n, order)'
      /\ n \in Nat /\ threshold \in Nat
  BY Known DEF Start, BlockMaxInv, PlacesInv, Sorted, IsOrder, n
<1>2. Settled = {}
  <2>1. \A d \in Docs : ~ (d < 0)
    BY NumDocsAssumption DEF Docs
  <2> QED  BY <1>1, <2>1 DEF Settled
<1>3. GivenUp(nonEssential, threshold)'
  <2>1. UpperBound(0) = 0 /\ UpperBound(0)' = 0
    BY SumToStep DEF UpperBound
  <2>2. UpperBound(nonEssential)' = UpperBound(0)'
    BY <1>1 DEF UpperBound
  <2> QED  BY <1>1, <2>1, <2>2 DEF GivenUp
<1>4. GivenUp(0, threshold) /\ 0 \in 0..n
  <2>1. UpperBound(0) = 0
    BY SumToStep DEF UpperBound
  <2> QED  BY <1>1, <2>1 DEF GivenUp
<1>5. CASE cursors = <<>>
  <2>1. pc' = "done" /\ UNCHANGED curDoc
    BY <1>5 DEF Start
  <2>2. PlacesInv'
    BY <1>1, <2>1 DEF PlacesInv, TypeOK, OnPostings, NothingJumped, BlocksBehind, Offered, cursors
  <2>3. n = 0
    BY <1>5 DEF n
  <2>4. ASSUME NEW e \in Settled' PROVE e \in Docs /\ FullScore(cursors, e) <= threshold
    <3>1. e \in Docs
      BY <2>1, <2>4 DEF Settled
    <3>2. \A i \in (0 + 1)..n : e \notin Posted(cursors[order[i]])
      BY <2>3
    <3> QED  BY <1>1, <1>4, <3>1, <3>2, GivenUpCannotEnter
  <2> QED  BY <1>2, <1>3, <2>2, <2>4
<1>6. CASE cursors # <<>>
  <2> DEFINE S == {pos[c] : c \in 1..n}
  <2>1. pc' = "loop" /\ curDoc' = Earliest(S) /\ n # 0 /\ 1 \in 1..n
    BY <1>1, <1>6, CallIsQuery DEF Start, PlacesInv
  <2>2. S \subseteq 0..NumDocs /\ S \subseteq Nat /\ pos[1] \in S
    BY <1>1, <2>1, Known DEF PlacesInv, TypeOK
  <2>3. \A c \in 1..n : pos[c] \in S
    OBVIOUS
  <2> HIDE DEF S
  <2>4. curDoc' \in S /\ \A p \in S : curDoc' <= p
    BY <2>1, <2>2, EarliestIsLeast
  <2>5. curDoc' \in 0..NumDocs /\ curDoc' \in Nat /\ \A c \in 1..n : curDoc' <= pos[c]
    BY <2>2, <2>3, <2>4
  <2>6. \A c \in 1..n : \A e \in Posted(cursors[c]) : e \in Nat /\ e \in Docs /\ pos[c] <= e
    <3> SUFFICES ASSUME NEW c \in 1..n, NEW e \in Posted(cursors[c])
                 PROVE  e \in Nat /\ e \in Docs /\ pos[c] <= e
      OBVIOUS
    <3>1. e \in Nat /\ e \in Docs
      BY <1>1, Known, CallIsQuery DEF PlacesInv
    <3> QED  BY <1>1, <3>1 DEF PlacesInv, NothingJumped
  <2>7. PlacesInv'
    <3>1. OnPostings' /\ NothingJumped' /\ Offered'
      BY <1>1, <2>6 DEF PlacesInv, OnPostings, NothingJumped, Offered, cursors
    <3>2. BlocksBehind'
      <4>1. \A c \in 1..n : block[c] \in 1..Len(call.blocks[c]) /\ 1..(block[c] - 1) = {}
        <5> SUFFICES ASSUME NEW c \in 1..n
                     PROVE  block[c] \in 1..Len(call.blocks[c]) /\ 1..(block[c] - 1) = {}
          OBVIOUS
        <5>1. /\ block[c] \in 1..Len(call.blocks[c]) /\ Len(call.blocks[c]) \in Nat
              /\ \A b \in 1..(block[c] - 1) : call.blocks[c][b].last < curDoc
              /\ \A b \in 1..Len(call.blocks[c]) : call.blocks[c][b].last \in Nat
          BY <1>1, CallIsQuery DEF PlacesInv, BlocksBehind, BlocksHold
        <5>2. \A b \in 1..(block[c] - 1) : b \in 1..Len(call.blocks[c])
          BY <5>1
        <5>3. ASSUME NEW b \in 1..(block[c] - 1) PROVE FALSE
          <6>1. call.blocks[c][b].last < 0 /\ call.blocks[c][b].last \in Nat
            BY <1>1, <5>1, <5>2
          <6> QED  BY <6>1
        <5> QED  BY <5>1, <5>3
      <4> QED  BY <1>1, <4>1 DEF BlocksBehind
    <3>3. EssentialReached'
      <4>1. \A i \in 1..n : order'[i] \in 1..n
        BY <1>1
      <4>2. \A c \in 1..n : pos[c] \in Nat
        BY <1>1, Known
      <4>3. \A i \in (0 + 1)..n : i \in 1..n
        OBVIOUS
      <4> QED  BY <1>1, <2>5, <4>1, <4>2, <4>3 DEF EssentialReached
    <3> QED  BY <1>1, <2>1, <2>5, <3>1, <3>2, <3>3 DEF PlacesInv, TypeOK
  <2>8. ASSUME NEW e \in Settled' PROVE e \in Docs /\ FullScore(cursors, e) <= threshold
    <3>1. e \in Docs /\ e < curDoc' /\ e \in Nat
      BY <1>1, <2>1, <2>8, Known DEF Settled
    <3>2. ASSUME NEW i \in (0 + 1)..n, e \in Posted(cursors[order[i]]) PROVE FALSE
      <4>1. i \in 1..n
        OBVIOUS
      <4>2. order[i] \in 1..n /\ pos[order[i]] \in Nat
        BY <1>1, <4>1, Known
      <4> QED  BY <2>5, <2>6, <3>1, <3>2, <4>2
    <3> QED  BY <1>1, <1>4, <3>1, <3>2, GivenUpCannotEnter
  <2> QED  BY <1>2, <1>3, <2>7, <2>8
<1> QED  BY <1>5, <1>6

LEMMA StepInv ==
  BlockMaxInv /\ [Next]_vars => BlockMaxInv' /\ [Promise!Next]_(Promise!vars)
<1> SUFFICES ASSUME BlockMaxInv, [Next]_vars
             PROVE  BlockMaxInv' /\ [Promise!Next]_(Promise!vars)
  OBVIOUS
<1>1. UNCHANGED cursors /\ UNCHANGED Relevance /\ UNCHANGED call /\ UNCHANGED n
  <2>1. UNCHANGED call
    BY DEF Next, vars, Start, RejectByBlocks, LookUp, Stop
  <2> QED  BY <2>1 DEF cursors, Relevance, n
<1>2. /\ PlacesInv'
      /\ pc' = "loop" => GivenUp(nonEssential, threshold)'
      /\ [Promise!Next]_(Promise!vars)
  <2>1. CASE Start
    <3>1. /\ PlacesInv' /\ GivenUp(nonEssential, threshold)'
          /\ Settled = {}
          /\ \A e \in Settled' : e \in Docs /\ FullScore(cursors, e) <= threshold
      BY <1>1, <2>1, StartPlaces
    <3>2. UNCHANGED <<heap, threshold, floor>>
      BY <2>1 DEF Start
    <3>3. \A e \in Settled' : ~ Promise!WouldEnter(Relevance[e])
      <4> SUFFICES ASSUME NEW e \in Settled' PROVE ~ (Relevance[e] > threshold)
        BY DEF Promise!WouldEnter
      <4> QED  BY <3>1, Known DEF BlockMaxInv
    <3>4. Promise!Skip
      BY <1>1, <3>1, <3>2, <3>3 DEF Promise!Skip
    <3> QED  BY <3>1, <3>4 DEF Promise!Next
  <2>2. CASE RejectByBlocks \/ LookUp
    <3>1. InLoop /\ Considered
      BY <2>2, RejectConsiders, LookUpConsiders DEF BlockMaxInv
    <3> QED  BY <1>1, <3>1, ConsideredPlaces, ConsideredStep
  <2>3. CASE Stop
    <3>1. /\ pc = "loop" /\ pc' = "done" /\ ~ InLoop /\ PlacesInv /\ GivenUp(nonEssential, threshold)
          /\ UNCHANGED <<heap, threshold, call, pos, block, order, nonEssential, curDoc, floor>>
      BY <2>3 DEF Stop, BlockMaxInv
    <3>2. PlacesInv'
      BY <1>1, <3>1 DEF PlacesInv, TypeOK, OnPostings, NothingJumped, BlocksBehind, Offered, IsOrder
    <3>3. Settled = {d \in Docs : d < curDoc} /\ Settled' = Docs
      BY <3>1 DEF Settled
    <3>4. ASSUME NEW e \in Docs \ Settled PROVE ~ Promise!WouldEnter(Relevance[e])
      <4>1. /\ e \in Nat /\ ~ (e < curDoc) /\ e < NumDocs /\ curDoc \in Nat
            /\ Relevance[e] = FullScore(cursors, e) /\ Relevance[e] \in Nat /\ threshold \in Nat
            /\ nonEssential \in 0..n /\ n \in Nat
        BY <3>1, <3>3, Known, NumDocsAssumption DEF Docs
      <4>2. nonEssential = n
        BY <3>1, <4>1, NumDocsAssumption DEF InLoop
      <4>3. \A i \in (nonEssential + 1)..n : e \notin Posted(cursors[order[i]])
        BY <4>1, <4>2
      <4>4. FullScore(cursors, e) <= threshold
        BY <3>1, <4>1, <4>3, GivenUpCannotEnter
      <4> QED  BY <4>1, <4>4 DEF Promise!WouldEnter
    <3>5. Promise!Skip
      BY <1>1, <3>1, <3>3, <3>4 DEF Promise!Skip
    <3> QED  BY <3>1, <3>2, <3>5 DEF Promise!Next
  <2>4. CASE UNCHANGED vars
    <3>1. UNCHANGED <<heap, threshold, call, pos, block, order, nonEssential, curDoc, pc, floor>>
      BY <2>4 DEF vars
    <3>2. UNCHANGED Settled
      BY <3>1 DEF Settled
    <3>3. PlacesInv'
      BY <1>1, <3>1
         DEF BlockMaxInv, PlacesInv, TypeOK, OnPostings, NothingJumped, BlocksBehind, Offered, IsOrder,
             EssentialReached
    <3>4. GivenUp(nonEssential, threshold)' <=> GivenUp(nonEssential, threshold)
      BY <1>1, <3>1 DEF GivenUp, UpperBound
    <3> QED  BY <1>1, <3>1, <3>2, <3>3, <3>4 DEF Promise!vars, BlockMaxInv
  <2> QED  BY <2>1, <2>2, <2>3, <2>4 DEF Next
<1>3. Promise!RetrievalInv'
  BY <1>2, Promise!NextInv, DocsFinite, KAssumption DEF BlockMaxInv
<1> QED  BY <1>2, <1>3 DEF BlockMaxInv

-----------------------------------------------------------------------------
(* The theorems.                                                           *)

THEOREM InvariantHolds == Spec => []BlockMaxInv
<1>1. Init => BlockMaxInv
  BY StartInv
<1>2. BlockMaxInv /\ [Next]_vars => BlockMaxInv'
  BY StepInv
<1> QED  BY <1>1, <1>2, PTL DEF Spec

\* The state of the loop has its types; block enumerators stand on a block.
THEOREM TypeCorrect == Spec => []TypeOK
<1>1. BlockMaxInv => TypeOK
  BY DEF BlockMaxInv, PlacesInv
<1> QED  BY <1>1, InvariantHolds, PTL

\* Every turn of the loop offers a document with its full score, or passes over
\* documents that cannot enter, although it offers bounds of others: block-max
\* MaxScore implements the promise of a ranked query.
THEOREM BlockMaxMaxScoreIsRankedRetrieval == Spec => IsRankedRetrieval
<1>1. Init => Retrieval!Init
  <2>1. Promise!Init <=> Retrieval!Init
    BY DEF Promise!Init, Retrieval!Init, Relevance, Settled
  <2> QED  BY <2>1, StartInv
<1>2. BlockMaxInv /\ [Next]_vars => [Retrieval!Next]_(Retrieval!vars)
  BY StepInv, SameNext
<1> QED  BY <1>1, <1>2, InvariantHolds, PTL DEF Spec, IsRankedRetrieval, Retrieval!Spec

\* When the query returns the queue holds the exact result above the threshold it
\* started from.
THEOREM SearchIsExact == Spec => []ExactResult
<1>1. BlockMaxInv => ExactResult
  <2> SUFFICES ASSUME BlockMaxInv, pc = "done" PROVE Retrieval!BestAbove(floor)
    BY DEF ExactResult
  <2>1. Settled = Docs /\ Promise!RetrievalInv
    BY DEF Settled, BlockMaxInv
  <2>2. Promise!BestAbove(floor)
    BY <2>1, Promise!InvImpliesExact, DocsFinite, KAssumption DEF Promise!ExactAboveFloor
  <2> QED  BY <2>2, SameBestAbove
<1> QED  BY <1>1, InvariantHolds, PTL
=============================================================================
