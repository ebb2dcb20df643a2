----------------------- MODULE RankedRetrieval_proofs -----------------------
(***************************************************************************)
(* Proofs about RankedRetrieval: type correctness, the exactness of the    *)
(* result above the floor, and the monotone threshold, for every           *)
(* collection, capacity and relevance.  And about SafeQuery, which runs    *)
(* it: with --safe a query returns the exact top K from any threshold      *)
(* file, and without it the exact result above the threshold it ran with.  *)
(***************************************************************************)
EXTENDS SafeQuery, TLAPS, FiniteSetTheorems, WellFoundedInduction

-----------------------------------------------------------------------------
(* Minima.                                                                 *)

\* Every nonempty set of naturals has a least element.
LEMMA LeastNat ==
  ASSUME NEW S, S \subseteq Nat, S # {}
  PROVE  \E m \in S : \A n \in S : m <= n
<1> DEFINE Below == {p \in Nat \X Nat : p[1] < p[2]}
<1>1. IsWellFoundedOn(Below, Nat)
  BY NatLessThanWellFounded DEF OpToRel
<1>2. \A m, n \in Nat : <<m, n>> \in Below <=> m < n
  OBVIOUS
<1> HIDE DEF Below
<1>3. PICK m \in S : \A n \in S : ~ (<<n, m>> \in Below)
  BY <1>1, WFMin
<1>4. ASSUME NEW n \in S PROVE m <= n
  <2>1. m \in Nat /\ n \in Nat
    OBVIOUS
  <2>2. ~ (n < m)
    BY <1>2, <1>3, <2>1
  <2> QED  BY <2>1, <2>2
<1> QED  BY <1>4

\* A nonempty set of entries has an entry std::pop_heap may remove, and the
\* front of the heap is its score (topk_queue.hpp).
LEMMA FrontIsLowest ==
  ASSUME NEW q, NEW D, q \subseteq Nat \X D, q # {}
  PROVE  /\ Lowest(q) # {}
         /\ FrontScore(q) \in {e[1] : e \in q}
         /\ \A e \in q : FrontScore(q) <= e[1]
<1> DEFINE S == {e[1] : e \in q}
<1>1. S \subseteq Nat /\ S # {}
  OBVIOUS
<1>2. PICK m \in S : \A n \in S : m <= n
  BY <1>1, LeastNat
<1>3. PICK e \in q : e[1] = m
  OBVIOUS
<1>4. e \in Lowest(q)
  BY <1>2, <1>3 DEF Lowest
<1>5. PICK f \in Lowest(q) : FrontScore(q) = f[1]
  BY <1>4 DEF FrontScore
<1> QED  BY <1>4, <1>5 DEF Lowest

\* Inserting a scored document that has no entry yet keeps the types of the queue.
LEMMA InsertTypes ==
  ASSUME NEW D, heap \subseteq Nat \X D, threshold \in Nat, NEW score \in Nat, NEW d \in D,
         <<score, d>> \notin heap, Insert(score, d)
  PROVE  /\ heap' \subseteq Nat \X D
         /\ threshold' \in Nat
         /\ heap' \subseteq heap \cup {<<score, d>>}
<1> DEFINE pushed == heap \cup {<<score, d>>}
<1>1. pushed \subseteq Nat \X D
  OBVIOUS
<1>2. CASE Reject(score)
  BY <1>2 DEF Reject, queueVars
<1>3. CASE Push(score, d)
  <2>1. heap' = pushed /\ heap' # {}
    BY <1>3 DEF Push
  <2>2. FrontScore(heap') \in Nat
    BY <1>1, <2>1, FrontIsLowest
  <2> QED  BY <1>1, <1>3, <2>1, <2>2 DEF Push
<1>4. CASE PushPop(score, d)
  <2>1. heap # {}
    <3>1. Cardinality({}) = 0
      BY FS_EmptySet
    <3> QED  BY <1>4, <3>1, KAssumption DEF PushPop
  <2>2. PICK least \in Lowest(pushed) : heap' = pushed \ {least}
    BY <1>4 DEF PushPop
  <2>3. heap' # {} /\ heap' \subseteq Nat \X D
    BY <1>1, <2>1, <2>2
  <2>4. FrontScore(heap') \in Nat
    BY ZenonT(60), SMTT(30), <2>3, FrontIsLowest
  <2> QED  BY <1>4, <2>2, <2>3, <2>4 DEF PushPop
<1> QED  BY <1>2, <1>3, <1>4 DEF Insert

-----------------------------------------------------------------------------
(* The inductive invariant.                                                *)

HeapInv ==
  /\ IsFiniteSet(heap)
  /\ Cardinality(heap) <= K
  /\ \A e \in heap : e = Entry(e[2]) /\ e[2] \in settled /\ e[1] > floor

ThresholdInv ==
  /\ threshold >= floor
  /\ Cardinality(heap) < K => threshold = floor
  /\ Cardinality(heap) = K => \A e \in heap : e[1] >= threshold

SettledInv == \A d \in settled : Entry(d) \in heap \/ relevance[d] <= threshold

RetrievalInv == TypeOK /\ HeapInv /\ ThresholdInv /\ SettledInv

\* An empty heap with nothing settled satisfies the invariant.
LEMMA InitInv == Init => RetrievalInv
BY KAssumption, ScoresAssumption, FS_EmptySet
   DEF Init, RetrievalInv, TypeOK, HeapInv, ThresholdInv, SettledInv

\* A document that is not settled has no entry in the heap, and adding its entry
\* makes the heap one larger.
LEMMA FreshEntry ==
  ASSUME RetrievalInv, NEW d \in Docs \ settled
  PROVE  /\ Entry(d) \notin heap
         /\ IsFiniteSet(heap \cup {Entry(d)})
         /\ Cardinality(heap) \in Nat
         /\ Cardinality(heap \cup {Entry(d)}) = Cardinality(heap) + 1
         /\ heap \cup {Entry(d)} \subseteq Scores \X Docs
         /\ heap \cup {Entry(d)} \subseteq Nat \X Docs
<1>1. Entry(d) \notin heap
  BY DEF RetrievalInv, HeapInv, Entry
<1>2. IsFiniteSet(heap)
  BY DEF RetrievalInv, HeapInv
<1>3. heap \cup {Entry(d)} \subseteq Scores \X Docs
  BY DEF RetrievalInv, TypeOK, Entry
<1>4. Scores \X Docs \subseteq Nat \X Docs
  BY ScoresAssumption
<1> QED  BY <1>1, <1>2, <1>3, <1>4, FS_AddElement, FS_CardinalityType

\* What offering d settles.
Settles(d) ==
  /\ settled' \in SUBSET Docs
  /\ settled \cup {d} \subseteq settled'
  /\ \A e \in settled' \ (settled \cup {d}) : relevance[e] <= threshold'

\* Rejecting a document settles it without touching the heap.
LEMMA RejectInv ==
  ASSUME RetrievalInv, NEW d \in Docs \ settled, Reject(relevance[d]),
         Settles(d), UNCHANGED <<relevance, floor>>
  PROVE  RetrievalInv'
<1>1. relevance[d] \in Nat /\ threshold \in Nat
  BY ScoresAssumption DEF RetrievalInv, TypeOK
<1>2. relevance[d] <= threshold
  BY <1>1 DEF Reject, WouldEnter
<1> QED
  BY <1>2 DEF RetrievalInv, TypeOK, HeapInv, ThresholdInv, SettledInv, Reject,
              Settles, queueVars, Entry

\* A push below capacity keeps everything offered so far and the new entry.
LEMMA PushInv ==
  ASSUME RetrievalInv, NEW d \in Docs \ settled, Push(relevance[d], d),
         Settles(d), UNCHANGED <<relevance, floor>>
  PROVE  RetrievalInv'
<1>1. /\ heap' = heap \cup {Entry(d)}
      /\ Cardinality(heap) < K
      /\ threshold' = IF Cardinality(heap) + 1 = K THEN FrontScore(heap') ELSE threshold
      /\ relevance[d] > threshold
  BY DEF Push, WouldEnter, Entry
<1>2. /\ IsFiniteSet(heap')
      /\ Cardinality(heap) \in Nat
      /\ Cardinality(heap') = Cardinality(heap) + 1
      /\ heap' \subseteq Scores \X Docs
      /\ heap' \subseteq Nat \X Docs
  BY <1>1, FreshEntry
<1>3. relevance[d] \in Nat /\ threshold \in Nat /\ floor \in Nat
  BY ScoresAssumption DEF RetrievalInv, TypeOK
<1>4. threshold = floor
  BY <1>1 DEF RetrievalInv, ThresholdInv
<1>5. \A e \in heap' : e = Entry(e[2])' /\ e[2] \in settled' /\ e[1] > floor'
  <2>1. Entry(d)[1] = relevance[d] /\ Entry(d)[2] = d
    BY DEF Entry
  <2> QED  BY <1>1, <1>3, <1>4, <2>1 DEF RetrievalInv, HeapInv, Settles, Entry
<1>6. HeapInv'
  BY <1>1, <1>2, <1>5, KAssumption DEF HeapInv
<1>7. CASE Cardinality(heap) + 1 = K
  <2>1. threshold' = FrontScore(heap')
    BY <1>1, <1>7
  <2>2. /\ threshold' \in {e[1] : e \in heap'}
        /\ \A e \in heap' : threshold' <= e[1]
    BY <1>1, <1>2, <2>1, FrontIsLowest
  <2>3. threshold' \in Scores /\ threshold' \in Nat
    BY <1>2, <2>2, ScoresAssumption
  <2>4. threshold' > floor'
    BY <1>5, <2>2
  <2>5. TypeOK'
    BY <1>2, <2>3 DEF RetrievalInv, TypeOK, Settles
  <2>6. \A e \in heap' : e[1] \in Nat
    BY <1>2
  <2>7. ThresholdInv'
    BY <1>2, <1>3, <1>7, <2>2, <2>3, <2>4, <2>6, KAssumption DEF ThresholdInv
  <2>8. \A c \in settled : Entry(c) \in heap' \/ relevance[c] <= threshold'
    <3> TAKE c \in settled
    <3>1. relevance[c] \in Nat
      BY ScoresAssumption DEF RetrievalInv, TypeOK
    <3> QED  BY <1>1, <1>3, <1>4, <2>3, <2>4, <3>1 DEF RetrievalInv, SettledInv
  <2>9. SettledInv'
    BY <1>1, <2>8 DEF SettledInv, Settles, Entry
  <2> QED  BY <1>6, <2>5, <2>7, <2>9 DEF RetrievalInv
<1>8. CASE Cardinality(heap) + 1 # K
  <2>1. threshold' = threshold
    BY <1>1, <1>8
  <2>2. TypeOK'
    BY <1>2, <2>1 DEF RetrievalInv, TypeOK, Settles
  <2>3. ThresholdInv'
    BY <1>1, <1>2, <1>3, <1>4, <1>8, <2>1, KAssumption DEF ThresholdInv
  <2>4. SettledInv'
    BY <1>1, <2>1 DEF RetrievalInv, SettledInv, Settles, Entry
  <2> QED  BY <1>6, <2>2, <2>3, <2>4 DEF RetrievalInv
<1> QED  BY <1>7, <1>8

\* At capacity the entry that leaves scores no more than any that stays.
LEMMA PushPopInv ==
  ASSUME RetrievalInv, NEW d \in Docs \ settled, PushPop(relevance[d], d),
         Settles(d), UNCHANGED <<relevance, floor>>
  PROVE  RetrievalInv' /\ threshold' >= threshold
<1> DEFINE pushed == heap \cup {Entry(d)}
<1>1. /\ relevance[d] > threshold
      /\ Cardinality(heap) >= K
      /\ threshold' = FrontScore(heap')
  BY DEF PushPop, WouldEnter
<1>2. PICK least \in Lowest(pushed) : heap' = pushed \ {least}
  BY DEF PushPop, Entry
<1>3. /\ IsFiniteSet(pushed)
      /\ Cardinality(heap) \in Nat
      /\ Cardinality(pushed) = Cardinality(heap) + 1
      /\ pushed \subseteq Scores \X Docs
      /\ pushed \subseteq Nat \X Docs
  BY FreshEntry
<1>4. least \in pushed /\ \A e \in pushed : least[1] <= e[1]
  BY DEF Lowest
<1>5. Cardinality(heap) = K
  BY <1>1, <1>3, KAssumption DEF RetrievalInv, HeapInv
<1>6. IsFiniteSet(heap') /\ Cardinality(heap') = K
  BY <1>2, <1>3, <1>4, <1>5, KAssumption, FS_RemoveElement
<1>7. heap' # {} /\ heap' \subseteq Scores \X Docs /\ heap' \subseteq Nat \X Docs
  BY <1>2, <1>3, <1>6, KAssumption, FS_EmptySet
<1>8. /\ threshold' \in {e[1] : e \in heap'}
      /\ \A e \in heap' : threshold' <= e[1]
  BY <1>1, <1>7, FrontIsLowest
<1>9. /\ relevance[d] \in Nat /\ threshold \in Nat /\ floor \in Nat
      /\ threshold' \in Nat /\ threshold' \in Scores
  BY <1>7, <1>8, ScoresAssumption DEF RetrievalInv, TypeOK
<1>10. Entry(d)[1] = relevance[d] /\ Entry(d)[2] = d
  BY DEF Entry
<1>11. \A e \in pushed : e[1] \in Nat /\ e[1] >= threshold
  BY <1>1, <1>3, <1>5, <1>9, <1>10 DEF RetrievalInv, ThresholdInv
<1>12. threshold' >= threshold
  BY <1>2, <1>8, <1>9, <1>11
<1>13. threshold >= floor
  BY DEF RetrievalInv, ThresholdInv
<1>14. \A e \in heap' : e = Entry(e[2])' /\ e[2] \in settled' /\ e[1] > floor'
  BY <1>1, <1>2, <1>9, <1>10, <1>13 DEF RetrievalInv, HeapInv, Settles, Entry
<1>15. HeapInv'
  BY <1>6, <1>14, KAssumption DEF HeapInv
<1>16. ThresholdInv'
  BY <1>6, <1>7, <1>8, <1>9, <1>12, <1>13, KAssumption DEF ThresholdInv
<1>17. TypeOK'
  BY <1>7, <1>9 DEF RetrievalInv, TypeOK, Settles
<1>18. ASSUME NEW c \in settled \cup {d}
       PROVE  Entry(c) \in heap' \/ relevance[c] <= threshold'
  <2>1. relevance[c] \in Nat
    BY ScoresAssumption DEF RetrievalInv, TypeOK
  <2>2. CASE Entry(c) = least
    <3>1. least[1] = relevance[c]
      BY <2>2 DEF Entry
    <3>2. PICK e \in heap' : e[1] = threshold'
      BY <1>8
    <3>3. least[1] <= e[1]
      BY <1>2, <1>4
    <3> QED  BY <3>1, <3>2, <3>3
  <2>3. CASE Entry(c) # least /\ c = d
    BY <1>2, <2>3
  <2>4. CASE Entry(c) # least /\ c # d
    BY <1>2, <1>9, <1>12, <2>1, <2>4 DEF RetrievalInv, SettledInv
  <2> QED  BY <2>2, <2>3, <2>4
<1>19. SettledInv'
  BY <1>18 DEF SettledInv, Settles, Entry
<1> QED  BY <1>12, <1>15, <1>16, <1>17, <1>19 DEF RetrievalInv

\* Offering a document preserves the invariant and never lowers the threshold.
LEMMA OfferInv ==
  ASSUME RetrievalInv, NEW d \in Docs, Offer(d)
  PROVE  RetrievalInv' /\ threshold' >= threshold
<1>1. /\ d \in Docs \ settled
      /\ Insert(relevance[d], d)
      /\ Settles(d)
      /\ UNCHANGED <<relevance, floor>>
  BY DEF Offer, Settles
<1>2. threshold \in Nat
  BY ScoresAssumption DEF RetrievalInv, TypeOK
<1>3. CASE Reject(relevance[d])
  BY <1>1, <1>2, <1>3, RejectInv DEF Reject, queueVars
<1>4. CASE Push(relevance[d], d)
  <2>1. RetrievalInv'
    BY <1>1, <1>4, PushInv
  <2>2. threshold = floor
    BY <1>4 DEF Push, RetrievalInv, ThresholdInv
  <2> QED  BY <1>1, <2>1, <2>2 DEF RetrievalInv, ThresholdInv
<1>5. CASE PushPop(relevance[d], d)
  BY <1>1, <1>5, PushPopInv
<1> QED  BY <1>1, <1>3, <1>4, <1>5 DEF Insert

\* Inserting a document that is not settled never lowers the threshold.
LEMMA InsertRaises ==
  ASSUME RetrievalInv, NEW d \in Docs \ settled, Insert(relevance[d], d)
  PROVE  threshold' \in Nat /\ threshold' >= threshold
<1> DEFINE pushed == heap \cup {Entry(d)}
<1>1. /\ relevance[d] \in Nat /\ threshold \in Nat /\ floor \in Nat
      /\ Entry(d) = <<relevance[d], d>> /\ Entry(d)[1] = relevance[d]
      /\ Entry(d) \notin heap /\ pushed \subseteq Nat \X Docs
      /\ Cardinality(heap) \in Nat
  BY FreshEntry, ScoresAssumption DEF RetrievalInv, TypeOK, Entry
<1>2. threshold' \in Nat /\ heap' \subseteq pushed
  BY <1>1, InsertTypes DEF RetrievalInv, TypeOK
<1>3. ASSUME relevance[d] > threshold PROVE \A e \in pushed : e[1] \in Nat /\ e[1] >= threshold
  <2> SUFFICES ASSUME NEW e \in heap PROVE e[1] \in Nat /\ e[1] >= threshold
    BY <1>1, <1>3
  <2>1. e[1] \in Nat
    BY <1>1
  <2>2. Cardinality(heap) < K \/ Cardinality(heap) = K
    BY <1>1, KAssumption DEF RetrievalInv, HeapInv
  <2> QED  BY <1>1, <2>1, <2>2 DEF RetrievalInv, HeapInv, ThresholdInv
<1> HIDE DEF pushed
<1>4. ASSUME relevance[d] > threshold, threshold' = FrontScore(heap'), heap' # {}
      PROVE  threshold' >= threshold
  <2>1. threshold' \in {e[1] : e \in heap'}
    BY <1>1, <1>2, <1>4, FrontIsLowest
  <2> QED  BY <1>2, <1>3, <1>4, <2>1
<1>5. CASE Reject(relevance[d])
  BY <1>1, <1>5 DEF Reject, queueVars
<1>6. CASE Push(relevance[d], d)
  <2>1. relevance[d] > threshold /\ heap' # {}
    BY <1>6 DEF Push, WouldEnter
  <2> QED  BY <1>1, <1>2, <1>4, <1>6, <2>1 DEF Push
<1>7. CASE PushPop(relevance[d], d)
  <2>1. relevance[d] > threshold /\ threshold' = FrontScore(heap') /\ heap # {}
    BY <1>7, FS_EmptySet, KAssumption DEF PushPop, WouldEnter
  <2>2. PICK least \in Lowest(pushed) : heap' = pushed \ {least}
    BY <1>1, <1>7 DEF PushPop, pushed
  <2>3. heap' # {}
    BY <1>1, <2>1, <2>2 DEF pushed
  <2> QED  BY <1>2, <1>4, <2>1, <2>3
<1> QED  BY <1>2, <1>5, <1>6, <1>7 DEF Insert

\* Passing over documents that cannot enter preserves the invariant.
LEMMA SkipInv == RetrievalInv /\ Skip => RetrievalInv'
<1> SUFFICES ASSUME RetrievalInv, Skip PROVE RetrievalInv'
  OBVIOUS
<1>1. /\ settled' \subseteq Docs
      /\ settled \subseteq settled'
      /\ \A d \in settled' \ settled : ~ (relevance[d] > threshold)
      /\ UNCHANGED <<heap, threshold, relevance, floor>>
  BY DEF Skip, WouldEnter
<1>2. threshold \in Nat /\ \A d \in Docs : relevance[d] \in Nat
  BY ScoresAssumption DEF RetrievalInv, TypeOK
<1>3. \A d \in settled' : Entry(d) \in heap \/ relevance[d] <= threshold
  BY <1>1, <1>2 DEF RetrievalInv, SettledInv
<1> QED
  BY <1>1, <1>3 DEF RetrievalInv, TypeOK, HeapInv, ThresholdInv, SettledInv, Entry

\* Priming happens on an empty heap.
LEMMA PrimeInv == RetrievalInv /\ Prime => RetrievalInv'
<1> SUFFICES ASSUME RetrievalInv, Prime PROVE RetrievalInv'
  OBVIOUS
<1>1. /\ settled = {} /\ heap = {}
      /\ threshold' \in Scores /\ floor' = threshold'
      /\ UNCHANGED <<heap, relevance, settled>>
  BY DEF Prime
<1>2. threshold' \in Nat
  BY <1>1, ScoresAssumption
<1> QED
  BY <1>1, <1>2, FS_EmptySet, KAssumption
     DEF RetrievalInv, TypeOK, HeapInv, ThresholdInv, SettledInv

\* Every step of a retrieval preserves the invariant.
LEMMA NextInv == RetrievalInv /\ [Next]_vars => RetrievalInv'
<1> SUFFICES ASSUME RetrievalInv, [Next]_vars PROVE RetrievalInv'
  OBVIOUS
<1>1. CASE Prime
  BY <1>1, PrimeInv
<1>2. ASSUME NEW d \in Docs, Offer(d) PROVE RetrievalInv'
  BY <1>2, OfferInv
<1>3. CASE Skip
  BY <1>3, SkipInv
<1>4. CASE UNCHANGED vars
  BY <1>4 DEF vars, RetrievalInv, TypeOK, HeapInv, ThresholdInv, SettledInv, Entry
<1> QED  BY <1>1, <1>2, <1>3, <1>4 DEF Next

-----------------------------------------------------------------------------
(* The results.                                                            *)

\* The inductive invariant holds in every retrieval.
THEOREM InvariantHolds == Spec => []RetrievalInv
BY InitInv, NextInv, PTL DEF Spec

\* The queue holds scored documents and the threshold is a score.
THEOREM TypeCorrect == Spec => []TypeOK
BY InvariantHolds, PTL DEF RetrievalInv

\* Once every document is settled the invariant gives the exact result above the
\* floor.
LEMMA InvImpliesExact == RetrievalInv => ExactAboveFloor
<1> SUFFICES ASSUME RetrievalInv, settled = Docs PROVE BestAbove(floor)
  BY DEF ExactAboveFloor
<1>1. /\ threshold \in Nat /\ floor \in Nat
      /\ \A d \in Docs : relevance[d] \in Nat
      /\ heap \subseteq Nat \X Docs
  BY ScoresAssumption DEF RetrievalInv, TypeOK
<1>2. Cardinality(heap) \in Nat
  BY FS_CardinalityType DEF RetrievalInv, HeapInv
<1>3. ASSUME NEW d \in Docs, relevance[d] > floor, Entry(d) \notin heap
      PROVE  Cardinality(heap) = K /\ \A e \in heap : e[1] >= relevance[d]
  <2>1. relevance[d] <= threshold
    BY <1>3 DEF RetrievalInv, SettledInv
  <2>2. Cardinality(heap) = K
    BY <1>1, <1>2, <1>3, <2>1, KAssumption DEF RetrievalInv, HeapInv, ThresholdInv
  <2>3. \A e \in heap : e[1] \in Nat /\ e[1] >= threshold
    BY <1>1, <2>2 DEF RetrievalInv, ThresholdInv
  <2> QED  BY <1>1, <2>1, <2>2, <2>3
<1> QED  BY <1>3 DEF BestAbove, RetrievalInv, HeapInv

\* When every document is settled the heap is the exact result above the floor,
\* for every collection, every relevance and every capacity.
THEOREM Exactness == Spec => []ExactAboveFloor
BY InvariantHolds, InvImpliesExact, PTL

\* A full heap is the exact top K, whatever threshold the retrieval started from.
LEMMA FullHeapExact ==
  ASSUME RetrievalInv, settled = Docs, Cardinality(heap) = K
  PROVE  BestAbove(0)
<1>1. BestAbove(floor)
  BY InvImpliesExact DEF ExactAboveFloor
<1>2. /\ threshold \in Nat /\ floor \in Nat
      /\ \A d \in Docs : relevance[d] \in Nat
      /\ heap \subseteq Nat \X Docs
  BY ScoresAssumption DEF RetrievalInv, TypeOK
<1>3. \A e \in heap : e = Entry(e[2]) /\ e[1] > 0
  BY <1>1, <1>2 DEF BestAbove
<1>4. ASSUME NEW d \in Docs, Entry(d) \notin heap
      PROVE  \A e \in heap : e[1] >= relevance[d]
  <2>1. relevance[d] <= threshold
    BY <1>4 DEF RetrievalInv, SettledInv
  <2>2. \A e \in heap : e[1] \in Nat /\ e[1] >= threshold
    BY <1>2 DEF RetrievalInv, ThresholdInv
  <2> QED  BY <1>2, <2>1, <2>2
<1> QED  BY <1>3, <1>4, KAssumption DEF BestAbove

\* A heap that is exact above a threshold K documents beat is full.
LEMMA SoundFloorFillsHeap ==
  ASSUME RetrievalInv, BestAbove(floor), PrimeSound(floor), floor # 0
  PROVE  Cardinality(heap) = K
<1> DEFINE Above == {d \in Docs : relevance[d] > floor}
           Kept == {e[2] : e \in heap}
<1>1. IsFiniteSet(heap) /\ Cardinality(heap) \in Nat /\ Cardinality(heap) <= K
  BY FS_CardinalityType DEF RetrievalInv, HeapInv
<1>2. SUFFICES ASSUME Cardinality(heap) # K PROVE FALSE
  OBVIOUS
<1>3. Above \subseteq Kept
  BY <1>2 DEF BestAbove, Entry
<1>4. IsFiniteSet(Kept) /\ Cardinality(Kept) <= Cardinality(heap)
  <2> DEFINE doc == [e \in heap |-> e[2]]
  <2>1. doc \in Surjection(heap, Kept)
    BY DEF Surjection
  <2> QED  BY <1>1, <2>1, FS_Surjection
<1>5. Cardinality(Above) <= Cardinality(Kept)
  BY <1>3, <1>4, FS_Subset
<1>6. Cardinality(Above) \in Nat /\ Cardinality(Kept) \in Nat
  BY <1>3, <1>4, FS_Subset, FS_CardinalityType
<1>7. Cardinality(Above) >= K
  BY DEF PrimeSound
<1> QED  BY <1>1, <1>2, <1>4, <1>5, <1>6, <1>7, KAssumption

\* A retrieval that starts from zero or from a threshold that K documents beat, as a
\* primed one does, ends with the exact top K.
LEMMA SoundFloorExact ==
  ASSUME RetrievalInv, settled = Docs, PrimeSound(floor)
  PROVE  BestAbove(0)
<1>1. BestAbove(floor)
  BY InvImpliesExact DEF ExactAboveFloor
<1>2. CASE floor = 0
  BY <1>1, <1>2
<1>3. CASE floor # 0
  BY <1>1, <1>3, SoundFloorFillsHeap, FullHeapExact
<1> QED  BY <1>2, <1>3

\* No step that settles documents lowers the threshold.
THEOREM ThresholdMonotone == Spec => ThresholdNeverFalls
<1>1. RetrievalInv /\ [Next]_vars
        => [settled # {} /\ settled' # {} => threshold' >= threshold]_vars
  <2> SUFFICES ASSUME RetrievalInv, [Next]_vars, settled # {}
               PROVE  threshold' >= threshold
    OBVIOUS
  <2>1. threshold \in Nat
    BY ScoresAssumption DEF RetrievalInv, TypeOK
  <2>2. ASSUME NEW d \in Docs, Offer(d) PROVE threshold' >= threshold
    BY <2>2, OfferInv
  <2>3. CASE Skip \/ UNCHANGED vars
    BY <2>1, <2>3 DEF Skip, vars
  <2> QED  BY <2>2, <2>3 DEF Next, Prime
<1> QED  BY <1>1, InvariantHolds, PTL DEF Spec, ThresholdNeverFalls

-----------------------------------------------------------------------------
(* The query of the benchmark: SafeQuery.                                  *)

\* The invariant of a query: while it runs, that of the retrieval; a rerun
\* starts from a threshold that K documents beat; a finished query keeps what
\* the retrieval promised.
SafeInv ==
  /\ safe \in BOOLEAN
  /\ phase \in {"first", "rerun", "returned"}
  /\ RetrievalInv
  /\ phase = "rerun" => PrimeSound(floor)
  /\ phase = "returned" =>
       /\ settled = Docs
       /\ safe => PrimeSound(floor) \/ Cardinality(heap) = K

\* A query that starts satisfies its invariant.
LEMMA SafeInitInv == SafeInit => SafeInv
BY InitInv DEF SafeInit, SafeInv

\* The steps of the query algorithm.
LEMMA ScanInv == SafeInv /\ (ScanOffer \/ ScanSkip) => SafeInv'
<1> SUFFICES ASSUME SafeInv, ScanOffer \/ ScanSkip PROVE SafeInv'
  OBVIOUS
<1>1. /\ phase # "returned"
      /\ UNCHANGED <<safe, phase>>
      /\ Prime \/ (\E d \in Docs : Offer(d)) \/ Skip
  BY DEF ScanOffer, ScanSkip
<1>2. RetrievalInv'
  BY <1>1, NextInv DEF SafeInv, Next
<1>3. PrimeSound(floor) => PrimeSound(floor)'
  BY <1>1 DEF Prime, Offer, Skip, PrimeSound
<1> QED  BY <1>1, <1>2, <1>3 DEF SafeInv

\* A rerun starts with an empty queue, from threshold zero, which is sound.
LEMMA RerunInv == SafeInv /\ Rerun => SafeInv'
<1> SUFFICES ASSUME SafeInv, Rerun PROVE SafeInv'
  OBVIOUS
<1>1. /\ heap' = {} /\ threshold' = 0 /\ floor' = 0 /\ settled' = {}
      /\ phase' = "rerun"
      /\ UNCHANGED <<relevance, safe>>
  BY DEF Rerun, RerunFrom, Clear
<1>2. RetrievalInv'
  BY <1>1, FS_EmptySet, KAssumption, ScoresAssumption
     DEF SafeInv, RetrievalInv, TypeOK, HeapInv, ThresholdInv, SettledInv
<1> QED  BY <1>1, <1>2 DEF SafeInv, PrimeSound

\* topk_queue::finalize drops nothing: every entry scores above zero.
LEMMA ReturnInv == SafeInv /\ Return => SafeInv'
<1> SUFFICES ASSUME SafeInv, Return PROVE SafeInv'
  OBVIOUS
<1>1. /\ phase # "returned" /\ settled = Docs
      /\ phase = "rerun" \/ ~safe \/ Cardinality(heap) >= K
      /\ heap' = {e \in heap : e[1] > 0}
      /\ phase' = "returned"
      /\ UNCHANGED <<threshold, relevance, floor, settled, safe>>
  BY DEF Return, ReturnWith, Finished, Finalize
<1>2. \A e \in heap : e[1] \in Nat /\ e[1] > 0
  <2>1. heap \subseteq Nat \X Docs /\ floor \in Nat
    BY ScoresAssumption DEF SafeInv, RetrievalInv, TypeOK
  <2>2. \A e \in heap : e[1] > floor
    BY DEF SafeInv, RetrievalInv, HeapInv
  <2> QED  BY <2>1, <2>2
<1>3. heap' = heap
  BY <1>1, <1>2
<1>4. RetrievalInv'
  BY <1>1, <1>3
     DEF SafeInv, RetrievalInv, TypeOK, HeapInv, ThresholdInv, SettledInv, Entry
<1>5. Cardinality(heap) >= K => Cardinality(heap) = K
  BY FS_CardinalityType, KAssumption DEF SafeInv, RetrievalInv, HeapInv
<1>6. PrimeSound(floor) => PrimeSound(floor)'
  BY <1>1 DEF PrimeSound
<1> QED  BY <1>1, <1>3, <1>4, <1>5, <1>6 DEF SafeInv

\* Every step of a query preserves its invariant.
LEMMA SafeNextInv == SafeInv /\ [SafeNext]_safeVars => SafeInv'
<1> SUFFICES ASSUME SafeInv, [SafeNext]_safeVars PROVE SafeInv'
  OBVIOUS
<1>1. CASE ScanOffer \/ ScanSkip
  BY <1>1, ScanInv
<1>2. CASE Rerun
  BY <1>2, RerunInv
<1>3. CASE Return
  BY <1>3, ReturnInv
<1>4. CASE UNCHANGED safeVars
  BY <1>4 DEF safeVars, vars, SafeInv, RetrievalInv, TypeOK, HeapInv,
              ThresholdInv, SettledInv, Entry, PrimeSound
<1> QED  BY <1>1, <1>2, <1>3, <1>4 DEF SafeNext

\* The inductive invariant holds in every query.
THEOREM SafeInvariantHolds == SafeSpec => []SafeInv
BY SafeInitInv, SafeNextInv, PTL DEF SafeSpec

\* The benchmark's query loop is type correct.
THEOREM SafeTypeCorrect == SafeSpec => []SafeTypeOK
<1>1. SafeInv => SafeTypeOK
  BY DEF SafeInv, SafeTypeOK, RetrievalInv
<1> QED  BY <1>1, SafeInvariantHolds, PTL

\* A query that has returned holds the exact result above its threshold.
THEOREM UnsafeExact == SafeSpec => []UnsafeIsExactAboveFloor
<1>1. SafeInv => UnsafeIsExactAboveFloor
  BY InvImpliesExact DEF SafeInv, UnsafeIsExactAboveFloor, ExactAboveFloor
<1> QED  BY <1>1, SafeInvariantHolds, PTL

\* With --safe a query returns the exact top K, whatever the threshold file says.
THEOREM SafeExact == SafeSpec => []SafeIsExact
<1>1. SafeInv => SafeIsExact
  <2> SUFFICES ASSUME SafeInv, phase = "returned", safe PROVE BestAbove(0)
    BY DEF SafeIsExact
  <2>1. RetrievalInv /\ settled = Docs
    BY DEF SafeInv
  <2>2. PrimeSound(floor) \/ Cardinality(heap) = K
    BY DEF SafeInv
  <2> QED  BY <2>1, <2>2, FullHeapExact, SoundFloorExact
<1> QED  BY <1>1, SafeInvariantHolds, PTL
=============================================================================
