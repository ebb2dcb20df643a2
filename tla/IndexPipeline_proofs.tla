------------------------ MODULE IndexPipeline_proofs ------------------------
(***************************************************************************)
(* Proofs about what is made of a forward index: its inversion (Inversion) *)
(* and its reordering and compression (Reordering and IndexPipeline).      *)
(* They rest on what ConcurrentBuilds_proofs proves of the forward index.  *)
(*                                                                         *)
(* The inversion, for every size of its batches and in whatever order      *)
(* parallel_reduce splits, reads and joins, gives each term the documents  *)
(* it occurs in, and the forward index made from it is the one inverted.   *)
(* Whatever mapping or run of bisection gives the documents new            *)
(* identifiers, the compressed index holds the collection.                 *)
(***************************************************************************)
EXTENDS ConcurrentBuilds_proofs

-----------------------------------------------------------------------------
(* The inversion of a forward index.                                       *)

\* A function on 1..n is a sequence of n elements.
LEMMA FunctionIsSeq ==
  ASSUME NEW S, NEW n \in Nat, NEW f \in [1..n -> S]
  PROVE  f \in Seq(S) /\ Len(f) = n
<1>1. f = [i \in 1..n |-> f[i]] /\ \A i \in 1..n : f[i] \in S
  OBVIOUS
<1> QED BY <1>1

\* Where a value stands in a sequence, and how often it occurs.
PlacesOf(s, v) == {i \in DOMAIN s : s[i] = v}
Occurrences(s, v) == Cardinality(PlacesOf(s, v))

\* The places of a value are finitely many, and there is none where it is not in the
\* sequence.
LEMMA OccurrencesAreCounted ==
  ASSUME NEW S, NEW s \in Seq(S), NEW v
  PROVE  /\ IsFiniteSet(PlacesOf(s, v))
         /\ Occurrences(s, v) \in Nat
         /\ Occurrences(s, v) = 0 <=> \A i \in DOMAIN s : s[i] # v
<1> DEFINE P == PlacesOf(s, v)
<1>1. Len(s) \in Nat /\ DOMAIN s = 1..Len(s)
  BY LenProperties
<1>2. IsFiniteSet(DOMAIN s)
  BY <1>1, FS_Interval
<1>3. IsFiniteSet(P)
  <2>1. P \in SUBSET DOMAIN s
    BY DEF PlacesOf
  <2> QED BY <2>1, <1>2, FS_Subset
<1>4. Occurrences(s, v) = Cardinality(P)
  BY DEF Occurrences
<1>5. Cardinality(P) = 0 <=> P = {}
  BY <1>3, FS_EmptySet
<1>6. P = {} <=> \A i \in DOMAIN s : s[i] # v
  BY DEF PlacesOf
<1> QED BY <1>3, <1>4, <1>5, <1>6, FS_CardinalityType

\* A map gives each place of a value in a sequence one element of a set.
Counts(f, A, s, v) ==
  /\ f \in [A -> DOMAIN s]
  /\ \A x, y \in A : x # y => f[x] # f[y]
  /\ \A x \in A : s[f[x]] = v
  /\ \A i \in DOMAIN s : s[i] = v => \E x \in A : f[x] = i

\* Then the set has as many elements as the value has places.
LEMMA SameOccurrences ==
  ASSUME NEW S, NEW s \in Seq(S), NEW A, NEW f, NEW v, Counts(f, A, s, v)
  PROVE  IsFiniteSet(A) /\ Cardinality(A) = Occurrences(s, v)
<1> DEFINE P == {i \in DOMAIN s : s[i] = v}
<1>1. f \in Injection(A, P)
  <2>1. f \in [A -> P]
    BY DEF Counts
  <2> QED BY <2>1 DEF Injection, IsInjective, Counts
<1>2. \A i \in P : \E x \in A : f[x] = i
  BY DEF Counts
<1>3. f \in Surjection(A, P)
  BY <1>1, <1>2 DEF Surjection, Injection
<1>4. P = PlacesOf(s, v)
  BY DEF PlacesOf
<1> HIDE DEF P
<1>5. IsFiniteSet(P) /\ Occurrences(s, v) = Cardinality(P)
  BY <1>4, OccurrencesAreCounted DEF Occurrences
<1> QED BY <1>1, <1>3, <1>4, <1>5, FS_Injection

\* What occurs in two sequences occurs in them one after the other.
LEMMA OccurrencesOfConcat ==
  ASSUME NEW S, NEW s \in Seq(S), NEW t \in Seq(S), NEW v
  PROVE  Occurrences(s \o t, v) = Occurrences(s, v) + Occurrences(t, v)
<1> DEFINE u == s \o t
           m == Len(s)
           A == {i \in 1..m : s[i] = v}
           B == {i \in (m + 1)..Len(u) : u[i] = v}
<1>1. m \in Nat /\ DOMAIN s = 1..m /\ Len(t) \in Nat /\ DOMAIN t = 1..Len(t)
  BY LenProperties
<1>2. /\ u \in Seq(S) /\ Len(u) = m + Len(t) /\ DOMAIN u = 1..(m + Len(t))
      /\ \A i \in 1..(m + Len(t)) : u[i] = IF i <= m THEN s[i] ELSE t[i - m]
  <2>1. u \in Seq(S)
    BY ConcatProperties
  <2> QED BY <2>1, ConcatProperties, LenProperties
<1>3. IsFiniteSet(A) /\ Cardinality(A) = Occurrences(s, v)
  <2>1. A = PlacesOf(s, v)
    BY <1>1 DEF PlacesOf
  <2> HIDE DEF A
  <2> QED BY <2>1, OccurrencesAreCounted DEF Occurrences
<1> DEFINE f == [i \in B |-> i - m]
<1> HIDE DEF m, u
<1>4. IsFiniteSet(B) /\ Cardinality(B) = Occurrences(t, v)
  <2>1. \A i \in B : i \in Nat /\ i - m \in DOMAIN t /\ t[i - m] = v
    <3> TAKE i \in B
    <3>1. i \in (m + 1)..(m + Len(t)) /\ u[i] = v
      BY <1>2
    <3>2. i \in 1..(m + Len(t)) /\ ~(i <= m) /\ i - m \in 1..Len(t) /\ i \in Nat
      BY <3>1, <1>1
    <3> QED BY <3>1, <3>2, <1>1, <1>2
  <2>2. f \in [B -> DOMAIN t]
    BY <2>1
  <2>3. \A x, y \in B : x # y => f[x] # f[y]
    BY <2>1, <1>1
  <2>4. \A x \in B : t[f[x]] = v
    BY <2>1
  <2>5. \A i \in DOMAIN t : t[i] = v => \E x \in B : f[x] = i
    <3> SUFFICES ASSUME NEW i \in DOMAIN t, t[i] = v PROVE \E x \in B : f[x] = i
      OBVIOUS
    <3>1. /\ i + m \in (m + 1)..(m + Len(t)) /\ i + m \in 1..(m + Len(t)) /\ ~(i + m <= m)
          /\ (i + m) - m = i
      BY <1>1
    <3>2. u[i + m] = v
      BY <3>1, <1>2
    <3>3. i + m \in B
      BY <3>1, <3>2, <1>2
    <3> QED BY <3>1, <3>3
  <2> HIDE DEF B, f
  <2>6. Counts(f, B, t, v)
    BY <2>2, <2>3, <2>4, <2>5 DEF Counts
  <2> QED BY <2>6, SameOccurrences
<1>5. PlacesOf(u, v) = A \cup B /\ A \cap B = {}
  <2>1. ASSUME NEW i \in DOMAIN u, u[i] = v PROVE i \in A \cup B
    <3>1. i \in 1..m \/ i \in (m + 1)..Len(u)
      BY <1>1, <1>2
    <3>2. i \in 1..m => u[i] = s[i]
      BY <1>1, <1>2
    <3> QED BY <3>1, <3>2, <2>1
  <2>2. ASSUME NEW i \in A PROVE i \in DOMAIN u /\ u[i] = v /\ i \notin B
    <3>1. i \in 1..(m + Len(t)) /\ i <= m /\ ~(i \in (m + 1)..Len(u))
      BY <1>1, <1>2
    <3> QED BY <3>1, <1>2
  <2>3. ASSUME NEW i \in B PROVE i \in DOMAIN u /\ u[i] = v
    <3>1. i \in 1..(m + Len(t))
      BY <1>1, <1>2
    <3> QED BY <3>1, <1>2
  <2> HIDE DEF A, B
  <2> QED BY <2>1, <2>2, <2>3 DEF PlacesOf
<1>6. Cardinality(A \cup B) = Cardinality(A) + Cardinality(B) - 0
  <2> HIDE DEF A, B
  <2> QED BY <1>3, <1>4, <1>5, FS_Union, FS_EmptySet
<1>7. Cardinality(A) \in Nat /\ Cardinality(B) \in Nat
  BY <1>3, <1>4, FS_CardinalityType
<1> HIDE DEF A, B
<1>8. Occurrences(u, v) = Cardinality(A \cup B)
  BY <1>5 DEF Occurrences
<1>9. Occurrences(u, v) = Occurrences(s, v) + Occurrences(t, v)
  BY <1>3, <1>4, <1>6, <1>7, <1>8
<1> QED BY <1>9 DEF u

\* What occurs in one of some sequences only occurs in all of them as often.
LEMMA OccurrencesOfFlattened ==
  ASSUME NEW S, NEW seqs \in Seq(Seq(S)), NEW v, NEW q,
         \A p \in DOMAIN seqs : p # q => Occurrences(seqs[p], v) = 0
  PROVE  Occurrences(FlattenSeq(seqs), v) =
           IF q \in DOMAIN seqs THEN Occurrences(seqs[q], v) ELSE 0
<1> DEFINE n == Len(seqs)
<1>1. n \in Nat /\ DOMAIN seqs = 1..n /\ \A i \in 1..n : seqs[i] \in Seq(S)
  BY LenProperties, ElementOfSeq
<1>2. CASE n = 0
  <2>1. FlattenSeq(seqs) = seqs /\ DOMAIN seqs = {}
    <3>1. FlattenSeq(seqs) = seqs
      BY <1>1, <1>2, FlattenUnfolds
    <3>2. 1..0 = {}
      OBVIOUS
    <3> QED BY <3>1, <3>2, <1>1, <1>2
  <2>2. PlacesOf(seqs, v) = {}
    BY <2>1 DEF PlacesOf
  <2> QED BY <2>1, <2>2, FS_EmptySet DEF Occurrences
<1>3. CASE n # 0
  <2>1. PICK f : /\ FlattenSeq(seqs) = f[n] /\ f[1] = seqs[1]
                 /\ \A i \in 1..(n - 1) : f[i + 1] = f[i] \o seqs[i + 1]
    BY <1>1, <1>3, FlattenUnfolds
  <2> DEFINE count(k) == IF q \in 1..k THEN Occurrences(seqs[q], v) ELSE 0
             Good == {k \in 1..n : f[k] \in Seq(S) /\ Occurrences(f[k], v) = count(k)}
  <2>2. \A p \in 1..n : Occurrences(seqs[p], v) \in Nat /\ (p # q => Occurrences(seqs[p], v) = 0)
    BY <1>1, OccurrencesAreCounted
  <2> HIDE DEF n
  <2>3. 1 \in Good
    <3>1. 1 \in 1..n /\ (q \in 1..1 <=> q = 1)
      BY <1>1, <1>3
    <3> QED BY <3>1, <2>1, <2>2, <1>1
  <2>4. ASSUME NEW k \in 1..(n - 1), k \in Good PROVE k + 1 \in Good
    <3>1. k \in 1..n /\ k + 1 \in 1..n /\ k \in Nat /\ k + 1 \notin 1..k
      BY <1>1
    <3>2. q \in 1..(k + 1) <=> q \in 1..k \/ q = k + 1
      BY <3>1
    <3>3. f[k + 1] = f[k] \o seqs[k + 1]
      BY <2>1
    <3>4. f[k + 1] \in Seq(S) /\ Occurrences(f[k + 1], v) = count(k) + Occurrences(seqs[k + 1], v)
      BY <3>1, <3>3, <2>4, <1>1, ConcatProperties, OccurrencesOfConcat
    <3>5. count(k) + Occurrences(seqs[k + 1], v) = count(k + 1)
      <4>1. CASE q = k + 1
        BY <4>1, <3>1, <3>2, <2>2
      <4>2. CASE q # k + 1
        <5>1. Occurrences(seqs[k + 1], v) = 0
          BY <4>2, <3>1, <2>2
        <5>2. count(k) \in Nat
          <6>1. q \in 1..k => q \in 1..n
            BY <3>1, <1>1
          <6> QED BY <6>1, <2>2
        <5>3. count(k + 1) = count(k)
          BY <4>2, <3>2
        <5> HIDE DEF count
        <5> QED BY <5>1, <5>2, <5>3
      <4> QED BY <4>1, <4>2
    <3> HIDE DEF count
    <3> QED BY <3>1, <3>4, <3>5
  <2> HIDE DEF Good
  <2>5. 1..n \subseteq Good
    BY <1>1, <2>3, <2>4, HoldsUpTo
  <2>6. n \in Good
    BY <2>5, <1>1, <1>3
  <2> QED BY <2>1, <2>6, <1>1 DEF Good
<1> QED BY <1>2, <1>3

\* A sequence more is put at the end of what was flattened.
LEMMA FlattenAppended ==
  ASSUME NEW S, NEW seqs \in Seq(Seq(S)), NEW s \in Seq(S)
  PROVE  FlattenSeq(Append(seqs, s)) = FlattenSeq(seqs) \o s
<1> DEFINE n == Len(seqs)
           more == Append(seqs, s)
<1>1. /\ n \in Nat /\ DOMAIN seqs = 1..n /\ Len(more) = n + 1
      /\ \A i \in 1..n : more[i] = seqs[i] /\ seqs[i] \in Seq(S)
      /\ more[n + 1] = s
  BY LenProperties, ElementOfSeq, AppendProperties
<1> HIDE DEF n, more
<1>2. PICK g : /\ FlattenSeq(more) = g[n + 1] /\ g[1] = more[1]
               /\ \A i \in 1..n : g[i + 1] = g[i] \o more[i + 1]
  <2>1. Len(more) \in Nat /\ Len(more) # 0 /\ Len(more) - 1 = n
    BY <1>1
  <2>2. \E g : /\ FlattenSeq(more) = g[Len(more)] /\ g[1] = more[1]
               /\ \A i \in 1..(Len(more) - 1) : g[i + 1] = g[i] \o more[i + 1]
    BY <2>1, FlattenUnfolds
  <2> QED BY <2>1, <2>2, <1>1
<1>3. CASE n = 0
  <2>1. FlattenSeq(seqs) = seqs /\ seqs = <<>>
    BY <1>1, <1>3, FlattenUnfolds, EmptySeq DEF n
  <2>2. <<>> \o s = s
    BY ConcatEmptySeq
  <2>3. FlattenSeq(more) = s
    <3>1. n + 1 = 1
      BY <1>3
    <3> QED BY <3>1, <1>1, <1>2
  <2>4. FlattenSeq(more) = FlattenSeq(seqs) \o s
    BY <2>1, <2>2, <2>3
  <2> QED BY <2>4 DEF more
<1>4. CASE n # 0
  <2>1. PICK f : /\ FlattenSeq(seqs) = f[n] /\ f[1] = seqs[1]
                 /\ \A i \in 1..(n - 1) : f[i + 1] = f[i] \o seqs[i + 1]
    BY <1>1, <1>4, FlattenUnfolds DEF n
  <2> DEFINE Good == {k \in 1..n : g[k] = f[k]}
  <2>2. 1 \in Good
    BY <1>1, <1>2, <1>4, <2>1
  <2>3. ASSUME NEW k \in 1..(n - 1), k \in Good PROVE k + 1 \in Good
    <3>1. k \in 1..n /\ k + 1 \in 1..n
      BY <1>1
    <3> QED BY <3>1, <2>1, <2>3, <1>1, <1>2
  <2> HIDE DEF Good
  <2>4. 1..n \subseteq Good
    BY <1>1, <2>2, <2>3, HoldsUpTo
  <2>5. n \in 1..n
    BY <1>1, <1>4
  <2>6. g[n] = f[n]
    BY <2>4, <2>5 DEF Good
  <2>7. FlattenSeq(more) = FlattenSeq(seqs) \o s
    BY <2>1, <2>5, <2>6, <1>1, <1>2
  <2> QED BY <2>7 DEF more
<1> QED BY <1>3, <1>4

-----------------------------------------------------------------------------
(* Postings in order.                                                      *)

\* One more than the number of places before place i.
RankOf(i, n, Before) == Cardinality({j \in 1..n : <<j, i>> \in Before}) + 1

\* In a total order of n places each has a rank of its own, and a later one a higher.
LEMMA PlacesAreRanked ==
  ASSUME NEW n \in Nat, NEW Before,
         \A i \in 1..n : <<i, i>> \notin Before,
         \A i, j, k \in 1..n : <<i, j>> \in Before /\ <<j, k>> \in Before => <<i, k>> \in Before,
         \A i, j \in 1..n : i # j => <<i, j>> \in Before \/ <<j, i>> \in Before
  PROVE  /\ \A i \in 1..n : RankOf(i, n, Before) \in 1..n
         /\ \A i, j \in 1..n :
              <<i, j>> \in Before => RankOf(i, n, Before) < RankOf(j, n, Before)
         /\ \A k \in 1..n : \E i \in 1..n : RankOf(i, n, Before) = k
<1> DEFINE D == 1..n
           below(i) == {j \in D : <<j, i>> \in Before}
           rank == [i \in D |-> Cardinality(below(i)) + 1]
<1>1. IsFiniteSet(D) /\ Cardinality(D) = n
  BY FS_Interval
<1>2. \A i \in D : i \in Nat
  OBVIOUS
<1> HIDE DEF D
<1>3. ASSUME NEW i \in D
      PROVE  /\ IsFiniteSet(below(i)) /\ Cardinality(below(i)) \in Nat
             /\ Cardinality(below(i)) < n /\ i \notin below(i)
  <2>1. below(i) \in SUBSET D /\ i \notin below(i)
    BY DEF D
  <2> HIDE DEF below
  <2>2. /\ IsFiniteSet(below(i)) /\ Cardinality(below(i)) <= n
        /\ n = Cardinality(below(i)) => D = below(i)
    BY <2>1, <1>1, FS_Subset
  <2>3. Cardinality(below(i)) \in Nat
    BY <2>2, FS_CardinalityType
  <2> QED BY <2>1, <2>2, <2>3
<1>4. ASSUME NEW i \in D, NEW j \in D, <<i, j>> \in Before
      PROVE  Cardinality(below(i)) < Cardinality(below(j))
  <2>1. below(i) \in SUBSET below(j) /\ i \in below(j)
    BY <1>4 DEF D
  <2> HIDE DEF below
  <2>2. /\ Cardinality(below(i)) <= Cardinality(below(j))
        /\ Cardinality(below(j)) = Cardinality(below(i)) => below(j) = below(i)
    BY <2>1, <1>3, FS_Subset
  <2> QED BY <2>1, <2>2, <1>3
<1>5. \A i \in D : rank[i] \in D
  <2> TAKE i \in D
  <2> HIDE DEF below
  <2> QED BY <1>3 DEF D
<1>6. rank \in Injection(D, D)
  <2>1. rank \in [D -> D]
    <3> HIDE DEF below
    <3> QED BY <1>5
  <2>2. ASSUME NEW i \in D, NEW j \in D, i # j PROVE rank[i] # rank[j]
    <3>1. <<i, j>> \in Before \/ <<j, i>> \in Before
      BY <2>2 DEF D
    <3> HIDE DEF below
    <3> QED BY <3>1, <1>3, <1>4
  <2> HIDE DEF rank
  <2> QED BY <2>1, <2>2 DEF Injection, IsInjective
<1> HIDE DEF rank
<1>7. rank \in Surjection(D, D)
  BY <1>6, <1>1, FS_Injection
<1>8. \A k \in D : \E i \in D : rank[i] = k
  BY <1>7 DEF Surjection
<1>9. \A i \in D : rank[i] = Cardinality(below(i)) + 1
  BY DEF rank
<1>11. \A i \in D : RankOf(i, n, Before) = rank[i]
  BY <1>9 DEF RankOf, D
<1>10. \A i, j \in D : <<i, j>> \in Before => rank[i] < rank[j]
  <2> HIDE DEF below
  <2> QED BY <1>3, <1>4, <1>9
<1> QED BY <1>5, <1>8, <1>10, <1>11 DEF D

\* No posting is before an earlier one.
Pairs == Nat \X Nat
InOrder(s) == \A i, j \in DOMAIN s : i < j => ~Precedes(s[j], s[i])

\* Sorting keeps every posting as often as it is.
LEMMA SortedIsInOrder ==
  ASSUME NEW range \in Seq(Pairs)
  PROVE  /\ Sorted(range) \in Seq(Pairs) /\ InOrder(Sorted(range))
         /\ \A v : Occurrences(Sorted(range), v) = Occurrences(range, v)
<1> DEFINE n == Len(range)
           before(j, i) == Precedes(range[j], range[i]) \/ (range[j] = range[i] /\ j < i)
           Before == {p \in (1..n) \X (1..n) : before(p[1], p[2])}
           place(i) == RankOf(i, n, Before)
           at(k) == CHOOSE i \in 1..n : place(i) = k
           s == Sorted(range)
<1>1. n \in Nat /\ DOMAIN range = 1..n /\ \A i \in 1..n : range[i] \in Nat \X Nat
  BY LenProperties, ElementOfSeq DEF Pairs
<1>2. \A i, j \in 1..n : <<i, j>> \in Before <=> before(i, j)
  OBVIOUS
<1> HIDE DEF n, Before
<1>3. \A i \in 1..n : /\ i \in Nat /\ range[i] = <<range[i][1], range[i][2]>>
                      /\ range[i][1] \in Nat /\ range[i][2] \in Nat
  BY <1>1
<1>4. \A i \in 1..n : <<i, i>> \notin Before
  BY <1>2, <1>3 DEF Precedes
<1>5. \A i, j, k \in 1..n : <<i, j>> \in Before /\ <<j, k>> \in Before => <<i, k>> \in Before
  <2> TAKE i, j, k \in 1..n
  <2>1. before(i, j) /\ before(j, k) => before(i, k)
    BY SMTT(30), ZenonT(60), <1>3 DEF Precedes
  <2> QED BY <2>1, <1>2
<1>6. \A i, j \in 1..n : i # j => <<i, j>> \in Before \/ <<j, i>> \in Before
  <2> TAKE i, j \in 1..n
  <2>1. i # j => before(i, j) \/ before(j, i)
    BY <1>3 DEF Precedes
  <2> QED BY <2>1, <1>2
<1>7. /\ \A i \in 1..n : place(i) \in 1..n
      /\ \A i, j \in 1..n : <<i, j>> \in Before => place(i) < place(j)
      /\ \A k \in 1..n : \E i \in 1..n : place(i) = k
  BY ZenonT(60), SMTT(30), <1>1, <1>4, <1>5, <1>6, PlacesAreRanked
<1>8. s = [k \in 1..n |-> range[at(k)]]
  <2>1. ASSUME NEW i \in 1..n
        PROVE  Cardinality({j \in DOMAIN range : before(j, i)}) + 1 = place(i)
    <3>1. {j \in DOMAIN range : before(j, i)} = {j \in 1..n : <<j, i>> \in Before}
      BY <1>1, <1>2
    <3> QED BY <3>1 DEF RankOf
  <2>2. s = [k \in DOMAIN range |-> range[CHOOSE i \in DOMAIN range :
                Cardinality({j \in DOMAIN range : before(j, i)}) + 1 = k]]
    BY DEF Sorted
  <2>3. ASSUME NEW k
        PROVE  (CHOOSE i \in DOMAIN range :
                  Cardinality({j \in DOMAIN range : before(j, i)}) + 1 = k) = at(k)
    <3> HIDE DEF place
    <3>1. \A i : i \in DOMAIN range /\ Cardinality({j \in DOMAIN range : before(j, i)}) + 1 = k
                 <=> i \in 1..n /\ place(i) = k
      BY <2>1, <1>1
    <3> QED BY <3>1
  <2> HIDE DEF at
  <2> QED BY <2>2, <2>3, <1>1
<1> HIDE DEF place
<1>9. \A k \in 1..n : at(k) \in 1..n /\ place(at(k)) = k
  BY <1>7
<1> HIDE DEF at
<1>10. s \in Seq(Pairs) /\ DOMAIN s = 1..n
  <2>1. \A k \in 1..n : range[at(k)] \in Pairs
    BY <1>1, <1>9 DEF Pairs
  <2> HIDE DEF s
  <2> QED BY <2>1, <1>1, <1>8, IsASeq
<1> HIDE DEF s
<1>11. InOrder(s)
  <2> SUFFICES ASSUME NEW k \in 1..n, NEW l \in 1..n, k < l
               PROVE  ~Precedes(range[at(l)], range[at(k)])
    BY <1>8, <1>10 DEF InOrder
  <2>1. <<at(l), at(k)>> \notin Before
    <3>1. ~(place(at(l)) < place(at(k)))
      BY <1>9
    <3> QED BY <3>1, <1>7, <1>9
  <2> QED BY <2>1, <1>2, <1>9
<1>12. ASSUME NEW v PROVE Occurrences(s, v) = Occurrences(range, v)
  <2> DEFINE A == PlacesOf(s, v)
             f == [k \in A |-> at(k)]
  <2>1. \A k \in A : k \in 1..n /\ range[at(k)] = v
    BY <1>8, <1>10 DEF PlacesOf
  <2>2. f \in [A -> DOMAIN range]
    BY <2>1, <1>1, <1>9
  <2>3. \A x, y \in A : x # y => f[x] # f[y]
    BY <2>1, <1>9
  <2>4. \A x \in A : range[f[x]] = v
    BY <2>1
  <2>5. \A i \in DOMAIN range : range[i] = v => \E x \in A : f[x] = i
    <3> SUFFICES ASSUME NEW i \in 1..n, range[i] = v PROVE \E x \in A : f[x] = i
      BY <1>1
    <3>1. place(i) \in 1..n
      BY <1>7
    <3>2. at(place(i)) = i
      <4>1. at(place(i)) \in 1..n /\ place(at(place(i))) = place(i)
        BY <3>1, <1>9
      <4>2. ~(<<i, at(place(i))>> \in Before) /\ ~(<<at(place(i)), i>> \in Before)
        <5>1. ~(place(i) < place(i))
          BY <3>1
        <5> QED BY <5>1, <4>1, <1>7
      <4> QED BY <4>1, <4>2, <1>6
    <3>3. place(i) \in A
      BY <3>1, <3>2, <1>8, <1>10 DEF PlacesOf
    <3> QED BY <3>2, <3>3
  <2> HIDE DEF A, f
  <2>6. Counts(f, A, range, v)
    BY <2>2, <2>3, <2>4, <2>5 DEF Counts
  <2>7. Cardinality(A) = Occurrences(range, v)
    BY <2>6, SameOccurrences
  <2> QED BY <2>7 DEF Occurrences, A
<1> QED BY <1>10, <1>11, <1>12 DEF s

-----------------------------------------------------------------------------
(* Lists of documents and frequencies.                                     *)

\* The documents that are counted in ascending order, each with its count.
Tallies(docs, freqs, c) ==
  /\ docs \in Seq(Nat) /\ freqs \in Seq(Nat) /\ Len(docs) = Len(freqs)
  /\ \A i, j \in DOMAIN docs : i < j => docs[i] < docs[j]
  /\ \A i \in DOMAIN docs : freqs[i] = c[docs[i]] /\ c[docs[i]] > 0
  /\ \A d \in Nat : c[d] > 0 => \E i \in DOMAIN docs : docs[i] = d

Lists == [docs : Seq(Nat), freqs : Seq(Nat)]
IsListing(list, c) == list \in Lists /\ Tallies(list.docs, list.freqs, c)

\* Counts of documents that are the sum of two.
IsSum(c, c1, c2) ==
  /\ c1 \in [Nat -> Nat] /\ c2 \in [Nat -> Nat]
  /\ \A d \in Nat : c[d] = c1[d] + c2[d]

\* Every document of the one list is before those of the other.
BeforeAll(s, t) == \A i \in DOMAIN s, j \in DOMAIN t : s[i] < t[j]

\* A list of documents has as many frequencies, and its documents ascend.
LEMMA TalliesUnfold ==
  ASSUME NEW s, NEW f, NEW c, Tallies(s, f, c)
  PROVE  /\ s \in Seq(Nat) /\ f \in Seq(Nat) /\ Len(s) \in Nat /\ Len(f) = Len(s)
         /\ DOMAIN s = 1..Len(s) /\ DOMAIN f = 1..Len(s)
         /\ \A i \in 1..Len(s) : s[i] \in Nat /\ f[i] \in Nat
         /\ s # <<>> => Len(s) >= 1
         /\ \A i, j \in 1..Len(s) : i < j => s[i] < s[j]
         /\ \A i \in 1..Len(s) : f[i] = c[s[i]] /\ c[s[i]] > 0
         /\ \A d \in Nat : c[d] > 0 => \E i \in 1..Len(s) : s[i] = d
<1>1. s \in Seq(Nat) /\ f \in Seq(Nat) /\ Len(s) = Len(f)
  BY DEF Tallies
<1>2. Len(s) \in Nat /\ DOMAIN s = 1..Len(s)
  BY <1>1, LenProperties
<1>3. DOMAIN f = 1..Len(s)
  BY <1>1, LenProperties
<1>4. \A i \in 1..Len(s) : s[i] \in Nat /\ f[i] \in Nat
  BY <1>1, ElementOfSeq
<1>5. s # <<>> => Len(s) >= 1
  BY <1>1, <1>2, EmptySeq
<1>6. /\ \A i, j \in 1..Len(s) : i < j => s[i] < s[j]
      /\ \A i \in 1..Len(s) : f[i] = c[s[i]] /\ c[s[i]] > 0
      /\ \A d \in Nat : c[d] > 0 => \E i \in 1..Len(s) : s[i] = d
  BY <1>2 DEF Tallies
<1> QED BY <1>1, <1>2, <1>3, <1>4, <1>5, <1>6

\* Two sequences one after the other.
LEMMA ConcatUnfolds ==
  ASSUME NEW S, NEW s \in Seq(S), NEW t \in Seq(S), NEW m \in Nat, NEW n \in Nat,
         Len(s) = m, Len(t) = n
  PROVE  /\ s \o t \in Seq(S) /\ Len(s \o t) = m + n /\ DOMAIN (s \o t) = 1..(m + n)
         /\ \A i \in 1..m : i \in 1..(m + n) /\ (s \o t)[i] = s[i]
         /\ \A i \in 1..n : m + i \in 1..(m + n) /\ (s \o t)[m + i] = t[i]
         /\ \A i \in 1..(m + n) : i \in 1..m \/ (i - m \in 1..n /\ (s \o t)[i] = t[i - m])
<1>1. /\ s \o t \in Seq(S) /\ Len(s \o t) = m + n
      /\ \A i \in 1..(m + n) : (s \o t)[i] = IF i <= m THEN s[i] ELSE t[i - m]
  BY ConcatProperties
<1>2. DOMAIN (s \o t) = 1..(m + n)
  BY <1>1, LenProperties
<1> DEFINE u == s \o t
<1> HIDE DEF u
<1>3. \A i \in 1..(m + n) : u[i] = IF i <= m THEN s[i] ELSE t[i - m]
  BY <1>1 DEF u
<1>4. ASSUME NEW i \in 1..m PROVE i \in 1..(m + n) /\ u[i] = s[i]
  <2>1. i \in 1..(m + n) /\ i <= m
    OBVIOUS
  <2> QED BY <2>1, <1>3
<1>5. ASSUME NEW i \in 1..n PROVE m + i \in 1..(m + n) /\ u[m + i] = t[i]
  <2>1. m + i \in 1..(m + n) /\ ~(m + i <= m) /\ (m + i) - m = i
    OBVIOUS
  <2> QED BY <2>1, <1>3
<1>6. ASSUME NEW i \in 1..(m + n) PROVE i \in 1..m \/ (i - m \in 1..n /\ u[i] = t[i - m])
  <2>1. i \in 1..m \/ (i - m \in 1..n /\ ~(i <= m))
    OBVIOUS
  <2> QED BY <2>1, <1>3
<1> QED BY <1>1, <1>2, <1>4, <1>5, <1>6 DEF u

\* A list and one of later documents make the list of both.
LEMMA TalliesApart ==
  ASSUME NEW s1, NEW f1, NEW c1, NEW s2, NEW f2, NEW c2, NEW c, Tallies(s1, f1, c1),
         Tallies(s2, f2, c2), IsSum(c, c1, c2), BeforeAll(s1, s2)
  PROVE  Tallies(s1 \o s2, f1 \o f2, c)
<1> DEFINE m == Len(s1)
           n == Len(s2)
           docs == s1 \o s2
           freqs == f1 \o f2
<1>1. /\ s1 \in Seq(Nat) /\ f1 \in Seq(Nat) /\ m \in Nat /\ Len(f1) = m /\ DOMAIN s1 = 1..m
      /\ \A i \in 1..m : s1[i] \in Nat /\ f1[i] \in Nat
      /\ \A i, j \in 1..m : i < j => s1[i] < s1[j]
      /\ \A i \in 1..m : f1[i] = c1[s1[i]] /\ c1[s1[i]] > 0
      /\ \A d \in Nat : c1[d] > 0 => \E i \in 1..m : s1[i] = d
  BY TalliesUnfold
<1>2. /\ s2 \in Seq(Nat) /\ f2 \in Seq(Nat) /\ n \in Nat /\ Len(f2) = n /\ DOMAIN s2 = 1..n
      /\ \A i \in 1..n : s2[i] \in Nat /\ f2[i] \in Nat
      /\ \A i, j \in 1..n : i < j => s2[i] < s2[j]
      /\ \A i \in 1..n : f2[i] = c2[s2[i]] /\ c2[s2[i]] > 0
      /\ \A d \in Nat : c2[d] > 0 => \E i \in 1..n : s2[i] = d
  BY TalliesUnfold
<1>3. /\ docs \in Seq(Nat) /\ Len(docs) = m + n /\ DOMAIN docs = 1..(m + n)
      /\ \A i \in 1..m : i \in 1..(m + n) /\ docs[i] = s1[i]
      /\ \A i \in 1..n : m + i \in 1..(m + n) /\ docs[m + i] = s2[i]
      /\ \A i \in 1..(m + n) : i \in 1..m \/ (i - m \in 1..n /\ docs[i] = s2[i - m])
  <2>1. m \in Nat /\ n \in Nat /\ s1 \in Seq(Nat) /\ s2 \in Seq(Nat)
    BY <1>1, <1>2
  <2> QED BY <2>1, ConcatUnfolds
<1>4. /\ freqs \in Seq(Nat) /\ Len(freqs) = m + n
      /\ \A i \in 1..m : freqs[i] = f1[i]
      /\ \A i \in 1..(m + n) : i \in 1..m \/ (i - m \in 1..n /\ freqs[i] = f2[i - m])
  <2> DEFINE p == Len(f1)
             q == Len(f2)
  <2>1. p \in Nat /\ q \in Nat /\ f1 \in Seq(Nat) /\ f2 \in Seq(Nat)
    BY <1>1, <1>2
  <2>3. p = m /\ q = n
    BY <1>1, <1>2
  <2>2. /\ freqs \in Seq(Nat) /\ Len(freqs) = p + q /\ DOMAIN freqs = 1..(p + q)
        /\ \A i \in 1..p : i \in 1..(p + q) /\ freqs[i] = f1[i]
        /\ \A i \in 1..q : p + i \in 1..(p + q) /\ freqs[p + i] = f2[i]
        /\ \A i \in 1..(p + q) : i \in 1..p \/ (i - p \in 1..q /\ freqs[i] = f2[i - p])
    BY <2>1, ConcatUnfolds
  <2> HIDE DEF m, n, p, q
  <2> QED BY <2>2, <2>3
<1> HIDE DEF docs, freqs, m, n
<1>5. /\ \A d \in Nat : c1[d] \in Nat /\ c2[d] \in Nat
      /\ \A d \in Nat : c[d] = c1[d] + c2[d]
  BY DEF IsSum
<1>7. ASSUME NEW i \in 1..m, NEW j \in 1..n PROVE s1[i] < s2[j] /\ s1[i] # s2[j]
  <2>1. s1[i] < s2[j] /\ s1[i] \in Nat /\ s2[j] \in Nat
    BY <1>1, <1>2 DEF BeforeAll
  <2> QED BY <2>1
<1>8. \A i \in 1..m : c2[s1[i]] = 0
  <2> TAKE i \in 1..m
  <2>1. s1[i] \in Nat /\ c2[s1[i]] \in Nat
    BY <1>1, <1>5
  <2>2. ~(c2[s1[i]] > 0)
    BY <2>1, <1>2, <1>7
  <2> QED BY <2>1, <2>2
<1>9. \A j \in 1..n : c1[s2[j]] = 0
  <2> TAKE j \in 1..n
  <2>1. s2[j] \in Nat /\ c1[s2[j]] \in Nat
    BY <1>2, <1>5
  <2>2. ~(c1[s2[j]] > 0)
    BY <2>1, <1>1, <1>7
  <2> QED BY <2>1, <2>2
<1>10. ASSUME NEW i \in 1..(m + n), NEW j \in 1..(m + n), i < j PROVE docs[i] < docs[j]
  <2>1. CASE j \in 1..m
    <3>1. i \in 1..m
      BY <2>1, <1>1, <1>10
    <3> QED BY <3>1, <2>1, <1>1, <1>3, <1>10
  <2>2. CASE i \in 1..m /\ j - m \in 1..n /\ docs[j] = s2[j - m]
    BY <2>2, <1>3, <1>7
  <2>3. CASE /\ i - m \in 1..n /\ docs[i] = s2[i - m]
             /\ j - m \in 1..n /\ docs[j] = s2[j - m]
    <3>1. i - m < j - m
      BY <1>1, <1>2, <1>10
    <3>2. s2[i - m] < s2[j - m]
      BY <3>1, <2>3, <1>2
    <3> QED BY <3>2, <2>3
  <2> QED BY <2>1, <2>2, <2>3, <1>3
<1>11. ASSUME NEW i \in 1..(m + n) PROVE freqs[i] = c[docs[i]] /\ c[docs[i]] > 0
  <2>1. CASE i \in 1..m
    <3>1. docs[i] = s1[i] /\ freqs[i] = f1[i]
      BY <2>1, <1>3, <1>4
    <3>2. f1[i] = c1[s1[i]] /\ c1[s1[i]] > 0 /\ c2[s1[i]] = 0 /\ c1[s1[i]] \in Nat
          /\ c[s1[i]] = c1[s1[i]] + c2[s1[i]]
      BY <2>1, <1>1, <1>5, <1>8
    <3> QED BY <3>1, <3>2
  <2>2. CASE i \notin 1..m
    <3>1. i - m \in 1..n /\ docs[i] = s2[i - m] /\ freqs[i] = f2[i - m]
      BY <2>2, <1>3, <1>4
    <3> DEFINE j == i - m
    <3>3. j \in 1..n /\ docs[i] = s2[j] /\ freqs[i] = f2[j]
      BY <3>1
    <3> HIDE DEF j
    <3>2. f2[j] = c2[s2[j]] /\ c2[s2[j]] > 0 /\ c1[s2[j]] = 0 /\ c2[s2[j]] \in Nat
          /\ c[s2[j]] = c1[s2[j]] + c2[s2[j]]
      BY <3>3, <1>2, <1>5, <1>9
    <3> QED BY <3>3, <3>2
  <2> QED BY <2>1, <2>2
<1>12. ASSUME NEW d \in Nat, c[d] > 0 PROVE \E i \in 1..(m + n) : docs[i] = d
  <2>1. c1[d] > 0 \/ c2[d] > 0
    BY <1>5, <1>12
  <2>2. CASE c1[d] > 0
    <3>1. PICK i \in 1..m : s1[i] = d
      BY <2>2, <1>1
    <3> QED BY <3>1, <1>3
  <2>3. CASE c2[d] > 0
    <3>1. PICK i \in 1..n : s2[i] = d
      BY <2>3, <1>2
    <3>2. m + i \in 1..(m + n) /\ docs[m + i] = d
      BY <3>1, <1>3
    <3> QED BY <3>2
  <2> QED BY <2>1, <2>2, <2>3
<1>13. Tallies(docs, freqs, c)
  BY <1>3, <1>4, <1>10, <1>11, <1>12 DEF Tallies
<1> QED BY <1>13 DEF docs, freqs

\* Frequencies with more at the end.
MoreAtEnd(new, freqs, more) ==
  /\ new \in Seq(Nat) /\ Len(new) = Len(freqs)
  /\ \A i \in 1..(Len(freqs) - 1) : new[i] = freqs[i]
  /\ new[Len(freqs)] = freqs[Len(freqs)] + more

\* Counts with more for one document.
MoreFor(c, c1, doc, more) ==
  /\ c1 \in [Nat -> Nat] /\ more \in Nat
  /\ \A d \in Nat : c[d] = c1[d] + (IF d = doc THEN more ELSE 0)

\* What is added to the last frequency is counted in the last document.
LEMMA LastAdded ==
  ASSUME NEW s, NEW f, NEW c1, Tallies(s, f, c1), s # <<>>, NEW more, NEW g, MoreAtEnd(g, f, more),
         NEW c, MoreFor(c, c1, s[Len(s)], more)
  PROVE  Tallies(s, g, c)
<1> DEFINE n == Len(s)
<1>1. /\ s \in Seq(Nat) /\ n \in Nat /\ n >= 1 /\ Len(f) = n /\ DOMAIN s = 1..n
      /\ \A i \in 1..n : s[i] \in Nat /\ f[i] \in Nat
      /\ \A i, j \in 1..n : i < j => s[i] < s[j]
      /\ \A i \in 1..n : f[i] = c1[s[i]] /\ c1[s[i]] > 0
      /\ \A d \in Nat : c1[d] > 0 => \E i \in 1..n : s[i] = d
  BY TalliesUnfold
<1>2. /\ \A d \in Nat : c1[d] \in Nat /\ more \in Nat
      /\ \A d \in Nat : c[d] = c1[d] + (IF d = s[n] THEN more ELSE 0)
  BY DEF MoreFor
<1>3. /\ g \in Seq(Nat) /\ Len(g) = n /\ \A i \in 1..(n - 1) : g[i] = f[i]
      /\ g[n] = f[n] + more
  BY <1>1 DEF MoreAtEnd
<1> HIDE DEF n
<1>4. n \in 1..n /\ s[n] \in Nat /\ \A i \in 1..n : i = n \/ (i < n /\ i \in 1..(n - 1))
  BY <1>1
<1>5. \A i \in 1..n : i = n \/ s[i] # s[n]
  <2> TAKE i \in 1..n
  <2>1. i < n => s[i] < s[n]
    BY <1>1, <1>4
  <2>2. s[i] \in Nat /\ s[n] \in Nat
    BY <1>1, <1>4
  <2>3. s[i] < s[n] => s[i] # s[n]
    BY <2>2
  <2> QED BY <2>1, <2>3, <1>4
<1>7. ASSUME NEW i \in 1..n PROVE g[i] = c[s[i]] /\ c[s[i]] > 0
  <2>1. CASE i = n
    <3>1. c[s[n]] = c1[s[n]] + more /\ c1[s[n]] \in Nat /\ more \in Nat
      BY <1>2, <1>4
    <3>2. g[n] = c1[s[n]] + more /\ c1[s[n]] > 0
      BY <1>1, <1>3, <1>4
    <3> QED BY <3>1, <3>2, <2>1
  <2>2. CASE i # n
    <3>1. c[s[i]] = c1[s[i]] + 0 /\ c1[s[i]] \in Nat
      BY <2>2, <1>1, <1>2, <1>5
    <3>2. g[i] = c1[s[i]] /\ c1[s[i]] > 0
      BY <2>2, <1>1, <1>3, <1>4
    <3> QED BY <3>1, <3>2
  <2> QED BY <2>1, <2>2
<1>8. ASSUME NEW d \in Nat, c[d] > 0 PROVE \E i \in 1..n : s[i] = d
  <2>1. CASE d = s[n]
    BY <2>1, <1>4
  <2>2. CASE d # s[n]
    <3>1. c[d] = c1[d] + 0 /\ c1[d] \in Nat
      BY <2>2, <1>2
    <3>2. c1[d] > 0
      BY <3>1, <1>8
    <3> QED BY <3>2, <1>1
  <2> QED BY <2>1, <2>2
<1> QED BY <1>1, <1>3, <1>7, <1>8 DEF Tallies

\* Counts without one document.
Without1(c, c1, doc) ==
  /\ c1 \in [Nat -> Nat]
  /\ \A d \in Nat : c[d] = IF d = doc THEN 0 ELSE c1[d]

\* The list without its first document.
LEMMA HeadDropped ==
  ASSUME NEW s, NEW f, NEW c1, Tallies(s, f, c1), s # <<>>, NEW c, Without1(c, c1, s[1])
  PROVE  Tallies(Tail(s), Tail(f), c)
<1> DEFINE n == Len(s)
           t == Tail(s)
           g == Tail(f)
<1>1. /\ s \in Seq(Nat) /\ f \in Seq(Nat) /\ n \in Nat /\ n >= 1 /\ Len(f) = n
      /\ \A i \in 1..n : s[i] \in Nat /\ f[i] \in Nat
      /\ \A i, j \in 1..n : i < j => s[i] < s[j]
      /\ \A i \in 1..n : f[i] = c1[s[i]] /\ c1[s[i]] > 0
      /\ \A d \in Nat : c1[d] > 0 => \E i \in 1..n : s[i] = d
  BY TalliesUnfold
<1>2. /\ t \in Seq(Nat) /\ Len(t) = n - 1 /\ DOMAIN t = 1..(n - 1)
      /\ \A i \in 1..(n - 1) : t[i] = s[i + 1]
  <2>1. t \in Seq(Nat) /\ Len(t) = n - 1 /\ \A i \in 1..Len(t) : t[i] = s[i + 1]
    BY <1>1, HeadTailProperties
  <2> QED BY <2>1, LenProperties
<1>3. /\ g \in Seq(Nat) /\ Len(g) = n - 1 /\ \A i \in 1..(n - 1) : g[i] = f[i + 1]
  <2>1. f # <<>> /\ f \in Seq(Nat) /\ Len(f) = n
    BY <1>1, EmptySeq
  <2>2. g \in Seq(Nat) /\ Len(g) = Len(f) - 1 /\ \A i \in 1..Len(g) : g[i] = f[i + 1]
    BY <2>1, HeadTailProperties
  <2> QED BY <2>1, <2>2
<1>4. /\ \A d \in Nat : c[d] = IF d = s[1] THEN 0 ELSE c1[d]
  BY DEF Without1
<1> HIDE DEF n, t, g
<1>5. \A i \in 1..(n - 1) : i + 1 \in 1..n /\ 1 < i + 1 /\ 1 \in 1..n
  BY <1>1
<1>7. ASSUME NEW i \in 1..(n - 1) PROVE g[i] = c[t[i]] /\ c[t[i]] > 0
  <2>1. s[1] < s[i + 1] /\ s[1] \in Nat /\ s[i + 1] \in Nat
    BY <1>1, <1>5
  <2>2. s[i + 1] # s[1]
    BY <2>1
  <2>3. c[s[i + 1]] = c1[s[i + 1]]
    BY <2>1, <2>2, <1>4
  <2>4. f[i + 1] = c1[s[i + 1]] /\ c1[s[i + 1]] > 0
    BY <1>1, <1>5
  <2> QED BY <2>3, <2>4, <1>2, <1>3
<1>8. ASSUME NEW d \in Nat, c[d] > 0 PROVE \E i \in 1..(n - 1) : t[i] = d
  <2>1. d # s[1] /\ c1[d] > 0
    <3>1. ~(0 > 0)
      OBVIOUS
    <3> QED BY <3>1, <1>4, <1>8
  <2>2. PICK i \in 1..n : s[i] = d
    BY <2>1, <1>1
  <2>3. i # 1
    BY <2>1, <2>2
  <2>4. i - 1 \in 1..(n - 1) /\ (i - 1) + 1 = i
    BY <2>3, <1>1
  <2>5. t[i - 1] = d
    BY <2>2, <2>4, <1>2
  <2> QED BY <2>4, <2>5
<1>9. ASSUME NEW i \in 1..(n - 1), NEW j \in 1..(n - 1), i < j PROVE t[i] < t[j]
  <2>1. i + 1 \in 1..n /\ j + 1 \in 1..n /\ i + 1 < j + 1
    BY <1>1, <1>9
  <2>2. s[i + 1] < s[j + 1]
    BY <2>1, <1>1
  <2> QED BY <2>2, <1>2
<1>10. Tallies(t, g, c)
  BY <1>2, <1>3, <1>7, <1>8, <1>9 DEF Tallies
<1> QED BY <1>10 DEF t, g

\* The last document is the greatest, the first one the least.
LEMMA EndsOfTallies ==
  ASSUME NEW s, NEW f, NEW c, Tallies(s, f, c), s # <<>>
  PROVE  /\ Len(s) \in DOMAIN s /\ 1 \in DOMAIN s
         /\ Last(s) = s[Len(s)] /\ s[Len(s)] \in Nat /\ c[s[Len(s)]] > 0
         /\ Head(s) = s[1] /\ s[1] \in Nat /\ c[s[1]] > 0
         /\ \A i \in DOMAIN s : s[1] <= s[i] /\ s[i] <= s[Len(s)]
<1> DEFINE n == Len(s)
<1>1. /\ n \in Nat /\ n >= 1 /\ DOMAIN s = 1..n /\ \A i \in 1..n : s[i] \in Nat
      /\ \A i, j \in 1..n : i < j => s[i] < s[j]
      /\ \A i \in 1..n : c[s[i]] > 0
  BY TalliesUnfold
<1>2. Head(s) = s[1] /\ Last(s) = s[n]
  BY DEF Last
<1> HIDE DEF n
<1>3. 1 \in 1..n /\ n \in 1..n /\ \A i \in 1..n : (i = 1 \/ 1 < i) /\ (i = n \/ i < n)
  BY <1>1
<1>4. ASSUME NEW i \in 1..n PROVE s[1] <= s[i] /\ s[i] <= s[n]
  <2>1. /\ i = 1 \/ s[1] < s[i]
        /\ i = n \/ s[i] < s[n]
        /\ s[1] \in Nat /\ s[i] \in Nat /\ s[n] \in Nat
    BY <1>1, <1>3
  <2>2. s[1] <= s[i]
    <3>1. i = 1 => s[1] = s[i]
      OBVIOUS
    <3> QED BY <2>1, <3>1
  <2>3. s[i] <= s[n]
    <3>1. i = n => s[n] = s[i]
      OBVIOUS
    <3> QED BY <2>1, <3>1
  <2> QED BY <2>2, <2>3
<1> QED BY <1>1, <1>2, <1>3, <1>4 DEF n

\* Documents and frequencies that tally are a list.
LEMMA ListingOf ==
  ASSUME NEW s, NEW f, NEW c, Tallies(s, f, c)
  PROVE  IsListing([docs |-> s, freqs |-> f], c)
<1>1. s \in Seq(Nat) /\ f \in Seq(Nat)
  BY DEF Tallies
<1>2. [docs |-> s, freqs |-> f] \in Lists
  BY <1>1 DEF Lists
<1> QED BY <1>2 DEF IsListing

\* join_term makes one list of two whose documents are in order.
LEMMA JoinedListing ==
  ASSUME NEW l1, NEW l2, NEW c1, NEW c2, NEW c, IsListing(l1, c1), IsListing(l2, c2),
         IsSum(c, c1, c2), l1.docs # <<>>, l2.docs # <<>>, Last(l1.docs) <= Head(l2.docs)
  PROVE  IsListing(JoinTerm(l1, l2), c) /\ JoinTerm(l1, l2).docs # <<>>
<1> DEFINE s == l1.docs
           f == l1.freqs
           t == l2.docs
           g == l2.freqs
           m == Len(s)
           h == t[1]
<1>1. Tallies(s, f, c1) /\ Tallies(t, g, c2) /\ s # <<>> /\ t # <<>> /\ Last(s) <= Head(t)
  BY DEF IsListing
<1> HIDE DEF s, f, t, g
<1>2. /\ s \in Seq(Nat) /\ f \in Seq(Nat) /\ m \in Nat /\ m >= 1 /\ Len(f) = m /\ DOMAIN s = 1..m
      /\ \A i \in 1..m : f[i] \in Nat /\ s[i] \in Nat
  BY <1>1, TalliesUnfold
<1>3. t \in Seq(Nat) /\ g \in Seq(Nat) /\ Len(g) = Len(t) /\ Len(t) \in Nat /\ Len(t) >= 1
  BY <1>1, TalliesUnfold
<1>4. /\ Last(s) = s[m] /\ s[m] \in Nat /\ \A i \in 1..m : s[i] <= s[m]
      /\ Head(t) = h /\ h \in Nat /\ \A j \in DOMAIN t : h <= t[j]
  BY <1>1, <1>2, EndsOfTallies
<1> HIDE DEF m, h
<1>5. CASE s[m] = h
  <2> DEFINE e == f[m] + g[1]
             new == Front(f) \o <<e>>
             more == c2[h]
             a == [d \in Nat |-> c1[d] + (IF d = h THEN more ELSE 0)]
             b == [d \in Nat |-> IF d = h THEN 0 ELSE c2[d]]
  <2>1. g[1] = more /\ more \in Nat /\ g # <<>> /\ Head(g) = g[1]
    <3>1. 1 \in 1..Len(t)
      BY <1>3
    <3>2. g[1] = c2[t[1]] /\ g[1] \in Nat
      BY <3>1, <1>1, TalliesUnfold
    <3>3. g # <<>>
      BY <1>3, EmptySeq
    <3> QED BY <3>2, <3>3 DEF h
  <2>2. e \in Nat /\ Last(f) = f[m]
    <3>1. m \in 1..m
      BY <1>2
    <3>2. f[m] \in Nat
      BY <3>1, <1>2
    <3> QED BY <3>2, <2>1, <1>2 DEF Last
  <2>3. MoreAtEnd(new, f, more)
    <3> DEFINE k == m - 1
               front == Front(f)
    <3>1. k \in Nat /\ k + 1 = m
      BY <1>2
    <3>2. front \in Seq(Nat) /\ Len(front) = k /\ \A i \in 1..k : front[i] = f[i]
      <4>1. front = SubSeq(f, 1, k)
        BY <1>2 DEF Front
      <4>2. \A i \in 1..k : i \in 1..m
        BY <3>1, <1>2
      <4> HIDE DEF k
      <4>3. 1 \in Int /\ k \in Int /\ \A i \in 1..k : f[i] \in Nat
        BY <3>1, <4>2, <1>2
      <4>4. /\ SubSeq(f, 1, k) \in Seq(Nat)
            /\ Len(SubSeq(f, 1, k)) = IF 1 <= k THEN k - 1 + 1 ELSE 0
            /\ \A i \in 1..(k - 1 + 1) : SubSeq(f, 1, k)[i] = f[1 + i - 1]
        BY <4>3, SubSeqProperties
      <4>5. k - 1 + 1 = k /\ (IF 1 <= k THEN k - 1 + 1 ELSE 0) = k
            /\ \A i \in 1..k : 1 + i - 1 = i
        BY <3>1
      <4> QED BY <4>1, <4>4, <4>5
    <3>3. <<e>> \in Seq(Nat) /\ Len(<<e>>) = 1 /\ <<e>>[1] = e
      BY <2>2
    <3> HIDE DEF e, front, k
    <3>4. /\ front \o <<e>> \in Seq(Nat) /\ Len(front \o <<e>>) = k + 1
          /\ DOMAIN (front \o <<e>>) = 1..(k + 1)
          /\ \A i \in 1..k : i \in 1..(k + 1) /\ (front \o <<e>>)[i] = front[i]
          /\ \A i \in 1..1 : k + i \in 1..(k + 1) /\ (front \o <<e>>)[k + i] = <<e>>[i]
          /\ \A i \in 1..(k + 1) :
               i \in 1..k \/ (i - k \in 1..1 /\ (front \o <<e>>)[i] = <<e>>[i - k])
      BY <3>1, <3>2, <3>3, ConcatUnfolds
    <3>5. new = front \o <<e>>
      BY DEF front
    <3> HIDE DEF new
    <3>6. new[k + 1] = e
      BY <3>3, <3>4, <3>5
    <3>7. e = f[m] + more
      BY <2>1 DEF e
    <3>8. Len(f) - 1 = k /\ Len(f) = k + 1
      BY <3>1, <1>2
    <3> QED BY ZenonT(60), SMTT(30), <3>1, <3>2, <3>4, <3>5, <3>6, <3>7, <3>8, <1>2 DEF MoreAtEnd
  <2>4. /\ \A d \in Nat : c1[d] \in Nat /\ c2[d] \in Nat /\ c[d] = c1[d] + c2[d]
        /\ c1 \in [Nat -> Nat] /\ c2 \in [Nat -> Nat]
    BY DEF IsSum
  <2>5. Tallies(s, new, a)
    <3>1. MoreFor(a, c1, s[Len(s)], more)
      BY <2>1, <2>4, <1>5 DEF MoreFor, m
    <3> HIDE DEF a, new, more
    <3> QED BY <3>1, <2>3, <1>1, LastAdded
  <2>6. Tallies(Tail(t), Tail(g), b)
    <3>1. Without1(b, c2, t[1])
      BY <2>4 DEF Without1, h
    <3> HIDE DEF b
    <3> QED BY <3>1, <1>1, HeadDropped
  <2>7. IsSum(c, a, b)
    <3>1. a \in [Nat -> Nat] /\ b \in [Nat -> Nat]
      <4> HIDE DEF more
      <4>1. \A d \in Nat : c1[d] \in Nat /\ c2[d] \in Nat /\ more \in Nat
        BY <2>1, <2>4
      <4> QED BY <4>1
    <3>2. ASSUME NEW d \in Nat PROVE c[d] = a[d] + b[d]
      <4>1. c1[d] \in Nat /\ c2[d] \in Nat /\ c[d] = c1[d] + c2[d]
        BY <2>4
      <4>2. CASE d = h
        <5>1. a[d] = c1[d] + c2[d] /\ b[d] = 0
          BY <4>2
        <5> QED BY <5>1, <4>1
      <4>3. CASE d # h
        <5>1. a[d] = c1[d] + 0 /\ b[d] = c2[d]
          BY <4>3
        <5> QED BY <5>1, <4>1
      <4> QED BY <4>2, <4>3
    <3> HIDE DEF a, b
    <3> QED BY <3>1, <3>2 DEF IsSum
  <2>8. BeforeAll(s, Tail(t))
    <3> SUFFICES ASSUME NEW i \in DOMAIN s, NEW j \in DOMAIN Tail(t) PROVE s[i] < Tail(t)[j]
      BY DEF BeforeAll
    <3>1. Tail(t) \in Seq(Nat) /\ Len(Tail(t)) = Len(t) - 1
          /\ \A k \in 1..Len(Tail(t)) : Tail(t)[k] = t[k + 1]
      BY <1>1, <1>3, HeadTailProperties
    <3>2. j \in 1..(Len(t) - 1) /\ Tail(t)[j] = t[j + 1]
      <4>1. DOMAIN Tail(t) = 1..Len(Tail(t))
        BY <3>1, LenProperties
      <4> QED BY <3>1, <4>1
    <3>3. j + 1 \in 1..Len(t) /\ 1 \in 1..Len(t) /\ 1 < j + 1
      BY <3>2, <1>3
    <3>4. t[1] < t[j + 1] /\ t[j + 1] \in Nat
      BY <3>3, <1>1, TalliesUnfold
    <3>5. s[i] <= h /\ s[i] \in Nat /\ h < t[j + 1]
      BY <3>4, <1>2, <1>4, <1>5 DEF h
    <3>6. s[i] < t[j + 1]
      BY <3>4, <3>5, <1>4
    <3> QED BY <3>2, <3>6
  <2>9. Tallies(s \o Tail(t), new \o Tail(g), c)
    <3> HIDE DEF a, b, new
    <3> QED BY <2>5, <2>6, <2>7, <2>8, TalliesApart
  <2>10. JoinTerm(l1, l2) = [docs |-> s \o Tail(t), freqs |-> new \o Tail(g)]
    <3>1. Last(l1.docs) = Head(l2.docs)
      BY <1>4, <1>5 DEF s, t
    <3>2. JoinTerm(l1, l2) = [docs |-> s \o Tail(t),
                              freqs |-> Front(f) \o <<Last(f) + Head(g)>> \o Tail(g)]
      BY <3>1 DEF JoinTerm, s, t, f, g
    <3> QED BY <3>2, <2>1, <2>2
  <2>11. s \o Tail(t) # <<>>
    <3>1. Tail(t) \in Seq(Nat)
      BY <1>1, <1>3, HeadTailProperties
    <3> QED BY <3>1, <1>1, <1>2, ConcatEqualIffEmpty
  <2> HIDE DEF new
  <2>12. IsListing([docs |-> s \o Tail(t), freqs |-> new \o Tail(g)], c)
    BY <2>9, ListingOf
  <2>13. JoinTerm(l1, l2).docs = s \o Tail(t)
    BY <2>10
  <2> QED BY <2>10, <2>11, <2>12, <2>13
<1>6. CASE s[m] # h
  <2>1. BeforeAll(s, t)
    <3> SUFFICES ASSUME NEW i \in DOMAIN s, NEW j \in DOMAIN t PROVE s[i] < t[j]
      BY DEF BeforeAll
    <3>1. s[i] <= s[m] /\ s[m] <= h /\ h <= t[j] /\ s[i] \in Nat
      BY <1>1, <1>2, <1>4
    <3>2. t[j] \in Nat
      BY <1>3
    <3> QED BY <3>1, <3>2, <1>4, <1>6
  <2>2. JoinTerm(l1, l2) = [docs |-> s \o t, freqs |-> f \o g]
    <3>1. Last(l1.docs) # Head(l2.docs)
      BY <1>4, <1>6 DEF s, t
    <3> QED BY <3>1 DEF JoinTerm, s, t, f, g
  <2>3. s \o t # <<>>
    BY <1>1, <1>2, <1>3, ConcatEqualIffEmpty
  <2>4. Tallies(s \o t, f \o g, c)
    BY <2>1, <1>1, TalliesApart
  <2>5. IsListing([docs |-> s \o t, freqs |-> f \o g], c)
    BY <2>4, ListingOf
  <2>6. JoinTerm(l1, l2).docs = s \o t
    BY <2>2
  <2> QED BY <2>2, <2>3, <2>5, <2>6
<1> QED BY <1>5, <1>6

-----------------------------------------------------------------------------
(* Runs of equal postings.                                                 *)

\* How often each document is in the postings of a term.
TermCounts(s, t) == [d \in Nat |-> Occurrences(s, <<t, d>>)]

\* The counts of a term are numbers, positive where the term has a posting.
LEMMA TermIsCounted ==
  ASSUME NEW s \in Seq(Pairs), NEW t \in Nat
  PROVE  /\ TermCounts(s, t) \in [Nat -> Nat]
         /\ \A d \in Nat : /\ TermCounts(s, t)[d] = Occurrences(s, <<t, d>>)
                           /\ TermCounts(s, t)[d] > 0 <=> \E i \in DOMAIN s : s[i] = <<t, d>>
<1>1. \A d : /\ Occurrences(s, <<t, d>>) \in Nat
             /\ Occurrences(s, <<t, d>>) = 0 <=> \A i \in DOMAIN s : s[i] # <<t, d>>
  BY OccurrencesAreCounted
<1>2. \A d \in Nat : TermCounts(s, t)[d] = Occurrences(s, <<t, d>>)
  BY DEF TermCounts
<1>3. TermCounts(s, t) \in [Nat -> Nat]
  BY <1>1 DEF TermCounts
<1>4. ASSUME NEW d \in Nat
      PROVE  Occurrences(s, <<t, d>>) > 0 <=> \E i \in DOMAIN s : s[i] = <<t, d>>
  <2>1. Occurrences(s, <<t, d>>) \in Nat
    BY <1>1
  <2>2. Occurrences(s, <<t, d>>) > 0 <=> Occurrences(s, <<t, d>>) # 0
    BY <2>1
  <2> QED BY <2>2, <1>1
<1> QED BY <1>2, <1>3, <1>4

\* A posting has a term and a document.
LEMMA PairsUnfold ==
  ASSUME NEW s \in Seq(Pairs)
  PROVE  /\ Len(s) \in Nat /\ DOMAIN s = 1..Len(s)
         /\ \A i \in 1..Len(s) : /\ s[i] = <<s[i][1], s[i][2]>>
                                 /\ s[i][1] \in Nat /\ s[i][2] \in Nat
<1>1. Len(s) \in Nat /\ DOMAIN s = 1..Len(s)
  BY LenProperties
<1>2. \A i \in 1..Len(s) : s[i] \in Nat \X Nat
  BY ElementOfSeq DEF Pairs
<1> QED BY <1>1, <1>2

\* What is between two equal postings is equal to them.
LEMMA BetweenEqual ==
  ASSUME NEW s \in Seq(Pairs), InOrder(s), NEW i \in DOMAIN s, NEW k \in DOMAIN s,
         NEW j \in DOMAIN s, i <= k, k <= j, s[i] = s[j]
  PROVE  s[k] = s[i]
<1>1. /\ i \in Nat /\ k \in Nat /\ j \in Nat
      /\ s[i] = <<s[i][1], s[i][2]>> /\ s[i][1] \in Nat /\ s[i][2] \in Nat
      /\ s[k] = <<s[k][1], s[k][2]>> /\ s[k][1] \in Nat /\ s[k][2] \in Nat
  <2>1. i \in 1..Len(s) /\ k \in 1..Len(s) /\ j \in 1..Len(s)
    BY PairsUnfold
  <2>2. \A l \in 1..Len(s) : /\ s[l] = <<s[l][1], s[l][2]>>
                             /\ s[l][1] \in Nat /\ s[l][2] \in Nat /\ l \in Nat
    BY PairsUnfold
  <2> QED BY <2>1, <2>2
<1>2. CASE i = k
  BY <1>2
<1>3. CASE k = j
  BY <1>3
<1>4. CASE i < k /\ k < j
  <2>1. ~Precedes(s[k], s[i]) /\ ~Precedes(s[i], s[k])
    BY <1>4 DEF InOrder
  <2>2. s[k][1] = s[i][1] /\ s[k][2] = s[i][2]
    BY <2>1, <1>1 DEF Precedes
  <2> QED BY <2>2, <1>1
<1> QED BY <1>1, <1>2, <1>3, <1>4

\* The first posting of a run.
StartsRun(range, i) == i = 1 \/ range[i] # range[i - 1]

\* A run holds all postings that are equal to its first.
LEMMA RunsAreWhole ==
  ASSUME NEW range \in Seq(Pairs), InOrder(range), NEW i \in DOMAIN range, StartsRun(range, i)
  PROVE  /\ RunEnd(range, i) \in i..Len(range)
         /\ PlacesOf(range, range[i]) = i..RunEnd(range, i)
         /\ RunEnd(range, i) - i + 1 = Occurrences(range, range[i])
<1> DEFINE n == Len(range)
           e == RunEnd(range, i)
           P == PlacesOf(range, range[i])
           ends(x) == /\ \A k \in i..x : range[k] = range[i]
                      /\ x = n \/ range[x + 1] # range[i]
<1>1. n \in Nat /\ DOMAIN range = 1..n
  BY PairsUnfold
<1>2. P = {k \in 1..n : range[k] = range[i]}
  BY <1>1 DEF PlacesOf
<1>3. i \in 1..n
  BY <1>1
<1> HIDE DEF n, P
<1>4. \E x \in i..n : ends(x)
  <2> DEFINE D == {n - k : k \in P}
  <2>1. D \subseteq Nat /\ D # {}
    <3>1. i \in P
      BY <1>2, <1>3
    <3>2. \A k \in P : n - k \in Nat
      BY <1>1, <1>2
    <3> QED BY <3>1, <3>2
  <2>2. PICK r \in D : \A q \in D : r <= q
    <3> HIDE DEF D
    <3> QED BY <2>1, LeastNumber
  <2>3. PICK x \in P : r = n - x
    OBVIOUS
  <2>4. x \in 1..n /\ range[x] = range[i]
    BY <2>3, <1>2
  <2>5. \A k \in P : k <= x
    <3> TAKE k \in P
    <3>1. k \in 1..n /\ n - x <= n - k
      BY <2>2, <2>3, <1>2
    <3> QED BY <3>1, <2>4, <1>1
  <2>6. i <= x
    BY <2>5, <1>2, <1>3
  <2>7. ASSUME NEW k \in i..x PROVE range[k] = range[i]
    <3>1. k \in 1..n /\ i <= k /\ k <= x
      BY <2>4, <1>1, <1>3
    <3> QED BY <3>1, <2>4, <1>1, BetweenEqual
  <2>8. x = n \/ range[x + 1] # range[i]
    <3> SUFFICES ASSUME x # n, range[x + 1] = range[i] PROVE FALSE
      OBVIOUS
    <3>1. x + 1 \in 1..n /\ ~(x + 1 <= x)
      BY <2>4, <1>1
    <3>2. x + 1 \in P
      BY <3>1, <1>2
    <3> QED BY <3>1, <3>2, <2>5
  <2>9. x \in i..n
    BY <2>4, <2>6, <1>1, <1>3
  <2> QED BY <2>7, <2>8, <2>9
<1>5. e = CHOOSE x \in i..n : ends(x)
  BY DEF RunEnd, n
<1>6. e \in i..n /\ ends(e)
  <2> HIDE DEF ends
  <2> QED BY <1>4, <1>5
<1> HIDE DEF e
<1>7. ASSUME NEW k \in P PROVE k \in i..e
  <2>1. k \in 1..n /\ range[k] = range[i]
    BY <1>2
  <2>2. i <= k
    <3> SUFFICES ASSUME k < i PROVE FALSE
      BY <2>1, <1>3
    <3>1. i - 1 \in 1..n /\ k <= i - 1 /\ i - 1 <= i /\ i # 1
      BY <2>1, <1>1, <1>3
    <3>2. range[i - 1] = range[k]
      BY <3>1, <2>1, <1>1, <1>3, BetweenEqual
    <3> QED BY <3>1, <3>2, <2>1 DEF StartsRun
  <2>3. k <= e
    <3> SUFFICES ASSUME e < k PROVE FALSE
      BY <2>1, <1>1, <1>3, <1>6
    <3>1. e + 1 \in 1..n /\ i <= e + 1 /\ e + 1 <= k /\ e # n
      BY <2>1, <1>1, <1>3, <1>6
    <3>2. range[e + 1] = range[i]
      BY <3>1, <2>1, <1>1, <1>3, BetweenEqual
    <3> QED BY <3>1, <3>2, <1>6
  <2> QED BY <2>1, <2>2, <2>3, <1>1, <1>3, <1>6
<1>8. ASSUME NEW k \in i..e PROVE k \in P
  <2>1. k \in 1..n
    BY <1>1, <1>3, <1>6
  <2> QED BY <2>1, <1>2, <1>6
<1>9. P = i..e
  BY <1>7, <1>8
<1>10. Cardinality(i..e) = e - i + 1
  <2>1. i \in Int /\ e \in Int /\ ~(i > e)
    BY <1>1, <1>3, <1>6
  <2>2. Cardinality(i..e) = IF i > e THEN 0 ELSE e - i + 1
    BY <2>1, FS_Interval
  <2> QED BY <2>1, <2>2
<1>11. Occurrences(range, range[i]) = Cardinality(P)
  BY DEF Occurrences, P
<1> QED BY <1>6, <1>9, <1>10, <1>11 DEF n, P, e

\* The runs of a term, their documents and their lengths.
RunsOf(range, t) == {i \in DOMAIN range : range[i][1] = t /\ StartsRun(range, i)}
RunDocs(range, t) ==
  [k \in DOMAIN Ascending(RunsOf(range, t)) |-> range[Ascending(RunsOf(range, t))[k]][2]]
RunFreqs(range, t) ==
  [k \in DOMAIN Ascending(RunsOf(range, t)) |->
     RunEnd(range, Ascending(RunsOf(range, t))[k]) - Ascending(RunsOf(range, t))[k] + 1]

\* They are the list of the term.
LEMMA RunsMakeList ==
  ASSUME NEW range \in Seq(Pairs), InOrder(range), NEW t \in Nat
  PROVE  Tallies(RunDocs(range, t), RunFreqs(range, t), TermCounts(range, t))
<1> DEFINE S == RunsOf(range, t)
           a == Ascending(S)
           n == Cardinality(S)
           m == Len(range)
           docs == RunDocs(range, t)
           freqs == RunFreqs(range, t)
           c == TermCounts(range, t)
<1>1. m \in Nat /\ DOMAIN range = 1..m /\ \A i \in 1..m :
        range[i] = <<range[i][1], range[i][2]>> /\ range[i][1] \in Nat /\ range[i][2] \in Nat
  BY PairsUnfold
<1>2. S \in SUBSET (1..m) /\ \A i \in 1..m : i \in S <=> range[i][1] = t /\ StartsRun(range, i)
  BY <1>1 DEF RunsOf
<1> HIDE DEF S, m
<1>3. S \subseteq Int /\ IsFiniteSet(S)
  <2>1. IsFiniteSet(1..m) /\ 1..m \subseteq Int
    BY <1>1, FS_Interval
  <2> QED BY <2>1, <1>2, FS_Subset
<1>4. /\ n \in Nat /\ a \in [1..n -> S] /\ Range(a) = S
      /\ \A i, j \in 1..n : i < j => a[i] < a[j]
  BY <1>3, AscendingSorts
<1>5. DOMAIN a = 1..n
  BY <1>4
<1> HIDE DEF n, a
<1>6. /\ docs = [k \in 1..n |-> range[a[k]][2]]
      /\ freqs = [k \in 1..n |-> RunEnd(range, a[k]) - a[k] + 1]
  BY <1>5 DEF RunDocs, RunFreqs, a, S
<1>7. \A k \in 1..n : /\ a[k] \in 1..m /\ range[a[k]][1] = t /\ StartsRun(range, a[k])
                      /\ range[a[k]][2] \in Nat /\ range[a[k]] = <<t, range[a[k]][2]>>
  <2> TAKE k \in 1..n
  <2>1. a[k] \in S
    BY <1>4
  <2>2. a[k] \in 1..m /\ range[a[k]][1] = t /\ StartsRun(range, a[k])
    BY <2>1, <1>2
  <2> QED BY <2>2, <1>1
<1>8. \A k \in 1..n : RunEnd(range, a[k]) - a[k] + 1 = Occurrences(range, range[a[k]])
  BY <1>1, <1>7, RunsAreWhole
<1> HIDE DEF docs, freqs
<1>9. c \in [Nat -> Nat] /\ \A d \in Nat : /\ c[d] = Occurrences(range, <<t, d>>)
                                           /\ c[d] > 0 <=> \E i \in 1..m : range[i] = <<t, d>>
  <2>1. c \in [Nat -> Nat]
    BY TermIsCounted
  <2>2. \A d \in Nat : /\ c[d] = Occurrences(range, <<t, d>>)
                       /\ c[d] > 0 <=> \E i \in DOMAIN range : range[i] = <<t, d>>
    BY TermIsCounted
  <2> HIDE DEF c
  <2> QED BY <2>1, <2>2, <1>1
<1> HIDE DEF c
<1>10. \A k \in 1..n : docs[k] \in Nat /\ freqs[k] = c[docs[k]] /\ c[docs[k]] > 0
  <2> TAKE k \in 1..n
  <2>1. docs[k] = range[a[k]][2] /\ docs[k] \in Nat /\ range[a[k]] = <<t, docs[k]>>
    BY <1>6, <1>7
  <2>2. freqs[k] = Occurrences(range, <<t, docs[k]>>)
    BY <2>1, <1>6, <1>8
  <2>3. c[docs[k]] > 0
    BY <2>1, <1>7, <1>9
  <2> QED BY <2>1, <2>2, <2>3, <1>9
<1>11. /\ docs \in Seq(Nat) /\ Len(docs) = n /\ DOMAIN docs = 1..n
       /\ freqs \in Seq(Nat) /\ Len(freqs) = n
  <2>1. \A k \in 1..n : range[a[k]][2] \in Nat
    BY <1>7
  <2>2. docs \in Seq(Nat)
    BY <2>1, <1>4, <1>6, IsASeq
  <2>3. \A k \in 1..n : RunEnd(range, a[k]) - a[k] + 1 \in Nat
    <3> TAKE k \in 1..n
    <3>1. range[a[k]][2] \in Nat
      BY <1>7
    <3>2. Occurrences(range, range[a[k]]) \in Nat
      BY OccurrencesAreCounted
    <3> QED BY <3>2, <1>8
  <2>4. freqs \in Seq(Nat)
    BY <2>3, <1>4, <1>6, IsASeq
  <2>5. DOMAIN docs = 1..n /\ DOMAIN freqs = 1..n
    BY <1>6
  <2> QED BY <2>2, <2>4, <2>5, <1>4, LenProperties
<1>12. ASSUME NEW i \in 1..n, NEW j \in 1..n, i < j PROVE docs[i] < docs[j]
  <2> DEFINE x == a[i]
             y == a[j]
  <2>1. /\ x \in 1..m /\ y \in 1..m /\ x < y /\ StartsRun(range, y)
        /\ range[x][1] = t /\ range[y][1] = t /\ range[x][2] \in Nat /\ range[y][2] \in Nat
        /\ range[x] = <<t, range[x][2]>> /\ range[y] = <<t, range[y][2]>>
    BY <1>4, <1>7, <1>12
  <2>2. docs[i] = range[x][2] /\ docs[j] = range[y][2]
    BY <1>6
  <2> HIDE DEF x, y
  <2>3. ~Precedes(range[y], range[x])
    BY <2>1, <1>1 DEF InOrder
  <2>4. ~(range[y][2] < range[x][2])
    BY <2>1, <2>3 DEF Precedes
  <2>5. range[y][2] # range[x][2]
    <3> SUFFICES ASSUME range[y] = range[x] PROVE FALSE
      BY <2>1
    <3>1. y - 1 \in 1..m /\ x <= y - 1 /\ y - 1 <= y /\ y # 1
      BY <2>1, <1>1
    <3>2. range[y - 1] = range[x]
      BY <3>1, <2>1, <1>1, BetweenEqual
    <3> QED BY <3>1, <3>2, <2>1 DEF StartsRun
  <2> QED BY <2>1, <2>2, <2>4, <2>5
<1>13. ASSUME NEW d \in Nat, c[d] > 0 PROVE \E k \in 1..n : docs[k] = d
  <2> DEFINE P == {i \in 1..m : range[i] = <<t, d>>}
  <2>1. P \subseteq Nat /\ P # {}
    <3>1. PICK i \in 1..m : range[i] = <<t, d>>
      BY <1>9, <1>13
    <3>2. i \in P
      BY <3>1
    <3>3. \A j \in P : j \in Nat
      OBVIOUS
    <3> QED BY <3>2, <3>3
  <2>2. PICK i \in P : \A j \in P : i <= j
    <3> HIDE DEF P
    <3> QED BY <2>1, LeastNumber
  <2>3. i \in 1..m /\ range[i] = <<t, d>>
    OBVIOUS
  <2>4. StartsRun(range, i)
    <3> SUFFICES ASSUME i # 1, range[i] = range[i - 1] PROVE FALSE
      BY DEF StartsRun
    <3>1. i - 1 \in 1..m /\ ~(i <= i - 1)
      BY <2>3, <1>1
    <3>2. i - 1 \in P
      BY <3>1, <2>3
    <3> HIDE DEF P
    <3> QED BY <3>1, <3>2, <2>2
  <2>5. range[i][1] = t
    BY <2>3
  <2>6. i \in S
    BY <2>3, <2>4, <2>5, <1>2
  <2>7. PICK k \in 1..n : a[k] = i
    BY <2>6, <1>4, <1>5 DEF Range
  <2>8. docs[k] = d
    BY <2>3, <2>7, <1>6
  <2> QED BY <2>8
<1>14. Tallies(docs, freqs, c)
  BY <1>10, <1>11, <1>12, <1>13 DEF Tallies
<1> QED BY <1>14 DEF docs, freqs, c

-----------------------------------------------------------------------------
(* What the reduction of a batch has read.                                 *)

\* The lists of all terms that are in some postings.
Represents(lists, s) ==
  /\ DOMAIN lists \subseteq Nat
  /\ \A t \in DOMAIN lists : IsListing(lists[t], TermCounts(s, t)) /\ lists[t].docs # <<>>
  /\ \A t \in Nat \ DOMAIN lists : \A d \in Nat : TermCounts(s, t)[d] = 0

\* No posting is in both.
Apart(u, v) == \A i \in DOMAIN u, j \in DOMAIN v : u[i] # v[j]

\* Of postings in order those of a first part are not after those of the rest.
LEMMA PartsAreInOrder ==
  ASSUME NEW u \in Seq(Pairs), NEW v \in Seq(Pairs), InOrder(u \o v)
  PROVE  /\ u \o v \in Seq(Pairs) /\ InOrder(u) /\ InOrder(v)
         /\ \A i \in DOMAIN u, j \in DOMAIN v : ~Precedes(v[j], u[i])
<1> DEFINE m == Len(u)
           n == Len(v)
           w == u \o v
<1>1. m \in Nat /\ n \in Nat /\ DOMAIN u = 1..m /\ DOMAIN v = 1..n
  BY LenProperties
<1>2. /\ w \in Seq(Pairs) /\ Len(w) = m + n /\ DOMAIN w = 1..(m + n)
      /\ \A i \in 1..m : i \in 1..(m + n) /\ w[i] = u[i]
      /\ \A i \in 1..n : m + i \in 1..(m + n) /\ w[m + i] = v[i]
      /\ \A i \in 1..(m + n) : i \in 1..m \/ (i - m \in 1..n /\ w[i] = v[i - m])
  BY <1>1, ConcatUnfolds
<1>3. InOrder(w)
  OBVIOUS
<1> HIDE DEF m, n, w
<1>4. \A i, j \in 1..(m + n) : i < j => ~Precedes(w[j], w[i])
  BY <1>2, <1>3 DEF InOrder
<1>5. InOrder(u)
  <2> SUFFICES ASSUME NEW i \in 1..m, NEW j \in 1..m, i < j PROVE ~Precedes(u[j], u[i])
    BY <1>1 DEF InOrder
  <2> QED BY <1>2, <1>4
<1>6. InOrder(v)
  <2> SUFFICES ASSUME NEW i \in 1..n, NEW j \in 1..n, i < j PROVE ~Precedes(v[j], v[i])
    BY <1>1 DEF InOrder
  <2>1. m + i < m + j
    BY <1>1
  <2> QED BY <2>1, <1>2, <1>4
<1>7. ASSUME NEW i \in 1..m, NEW j \in 1..n PROVE ~Precedes(v[j], u[i])
  <2>1. i < m + j
    BY <1>1
  <2> QED BY <2>1, <1>2, <1>4
<1> QED BY <1>1, <1>2, <1>5, <1>6, <1>7 DEF w

\* What is counted in both is counted in the one after the other.
LEMMA TermCountsAdd ==
  ASSUME NEW u \in Seq(Pairs), NEW v \in Seq(Pairs), NEW t \in Nat
  PROVE  IsSum(TermCounts(u \o v, t), TermCounts(u, t), TermCounts(v, t))
<1>1. u \o v \in Seq(Pairs)
  BY ConcatProperties
<1>2. TermCounts(u, t) \in [Nat -> Nat] /\ TermCounts(v, t) \in [Nat -> Nat]
  BY TermIsCounted
<1>3. ASSUME NEW d \in Nat
      PROVE  TermCounts(u \o v, t)[d] = TermCounts(u, t)[d] + TermCounts(v, t)[d]
  <2>1. Occurrences(u \o v, <<t, d>>) = Occurrences(u, <<t, d>>) + Occurrences(v, <<t, d>>)
    BY OccurrencesOfConcat
  <2> QED BY <2>1, <1>1, TermIsCounted
<1> QED BY <1>2, <1>3 DEF IsSum

\* Where nothing is added the counts are the same.
LEMMA SameTermCounts ==
  ASSUME NEW u \in Seq(Pairs), NEW v \in Seq(Pairs), NEW t \in Nat
  PROVE  /\ (\A d \in Nat : TermCounts(u, t)[d] = 0) => TermCounts(u \o v, t) = TermCounts(v, t)
         /\ (\A d \in Nat : TermCounts(v, t)[d] = 0) => TermCounts(u \o v, t) = TermCounts(u, t)
<1> DEFINE a == TermCounts(u, t)
           b == TermCounts(v, t)
           c == TermCounts(u \o v, t)
<1>1. u \o v \in Seq(Pairs)
  BY ConcatProperties
<1>2. a \in [Nat -> Nat] /\ b \in [Nat -> Nat] /\ c \in [Nat -> Nat]
  BY <1>1, TermIsCounted
<1>3. \A d \in Nat : c[d] = a[d] + b[d]
  BY TermCountsAdd DEF IsSum
<1> HIDE DEF a, b, c
<1>4. ASSUME \A d \in Nat : a[d] = 0 PROVE c = b
  <2>1. \A d \in Nat : c[d] = b[d]
    <3> TAKE d \in Nat
    <3>1. c[d] = a[d] + b[d] /\ a[d] = 0 /\ b[d] \in Nat
      BY <1>2, <1>3, <1>4
    <3> QED BY <3>1
  <2> QED BY <2>1, <1>2
<1>5. ASSUME \A d \in Nat : b[d] = 0 PROVE c = a
  <2>1. \A d \in Nat : c[d] = a[d]
    <3> TAKE d \in Nat
    <3>1. c[d] = a[d] + b[d] /\ b[d] = 0 /\ a[d] \in Nat
      BY <1>2, <1>3, <1>5
    <3> QED BY <3>1
  <2> QED BY <2>1, <1>2
<1> QED BY <1>4, <1>5 DEF a, b, c

NoList == [docs |-> <<>>, freqs |-> <<>>]

\* The list of no documents.
LEMMA EmptyIsListing ==
  ASSUME NEW c, \A d \in Nat : c[d] = 0
  PROVE  Tallies(<<>>, <<>>, c)
<1>1. <<>> \in Seq(Nat) /\ DOMAIN <<>> = {}
  OBVIOUS
<1>2. \A d \in Nat : ~(c[d] > 0)
  OBVIOUS
<1> QED BY <1>1, <1>2 DEF Tallies

\* The list that a term has, or none.
Old(lists, t) == IF t \in DOMAIN lists THEN lists[t] ELSE NoList

\* What the lists have for a term is a list, empty if they have none.
LEMMA OldIsListing ==
  ASSUME NEW lists, NEW s, Represents(lists, s), NEW t \in Nat
  PROVE  /\ Tallies(Old(lists, t).docs, Old(lists, t).freqs, TermCounts(s, t))
         /\ t \in DOMAIN lists => Old(lists, t).docs # <<>>
<1>1. CASE t \in DOMAIN lists
  <2>1. IsListing(lists[t], TermCounts(s, t)) /\ lists[t].docs # <<>>
    BY <1>1 DEF Represents
  <2> QED BY <2>1, <1>1 DEF IsListing, Old
<1>2. CASE t \notin DOMAIN lists
  <2>1. \A d \in Nat : TermCounts(s, t)[d] = 0
    BY <1>2 DEF Represents
  <2>2. Old(lists, t).docs = <<>> /\ Old(lists, t).freqs = <<>>
    BY <1>2 DEF Old, NoList
  <2> QED BY <2>1, <2>2, <1>2, EmptyIsListing
<1> QED BY <1>1, <1>2

\* What is pushed back for a term.
LEMMA PushRunsUnfolds ==
  ASSUME NEW lists, NEW range
  PROVE  PushRuns(lists, range) =
           [t \in DOMAIN lists \cup {range[i][1] : i \in DOMAIN range} |->
              [docs  |-> Old(lists, t).docs \o RunDocs(range, t),
               freqs |-> Old(lists, t).freqs \o RunFreqs(range, t)]]
  BY DEF PushRuns, Old, NoList, RunDocs, RunFreqs, RunsOf, StartsRun

\* Postings that are not in the lists yet are pushed back to them.
LEMMA PushKeeps ==
  ASSUME NEW u \in Seq(Pairs), NEW v \in Seq(Pairs), InOrder(u \o v), Apart(u, v),
         NEW lists, Represents(lists, u)
  PROVE  Represents(PushRuns(lists, v), u \o v)
<1> DEFINE new == PushRuns(lists, v)
           here == {v[i][1] : i \in DOMAIN v}
           list(t) == [docs  |-> Old(lists, t).docs \o RunDocs(v, t),
                       freqs |-> Old(lists, t).freqs \o RunFreqs(v, t)]
<1>1. new = [t \in DOMAIN lists \cup here |-> list(t)]
  BY PushRunsUnfolds
<1> HIDE DEF new
<1>2. /\ \A i \in DOMAIN v : v[i] = <<v[i][1], v[i][2]>> /\ v[i][1] \in Nat /\ v[i][2] \in Nat
      /\ \A i \in DOMAIN u : u[i] = <<u[i][1], u[i][2]>> /\ u[i][1] \in Nat /\ u[i][2] \in Nat
  <2>1. DOMAIN u = 1..Len(u) /\ DOMAIN v = 1..Len(v)
    BY LenProperties
  <2> QED BY <2>1, PairsUnfold
<1>3. DOMAIN lists \subseteq Nat /\ here \subseteq Nat
  BY <1>2 DEF Represents
<1>4. InOrder(v) /\ \A i \in DOMAIN u, j \in DOMAIN v : ~Precedes(v[j], u[i])
  BY PartsAreInOrder
<1>5. ASSUME NEW t \in Nat
      PROVE  Tallies(Old(lists, t).docs \o RunDocs(v, t), Old(lists, t).freqs \o RunFreqs(v, t),
                     TermCounts(u \o v, t))
  <2> DEFINE s == Old(lists, t).docs
             f == Old(lists, t).freqs
  <2>1. Tallies(s, f, TermCounts(u, t))
    BY OldIsListing
  <2>2. Tallies(RunDocs(v, t), RunFreqs(v, t), TermCounts(v, t))
    BY <1>4, RunsMakeList
  <2> HIDE DEF s, f
  <2>3. BeforeAll(s, RunDocs(v, t))
    <3> SUFFICES ASSUME NEW i \in DOMAIN s, NEW j \in DOMAIN RunDocs(v, t)
                 PROVE  s[i] < RunDocs(v, t)[j]
      BY DEF BeforeAll
    <3> DEFINE x == s[i]
               y == RunDocs(v, t)[j]
    <3>1. x \in Nat /\ TermCounts(u, t)[x] > 0
      BY <2>1, TalliesUnfold
    <3>2. y \in Nat /\ TermCounts(v, t)[y] > 0
      BY <2>2, TalliesUnfold
    <3> HIDE DEF x, y
    <3>3. PICK p \in DOMAIN u : u[p] = <<t, x>>
      BY <3>1, TermIsCounted
    <3>4. PICK q \in DOMAIN v : v[q] = <<t, y>>
      BY <3>2, TermIsCounted
    <3>5. ~Precedes(<<t, y>>, <<t, x>>) /\ <<t, x>> # <<t, y>>
      BY <3>3, <3>4, <1>4 DEF Apart
    <3>6. ~(y < x) /\ x # y
      BY <3>5 DEF Precedes
    <3>7. x < y
      BY <3>1, <3>2, <3>6
    <3> QED BY <3>7 DEF x, y
  <2>4. IsSum(TermCounts(u \o v, t), TermCounts(u, t), TermCounts(v, t))
    BY TermCountsAdd
  <2>5. Tallies(s \o RunDocs(v, t), f \o RunFreqs(v, t), TermCounts(u \o v, t))
    BY <2>1, <2>2, <2>3, <2>4, TalliesApart
  <2> QED BY <2>5 DEF s, f
<1>6. ASSUME NEW t \in DOMAIN new
      PROVE  t \in Nat /\ IsListing(new[t], TermCounts(u \o v, t)) /\ new[t].docs # <<>>
  <2>1. t \in DOMAIN lists \cup here /\ t \in Nat /\ new[t] = list(t)
    BY <1>1, <1>3
  <2>2. IsListing(list(t), TermCounts(u \o v, t))
    BY <2>1, <1>5, ListingOf
  <2>3. Old(lists, t).docs \o RunDocs(v, t) # <<>>
    <3>1. Old(lists, t).docs \in Seq(Nat) /\ (t \in DOMAIN lists => Old(lists, t).docs # <<>>)
      BY <2>1, OldIsListing, TalliesUnfold
    <3>2. RunDocs(v, t) \in Seq(Nat) /\ (t \in here => RunDocs(v, t) # <<>>)
      <4>1. Tallies(RunDocs(v, t), RunFreqs(v, t), TermCounts(v, t))
        BY <2>1, <1>4, RunsMakeList
      <4>2. ASSUME t \in here PROVE RunDocs(v, t) # <<>>
        <5>1. PICK i \in DOMAIN v : v[i][1] = t
          BY <4>2
        <5>2. TermCounts(v, t)[v[i][2]] > 0 /\ v[i][2] \in Nat
          <6>1. v[i] = <<t, v[i][2]>> /\ v[i][2] \in Nat
            BY <5>1, <1>2
          <6> QED BY <6>1, <2>1, TermIsCounted
        <5>3. \E k \in 1..Len(RunDocs(v, t)) : RunDocs(v, t)[k] = v[i][2]
          <6> DEFINE r == RunDocs(v, t)
                     g == RunFreqs(v, t)
                     c == TermCounts(v, t)
                     d == v[i][2]
          <6>1. d \in Nat /\ c[d] > 0 /\ Tallies(r, g, c)
            BY <5>2, <4>1
          <6> HIDE DEF r, g, c, d
          <6>2. \E k \in 1..Len(r) : r[k] = d
            BY <6>1, TalliesUnfold
          <6> QED BY <6>2 DEF r, d
        <5>4. Len(<<>>) = 0 /\ 1..0 = {}
          OBVIOUS
        <5> QED BY <5>3, <5>4
      <4> QED BY <4>1, <4>2, TalliesUnfold
    <3> QED BY <2>1, <3>1, <3>2, ConcatEqualIffEmpty
  <2>4. list(t).docs = Old(lists, t).docs \o RunDocs(v, t)
    OBVIOUS
  <2> HIDE DEF list
  <2> QED BY <2>1, <2>2, <2>3, <2>4
<1>7. ASSUME NEW t \in Nat \ DOMAIN new, NEW d \in Nat PROVE TermCounts(u \o v, t)[d] = 0
  <2>1. t \notin DOMAIN lists /\ t \notin here
    BY <1>1
  <2>2. TermCounts(u, t)[d] = 0
    BY <2>1 DEF Represents
  <2>3. TermCounts(v, t)[d] = 0
    <3>1. ~\E i \in DOMAIN v : v[i] = <<t, d>>
      BY <2>1
    <3>2. TermCounts(v, t)[d] \in Nat /\ ~(TermCounts(v, t)[d] > 0)
      BY <3>1, TermIsCounted
    <3> QED BY <3>2
  <2>4. TermCounts(u \o v, t)[d] = TermCounts(u, t)[d] + TermCounts(v, t)[d]
    BY TermCountsAdd DEF IsSum
  <2> QED BY <2>2, <2>3, <2>4
<1>8. Represents(new, u \o v)
  BY <1>6, <1>7 DEF Represents
<1> QED BY <1>8 DEF new

\* Two bodies that have read adjacent postings are joined.
LEMMA JoinedKeeps ==
  ASSUME NEW u \in Seq(Pairs), NEW v \in Seq(Pairs), InOrder(u \o v),
         NEW lists, Represents(lists, u), NEW rhs, Represents(rhs, v)
  PROVE  Represents(Joined(lists, rhs), u \o v)
<1> DEFINE new == Joined(lists, rhs)
<1>1. DOMAIN new = DOMAIN lists \cup DOMAIN rhs
  BY DEF Joined
<1>2. ASSUME NEW t \in DOMAIN new
      PROVE  new[t] = IF t \notin DOMAIN lists THEN rhs[t]
                      ELSE IF t \notin DOMAIN rhs THEN lists[t]
                      ELSE IF Last(lists[t].docs) <= Head(rhs[t].docs)
                           THEN JoinTerm(lists[t], rhs[t])
                      ELSE JoinTerm(rhs[t], lists[t])
  BY <1>1 DEF Joined
<1> HIDE DEF new
<1>3. DOMAIN lists \subseteq Nat /\ DOMAIN rhs \subseteq Nat
  BY DEF Represents
<1>4. \A t \in DOMAIN lists : IsListing(lists[t], TermCounts(u, t)) /\ lists[t].docs # <<>>
  BY DEF Represents
<1>5. \A t \in DOMAIN rhs : IsListing(rhs[t], TermCounts(v, t)) /\ rhs[t].docs # <<>>
  BY DEF Represents
<1>6. ASSUME NEW t \in DOMAIN new
      PROVE  IsListing(new[t], TermCounts(u \o v, t)) /\ new[t].docs # <<>>
  <2>1. t \in Nat
    BY <1>1, <1>3
  <2>2. CASE t \notin DOMAIN lists
    <3>1. \A d \in Nat : TermCounts(u, t)[d] = 0
      BY <2>1, <2>2 DEF Represents
    <3>2. TermCounts(u \o v, t) = TermCounts(v, t)
      BY <2>1, <3>1, SameTermCounts
    <3>3. t \in DOMAIN rhs /\ new[t] = rhs[t]
      BY <2>2, <1>1, <1>2
    <3> QED BY <3>2, <3>3, <1>5
  <2>3. CASE t \notin DOMAIN rhs
    <3>1. \A d \in Nat : TermCounts(v, t)[d] = 0
      BY <2>1, <2>3 DEF Represents
    <3>2. TermCounts(u \o v, t) = TermCounts(u, t)
      BY <2>1, <3>1, SameTermCounts
    <3>3. t \in DOMAIN lists /\ new[t] = lists[t]
      BY <2>3, <1>1, <1>2
    <3> QED BY <3>2, <3>3, <1>4
  <2>4. CASE t \in DOMAIN lists /\ t \in DOMAIN rhs
    <3> DEFINE l == lists[t]
               r == rhs[t]
               x == Last(l.docs)
               y == Head(r.docs)
    <3>1. /\ IsListing(l, TermCounts(u, t)) /\ l.docs # <<>>
          /\ IsListing(r, TermCounts(v, t)) /\ r.docs # <<>>
      BY <2>4, <1>4, <1>5
    <3> HIDE DEF l, r
    <3>2. x \in Nat /\ TermCounts(u, t)[x] > 0
      <4>1. Tallies(l.docs, l.freqs, TermCounts(u, t))
        BY <3>1 DEF IsListing
      <4> QED BY <4>1, <3>1, EndsOfTallies
    <3>3. y \in Nat /\ TermCounts(v, t)[y] > 0
      <4>1. Tallies(r.docs, r.freqs, TermCounts(v, t))
        BY <3>1 DEF IsListing
      <4> QED BY <4>1, <3>1, EndsOfTallies
    <3>4. x <= y
      <4> HIDE DEF x, y
      <4>1. PICK p \in DOMAIN u : u[p] = <<t, x>>
        BY <3>2, <2>1, TermIsCounted
      <4>2. PICK q \in DOMAIN v : v[q] = <<t, y>>
        BY <3>3, <2>1, TermIsCounted
      <4>3. ~Precedes(<<t, y>>, <<t, x>>)
        <5>1. ~Precedes(v[q], u[p])
          BY PartsAreInOrder
        <5> QED BY <5>1, <4>1, <4>2
      <4>4. ~(y < x)
        BY <4>3 DEF Precedes
      <4> QED BY <4>4, <3>2, <3>3
    <3>5. new[t] = JoinTerm(l, r)
      BY <3>4, <2>4, <1>2 DEF l, r
    <3>6. IsSum(TermCounts(u \o v, t), TermCounts(u, t), TermCounts(v, t))
      BY <2>1, TermCountsAdd
    <3>7. IsListing(JoinTerm(l, r), TermCounts(u \o v, t)) /\ JoinTerm(l, r).docs # <<>>
      BY <3>1, <3>4, <3>6, JoinedListing
    <3> QED BY <3>5, <3>7
  <2> QED BY <2>2, <2>3, <2>4
<1>7. ASSUME NEW t \in Nat \ DOMAIN new, NEW d \in Nat PROVE TermCounts(u \o v, t)[d] = 0
  <2>1. t \notin DOMAIN lists /\ t \notin DOMAIN rhs
    BY <1>1
  <2>2. TermCounts(u, t)[d] = 0 /\ TermCounts(v, t)[d] = 0
    BY <2>1 DEF Represents
  <2>4. TermCounts(u \o v, t)[d] = TermCounts(u, t)[d] + TermCounts(v, t)[d]
    BY TermCountsAdd DEF IsSum
  <2> QED BY <2>2, <2>4
<1>8. Represents(new, u \o v)
  BY <1>1, <1>3, <1>6, <1>7 DEF Represents
<1> QED BY <1>8 DEF new

\* The postings up to a place and those after it.
LEMMA CutsInTwo ==
  ASSUME NEW S, NEW s \in Seq(S), NEW k \in 0..Len(s)
  PROVE  /\ SubSeq(s, 1, k) \in Seq(S) /\ Len(SubSeq(s, 1, k)) = k
         /\ \A i \in 1..k : SubSeq(s, 1, k)[i] = s[i]
         /\ SubSeq(s, k + 1, Len(s)) \in Seq(S) /\ Len(SubSeq(s, k + 1, Len(s))) = Len(s) - k
         /\ \A i \in 1..(Len(s) - k) : SubSeq(s, k + 1, Len(s))[i] = s[k + i] /\ k + i \in 1..Len(s)
         /\ SubSeq(s, 1, k) \o SubSeq(s, k + 1, Len(s)) = s
<1> DEFINE n == Len(s)
<1>1. n \in Nat /\ k \in Nat /\ k <= n /\ \A i \in 1..n : s[i] \in S
  BY LenProperties, ElementOfSeq
<1>2. SubSeq(s, 1, k) \o SubSeq(s, k + 1, n) = SubSeq(s, 1, n) /\ SubSeq(s, 1, n) = s
  <2>1. 1 \in 1..(n + 1) /\ k \in (1 - 1)..n /\ n \in k..n
    BY <1>1
  <2>2. SubSeq(s, 1, n) = s
    BY SubSeqFull
  <2>3. SubSeq(s, 1, k) \o SubSeq(s, k + 1, Len(s)) = SubSeq(s, 1, Len(s))
    BY <2>1, ConcatAdjacentSubSeq
  <2> QED BY <2>2, <2>3
<1> HIDE DEF n
<1>3. /\ SubSeq(s, 1, k) \in Seq(S) /\ Len(SubSeq(s, 1, k)) = k
      /\ \A i \in 1..k : SubSeq(s, 1, k)[i] = s[i]
  <2>1. 1 \in Int /\ k \in Int /\ \A i \in 1..k : s[i] \in S
    BY <1>1
  <2>2. /\ SubSeq(s, 1, k) \in Seq(S)
        /\ Len(SubSeq(s, 1, k)) = IF 1 <= k THEN k - 1 + 1 ELSE 0
        /\ \A i \in 1..(k - 1 + 1) : SubSeq(s, 1, k)[i] = s[1 + i - 1]
    BY <2>1, SubSeqProperties
  <2>3. k - 1 + 1 = k /\ (IF 1 <= k THEN k - 1 + 1 ELSE 0) = k /\ \A i \in 1..k : 1 + i - 1 = i
    BY <1>1
  <2> QED BY <2>2, <2>3
<1>4. /\ SubSeq(s, k + 1, n) \in Seq(S) /\ Len(SubSeq(s, k + 1, n)) = n - k
      /\ \A i \in 1..(n - k) : SubSeq(s, k + 1, n)[i] = s[k + i]
  <2>1. k + 1 \in Int /\ n \in Int /\ \A i \in (k + 1)..n : s[i] \in S
    BY <1>1
  <2>2. /\ SubSeq(s, k + 1, n) \in Seq(S)
        /\ Len(SubSeq(s, k + 1, n)) = IF k + 1 <= n THEN n - (k + 1) + 1 ELSE 0
        /\ \A i \in 1..(n - (k + 1) + 1) : SubSeq(s, k + 1, n)[i] = s[(k + 1) + i - 1]
    BY <2>1, SubSeqProperties
  <2>3. n - (k + 1) + 1 = n - k /\ (IF k + 1 <= n THEN n - (k + 1) + 1 ELSE 0) = n - k
        /\ \A i \in 1..(n - k) : (k + 1) + i - 1 = k + i
    BY <1>1
  <2> QED BY <2>2, <2>3
<1>5. \A i \in 1..(n - k) : k + i \in 1..n
  BY <1>1
<1> QED BY <1>2, <1>3, <1>4, <1>5 DEF n

\* The last posting of the first term counts once more for every posting of the run.
LEMMA AddedToLast ==
  ASSUME NEW u \in Seq(Pairs), NEW v \in Seq(Pairs), NEW lists, Represents(lists, u),
         NEW t \in DOMAIN lists, NEW run \in Nat, Len(v) = run,
         \A i \in DOMAIN v : v[i] = <<t, Last(lists[t].docs)>>
  PROVE  Represents([lists EXCEPT ![t].freqs[Len(lists[t].freqs)] = @ + run], u \o v)
<1> DEFINE l == lists[t]
           d == Last(l.docs)
           n == Len(l.docs)
           g == [l.freqs EXCEPT ![Len(l.freqs)] = @ + run]
           new == [lists EXCEPT ![t].freqs[Len(lists[t].freqs)] = @ + run]
<1>1. /\ t \in Nat /\ DOMAIN lists \subseteq Nat /\ l \in Lists /\ l.docs # <<>>
      /\ Tallies(l.docs, l.freqs, TermCounts(u, t))
      /\ \A s \in DOMAIN lists : IsListing(lists[s], TermCounts(u, s)) /\ lists[s].docs # <<>>
  BY DEF Represents, IsListing
<1>2. new = [lists EXCEPT ![t] = [l EXCEPT !.freqs = g]]
  OBVIOUS
<1>3. /\ n \in Nat /\ n >= 1 /\ l.freqs \in Seq(Nat) /\ Len(l.freqs) = n
      /\ d = l.docs[n] /\ d \in Nat
  BY <1>1, TalliesUnfold, EndsOfTallies
<1>4. \A i \in DOMAIN v : v[i] = <<t, d>>
  OBVIOUS
<1> HIDE DEF n, d
<1>5. /\ DOMAIN new = DOMAIN lists
      /\ new[t].docs = l.docs /\ new[t].freqs = g
      /\ \A s \in DOMAIN lists : s # t => new[s] = lists[s]
  <2>1. [l EXCEPT !.freqs = g].docs = l.docs /\ [l EXCEPT !.freqs = g].freqs = g
    <3> HIDE DEF l, g
    <3> QED BY <1>1 DEF Lists
  <2> HIDE DEF l, g
  <2> QED BY <2>1, <1>2
<1>6. MoreAtEnd(g, l.freqs, run)
  <2> DEFINE f == l.freqs
  <2>1. f \in Seq(Nat) /\ Len(f) = n /\ n \in 1..n /\ f[n] \in Nat /\ DOMAIN f = 1..n
    <3>1. n \in 1..n
      BY <1>3
    <3> QED BY <3>1, <1>3, ElementOfSeq, LenProperties
  <2>2. g = [f EXCEPT ![n] = f[n] + run]
    BY <2>1
  <2> HIDE DEF g, f
  <2>3. f[n] + run \in Nat
    BY <2>1
  <2>4. g \in Seq(Nat) /\ Len(g) = n /\ \A j \in 1..n : g[j] = IF j = n THEN f[n] + run ELSE f[j]
    BY <2>1, <2>2, <2>3, ExceptSeq
  <2>5. \A j \in 1..(n - 1) : j \in 1..n /\ j # n
    BY <1>3
  <2>6. MoreAtEnd(g, f, run)
    BY <2>1, <2>4, <2>5 DEF MoreAtEnd
  <2> QED BY <2>6 DEF f
<1>7. ASSUME NEW s \in Nat, NEW e \in Nat
      PROVE  TermCounts(v, s)[e] = IF s = t /\ e = d THEN run ELSE 0
  <2>1. TermCounts(v, s)[e] = Occurrences(v, <<s, e>>)
    BY TermIsCounted
  <2>2. CASE s = t /\ e = d
    <3>1. PlacesOf(v, <<s, e>>) = 1..run
      <4>1. DOMAIN v = 1..run
        BY LenProperties
      <4> QED BY <4>1, <2>2, <1>4 DEF PlacesOf
    <3>2. Cardinality(1..run) = run
      <4>1. Cardinality(1..run) = IF 1 > run THEN 0 ELSE run - 1 + 1
        BY FS_Interval
      <4> QED BY <4>1
    <3> QED BY <3>1, <3>2, <2>1, <2>2 DEF Occurrences
  <2>3. CASE ~(s = t /\ e = d)
    <3>1. PlacesOf(v, <<s, e>>) = {}
      BY <2>3, <1>4 DEF PlacesOf
    <3> QED BY <3>1, <2>1, <2>3, FS_EmptySet DEF Occurrences
  <2> QED BY <2>2, <2>3
<1> HIDE DEF new, g
<1>8. IsListing(new[t], TermCounts(u \o v, t)) /\ new[t].docs # <<>>
  <2> DEFINE a == TermCounts(u, t)
             c == TermCounts(u \o v, t)
  <2>1. MoreFor(c, a, l.docs[Len(l.docs)], run)
    <3>1. a \in [Nat -> Nat]
      BY <1>1, TermIsCounted
    <3>2. \A e \in Nat : c[e] = a[e] + (IF e = d THEN run ELSE 0)
      <4> TAKE e \in Nat
      <4>1. c[e] = a[e] + TermCounts(v, t)[e]
        BY ZenonT(60), SMTT(30), <1>1, TermCountsAdd DEF IsSum
      <4> QED BY <4>1, <1>1, <1>7
    <3>3. d = l.docs[Len(l.docs)]
      BY <1>3 DEF n
    <3> HIDE DEF a, c
    <3> QED BY <3>1, <3>2, <3>3 DEF MoreFor
  <2>2. Tallies(l.docs, g, c)
    BY <2>1, <1>1, <1>6, LastAdded
  <2>3. new[t] \in Lists
    <3>1. g \in Seq(Nat)
      BY <1>6 DEF MoreAtEnd
    <3>2. new[t] = [l EXCEPT !.freqs = g]
      <4> HIDE DEF l
      <4> QED BY <1>2
    <3> HIDE DEF l
    <3> QED BY <3>1, <3>2, <1>1 DEF Lists
  <2> QED BY <2>2, <2>3, <1>1, <1>5 DEF IsListing
<1>9. ASSUME NEW s \in DOMAIN lists, s # t
      PROVE  IsListing(new[s], TermCounts(u \o v, s)) /\ new[s].docs # <<>>
  <2>1. \A e \in Nat : TermCounts(v, s)[e] = 0
    BY <1>1, <1>7, <1>9
  <2>2. TermCounts(u \o v, s) = TermCounts(u, s)
    BY <2>1, <1>1, SameTermCounts
  <2> QED BY <2>2, <1>1, <1>5, <1>9
<1>10. ASSUME NEW s \in Nat \ DOMAIN lists, NEW e \in Nat PROVE TermCounts(u \o v, s)[e] = 0
  <2>1. \A x \in Nat : TermCounts(v, s)[x] = 0
    BY <1>7
  <2>2. TermCounts(u \o v, s) = TermCounts(u, s)
    BY <2>1, SameTermCounts
  <2> QED BY <2>2 DEF Represents
<1>11. Represents(new, u \o v)
  BY <1>1, <1>5, <1>8, <1>9, <1>10 DEF Represents
<1> QED BY <1>11 DEF new

\* A body that reads on adds what it reads to its lists.
LEMMA AccumulatedKeeps ==
  ASSUME NEW u \in Seq(Pairs), NEW v \in Seq(Pairs), v # <<>>, InOrder(u \o v),
         NEW lists, Represents(lists, u)
  PROVE  Represents(Accumulated(lists, v), u \o v)
<1> DEFINE t == v[1][1]
           d == v[1][2]
           m == Len(u)
           n == Len(v)
           run == RunEnd(v, 1)
           continues == t \in DOMAIN lists /\ Last(lists[t].docs) = d
<1>1. m \in Nat /\ n \in Nat /\ n >= 1 /\ DOMAIN u = 1..m /\ DOMAIN v = 1..n /\ 1 \in DOMAIN v
  BY LenProperties, EmptySeq
<1>2. v[1] = <<t, d>> /\ t \in Nat /\ d \in Nat
  BY <1>1, PairsUnfold
<1>3. /\ u \o v \in Seq(Pairs) /\ InOrder(v)
      /\ \A i \in 1..m, j \in 1..n : ~Precedes(v[j], u[i])
  BY <1>1, PartsAreInOrder
<1>4. \A i \in 1..m, j \in 1..n : u[i] = v[j] => v[1] = u[i]
  <2> TAKE i \in 1..m, j \in 1..n
  <2> DEFINE w == u \o v
  <2>1. /\ Len(w) = m + n /\ DOMAIN w = 1..(m + n)
        /\ \A k \in 1..m : k \in 1..(m + n) /\ w[k] = u[k]
        /\ \A k \in 1..n : m + k \in 1..(m + n) /\ w[m + k] = v[k]
        /\ \A k \in 1..(m + n) : k \in 1..m \/ (k - m \in 1..n /\ w[k] = v[k - m])
    BY <1>1, ConcatUnfolds
  <2>2. w \in Seq(Pairs) /\ InOrder(w)
    BY <1>3
  <2> HIDE DEF w, m, n
  <2>3. i <= m + 1 /\ m + 1 <= m + j /\ 1 \in 1..n
    BY <1>1
  <2>4. i \in DOMAIN w /\ m + 1 \in DOMAIN w /\ m + j \in DOMAIN w
        /\ w[i] = u[i] /\ w[m + 1] = v[1] /\ w[m + j] = v[j]
    BY <2>1, <2>3
  <2>5. w[i] = w[m + j] => w[m + 1] = w[i]
    BY <2>2, <2>3, <2>4, BetweenEqual
  <2> QED BY <2>4, <2>5
<1>5. Accumulated(lists, v) =
        IF continues
        THEN PushRuns([lists EXCEPT ![t].freqs[Len(lists[t].freqs)] = @ + run],
                      SubSeq(v, run + 1, n))
        ELSE PushRuns(lists, v)
  BY DEF Accumulated
<1> HIDE DEF t, d, m, n, run
<1>6. CASE continues
  <2> DEFINE v1 == SubSeq(v, 1, run)
             v2 == SubSeq(v, run + 1, n)
             grown == [lists EXCEPT ![t].freqs[Len(lists[t].freqs)] = @ + run]
  <2>1. run \in 1..n /\ PlacesOf(v, v[1]) = 1..run
    <3>1. StartsRun(v, 1)
      BY DEF StartsRun
    <3> QED BY <3>1, <1>1, <1>3, RunsAreWhole DEF run, n
  <2>2. /\ v1 \in Seq(Pairs) /\ Len(v1) = run /\ \A i \in 1..run : v1[i] = v[i]
        /\ v2 \in Seq(Pairs) /\ Len(v2) = n - run
        /\ \A i \in 1..(n - run) : v2[i] = v[run + i] /\ run + i \in 1..n
        /\ v1 \o v2 = v
    <3>1. run \in 0..Len(v)
      BY <2>1 DEF n
    <3> QED BY <3>1, CutsInTwo DEF n
  <2>3. DOMAIN v1 = 1..run /\ DOMAIN v2 = 1..(n - run)
    BY <2>2, LenProperties
  <2> HIDE DEF v1, v2
  <2>4. \A i \in 1..run : v1[i] = <<t, Last(lists[t].docs)>>
    <3> TAKE i \in 1..run
    <3>1. i \in PlacesOf(v, v[1])
      BY <2>1
    <3>2. v[i] = v[1]
      BY <3>1 DEF PlacesOf
    <3> QED BY <3>2, <2>2, <1>2, <1>6
  <2>5. Represents(grown, u \o v1)
    <3>1. run \in Nat
      BY <2>1, <1>1
    <3> QED BY <3>1, <2>2, <2>3, <2>4, <1>6, AddedToLast
  <2>6. u \o v1 \in Seq(Pairs) /\ (u \o v1) \o v2 = u \o v
    <3>1. u \o v1 \in Seq(Pairs)
      BY <2>2, ConcatProperties
    <3>2. (u \o v1) \o v2 = u \o (v1 \o v2)
      <4>1. u \in Seq(Pairs) /\ v1 \in Seq(Pairs) /\ v2 \in Seq(Pairs)
        BY <2>2
      <4> HIDE DEF v1, v2
      <4> QED BY <4>1, ConcatAssociative
    <3>3. v1 \o v2 = v
      BY <2>2
    <3> QED BY <3>1, <3>2, <3>3
  <2>7. Apart(u \o v1, v2)
    <3> SUFFICES ASSUME NEW i \in DOMAIN (u \o v1), NEW j \in 1..(n - run)
                 PROVE  (u \o v1)[i] # v2[j]
      BY <2>3 DEF Apart
    <3>1. v2[j] = v[run + j] /\ run + j \in 1..n /\ v2[j] # v[1]
      <4>1. run + j \notin 1..run
        BY <2>1, <1>1
      <4>2. run + j \notin PlacesOf(v, v[1])
        BY <4>1, <2>1
      <4> QED BY <4>2, <2>2, <1>1 DEF PlacesOf
    <3>2. (u \o v1)[i] \in Range(u) \cup Range(v1)
      <4>1. Range(u \o v1) = Range(u) \cup Range(v1)
        BY <2>2, RangeOfConcat
      <4> QED BY <4>1 DEF Range
    <3>3. CASE (u \o v1)[i] \in Range(u)
      <4>1. PICK k \in 1..m : (u \o v1)[i] = u[k]
        BY <3>3, <1>1 DEF Range
      <4> QED BY <4>1, <3>1, <1>4
    <3>4. CASE (u \o v1)[i] \in Range(v1)
      <4>1. PICK k \in 1..run : (u \o v1)[i] = v1[k]
        BY <3>4, <2>3 DEF Range
      <4>2. (u \o v1)[i] = v[1]
        BY <4>1, <2>4, <1>2, <1>6
      <4> QED BY <4>2, <3>1
    <3> QED BY <3>2, <3>3, <3>4
  <2>8. Represents(PushRuns(grown, v2), (u \o v1) \o v2)
    <3> HIDE DEF grown
    <3> QED BY <2>2, <2>5, <2>6, <2>7, PushKeeps
  <2>9. Accumulated(lists, v) = PushRuns(grown, v2)
    BY <1>5, <1>6 DEF v2
  <2> QED BY <2>6, <2>8, <2>9
<1>7. CASE ~continues
  <2>1. Apart(u, v)
    <3> SUFFICES ASSUME NEW i \in 1..m, NEW j \in 1..n, u[i] = v[j] PROVE FALSE
      BY <1>1 DEF Apart
    <3>1. u[i] = <<t, d>>
      BY <1>2, <1>4
    <3>2. TermCounts(u, t)[d] > 0
      BY <3>1, <1>1, <1>2, TermIsCounted
    <3>3. t \in DOMAIN lists
      <4> SUFFICES ASSUME t \notin DOMAIN lists PROVE FALSE
        OBVIOUS
      <4>1. TermCounts(u, t)[d] = 0
        BY <1>2 DEF Represents
      <4> QED BY <4>1, <3>2
    <3> DEFINE docs == lists[t].docs
               x == Last(docs)
    <3>4. Tallies(docs, lists[t].freqs, TermCounts(u, t)) /\ docs # <<>>
      BY <3>3 DEF Represents, IsListing
    <3> HIDE DEF docs
    <3>5. x \in Nat /\ TermCounts(u, t)[x] > 0 /\ \A k \in DOMAIN docs : docs[k] <= x
      BY <3>4, EndsOfTallies
    <3>6. d <= x
      <4>1. Tallies(docs, lists[t].freqs, TermCounts(u, t))
        BY <3>4
      <4>2. \A e \in Nat :
               TermCounts(u, t)[e] > 0 => \E k \in 1..Len(docs) : docs[k] = e
        BY <4>1, TalliesUnfold
      <4>3. d \in Nat
        BY <1>2
      <4>4. PICK k \in 1..Len(docs) : docs[k] = d
        BY <4>2, <4>3, <3>2
      <4>5. k \in DOMAIN docs
        BY <4>1, TalliesUnfold
      <4> QED BY <4>4, <4>5, <3>5
    <3> HIDE DEF x
    <3>7. PICK p \in 1..m : u[p] = <<t, x>>
      <4>1. \E p \in DOMAIN u : u[p] = <<t, x>>
        BY <3>5, <1>2, TermIsCounted
      <4> QED BY <4>1, <1>1
    <3>8. ~(d < x)
      <4>1. 1 \in 1..n
        BY <1>1
      <4>2. ~Precedes(v[1], u[p])
        BY <4>1, <1>3
      <4> QED BY <4>2, <3>7, <1>2 DEF Precedes
    <3>9. d = x
      BY <3>5, <3>6, <3>8, <1>2
    <3> QED BY <3>3, <3>9, <1>7 DEF x, docs
  <2>2. Represents(PushRuns(lists, v), u \o v)
    BY <2>1, PushKeeps
  <2> QED BY <2>2, <1>5, <1>7
<1> QED BY <1>6, <1>7

-----------------------------------------------------------------------------
(* The postings of a batch.                                                *)

\* At most size elements of a sequence from place first on.
ChunkSize(n, first, size) ==
  IF first + size <= n THEN size ELSE IF first <= n THEN n - first ELSE 0

\* The elements of such a part are those from that place on.
LEMMA ChunkUnfolds ==
  ASSUME NEW S, NEW s \in Seq(S), NEW first \in Nat, NEW size \in Nat
  PROVE  /\ Chunk(s, first, size) \in Seq(S) /\ ChunkSize(Len(s), first, size) \in Nat
         /\ Len(Chunk(s, first, size)) = ChunkSize(Len(s), first, size)
         /\ DOMAIN Chunk(s, first, size) = 1..ChunkSize(Len(s), first, size)
         /\ \A i \in 1..ChunkSize(Len(s), first, size) :
              Chunk(s, first, size)[i] = s[first + i] /\ first + i \in DOMAIN s
<1> DEFINE m == Len(s)
           e == Min({m, first + size})
           n == IF first + size <= m THEN size ELSE IF first <= m THEN m - first ELSE 0
           c == SubSeq(s, first + 1, e)
<1>1. m \in Nat /\ DOMAIN s = 1..m /\ \A i \in 1..m : s[i] \in S
  BY LenProperties, ElementOfSeq
<1>2. e = IF first + size <= m THEN first + size ELSE m
  <2> DEFINE f == first + size
  <2>1. f \in Nat
    OBVIOUS
  <2> HIDE DEF f, m
  <2>2. \A x \in {m, f} : (\A y \in {m, f} : x <= y) <=> x = IF f <= m THEN f ELSE m
    BY <2>1, <1>1
  <2>3. Min({m, f}) = CHOOSE x \in {m, f} : \A y \in {m, f} : x <= y
    BY DEF Min
  <2>4. (IF f <= m THEN f ELSE m) \in {m, f}
    OBVIOUS
  <2>5. Min({m, f}) = IF f <= m THEN f ELSE m
    BY <2>2, <2>3, <2>4
  <2> QED BY <2>5 DEF f
<1> HIDE DEF m, e
<1>3. e \in Nat /\ e <= m /\ n \in Nat
  BY <1>1, <1>2
<1>4. \A i \in (first + 1)..e : s[i] \in S /\ i \in 1..m
  BY <1>1, <1>3
<1>5. /\ c \in Seq(S)
      /\ Len(c) = IF first + 1 <= e THEN e - (first + 1) + 1 ELSE 0
      /\ \A i \in 1..(e - (first + 1) + 1) : c[i] = s[first + 1 + i - 1]
  <2>1. first + 1 \in Int /\ e \in Int /\ \A i \in (first + 1)..e : s[i] \in S
    BY <1>3, <1>4
  <2> QED BY <2>1, SubSeqProperties
<1>6. (IF first + 1 <= e THEN e - (first + 1) + 1 ELSE 0) = n
  BY <1>1, <1>2, <1>3
<1>7. ASSUME NEW i \in 1..n PROVE c[i] = s[first + i] /\ first + i \in 1..m
  <2>1. first + 1 <= e
    BY <1>6, <1>3, <1>7
  <2>2. i \in 1..(e - (first + 1) + 1) /\ first + 1 + i - 1 = first + i
    BY <2>1, <1>3, <1>6
  <2>3. first + i \in 1..m
    BY <2>2, <1>1, <1>3
  <2> QED BY <2>2, <2>3, <1>5
<1>8. c = Chunk(s, first, size)
  BY DEF Chunk, e, m
<1>9. Len(c) = n /\ DOMAIN c = 1..n
  <2>1. Len(c) = n
    BY <1>5, <1>6
  <2> QED BY <2>1, <1>5, LenProperties
<1> HIDE DEF c
<1>10. /\ c \in Seq(S) /\ n \in Nat /\ Len(c) = n /\ DOMAIN c = 1..n
       /\ \A i \in 1..n : c[i] = s[first + i] /\ first + i \in DOMAIN s
  BY <1>1, <1>3, <1>5, <1>7, <1>9
<1> QED BY <1>8, <1>10 DEF m, ChunkSize

\* The same of documents, each a sequence of terms.
IsChunk(b, s, first, n) ==
  /\ Len(b) = n /\ DOMAIN b = 1..n
  /\ \A i \in 1..n : b[i] = s[first + i] /\ first + i \in DOMAIN s

\* A chunk of documents is made of the documents from that place on.
LEMMA DocsChunk ==
  ASSUME NEW docs \in Seq(Seq(Nat)), NEW first \in Nat, NEW size \in Nat
  PROVE  /\ Chunk(docs, first, size) \in Seq(Seq(Nat))
         /\ ChunkSize(Len(docs), first, size) \in Nat
         /\ IsChunk(Chunk(docs, first, size), docs, first, ChunkSize(Len(docs), first, size))
<1> DEFINE batch == Chunk(docs, first, size)
           n == ChunkSize(Len(docs), first, size)
<1>1. batch \in Seq(Seq(Nat))
  BY ChunkUnfolds
<1>2. n \in Nat /\ Len(batch) = n
  BY ChunkUnfolds
<1>3. DOMAIN batch = 1..n
  BY ChunkUnfolds
<1>4. \A i \in 1..n : batch[i] = docs[first + i] /\ first + i \in DOMAIN docs
  BY ChunkUnfolds
<1> QED BY <1>1, <1>2, <1>3, <1>4 DEF IsChunk

\* A posting of the documents from first on occurs as often as the term in the document.
LEMMA PostingsOfDocs ==
  ASSUME NEW docs \in Seq(Seq(Nat)), NEW first \in Nat
  PROVE  /\ MapToPostings(docs, first) \in Seq(Pairs)
         /\ \A t, e \in Nat :
              Occurrences(MapToPostings(docs, first), <<t, e>>) =
                IF e - first + 1 \in DOMAIN docs THEN Occurrences(docs[e - first + 1], t) ELSE 0
<1> DEFINE one(i) == [j \in DOMAIN docs[i] |-> <<docs[i][j], first + i - 1>>]
           all == [i \in DOMAIN docs |-> one(i)]
           n == Len(docs)
<1>1. n \in Nat /\ DOMAIN docs = 1..n /\ \A i \in 1..n : docs[i] \in Seq(Nat)
  BY LenProperties, ElementOfSeq
<1> HIDE DEF n
<1>2. ASSUME NEW i \in 1..n
      PROVE  /\ one(i) \in Seq(Pairs) /\ DOMAIN one(i) = DOMAIN docs[i]
             /\ \A j \in DOMAIN docs[i] : one(i)[j] = <<docs[i][j], first + i - 1>>
  <2>1. DOMAIN docs[i] = 1..Len(docs[i]) /\ Len(docs[i]) \in Nat
    BY <1>1, LenProperties
  <2>2. \A j \in 1..Len(docs[i]) : <<docs[i][j], first + i - 1>> \in Pairs
    <3>1. \A j \in 1..Len(docs[i]) : docs[i][j] \in Nat
      BY <1>1, ElementOfSeq
    <3>2. first + i - 1 \in Nat
      BY <1>1
    <3> QED BY <3>1, <3>2 DEF Pairs
  <2> QED BY <2>1, <2>2, IsASeq
<1>3. all \in Seq(Seq(Pairs)) /\ DOMAIN all = 1..n /\ \A i \in 1..n : all[i] = one(i)
  <2>1. DOMAIN all = 1..n /\ \A i \in 1..n : all[i] = one(i)
    BY <1>1
  <2> HIDE DEF one
  <2> QED BY <2>1, <1>1, <1>2, IsASeq
<1>4. MapToPostings(docs, first) = FlattenSeq(all)
  BY DEF MapToPostings
<1> HIDE DEF all, one
<1>5. ASSUME NEW t \in Nat, NEW e \in Nat
      PROVE  Occurrences(FlattenSeq(all), <<t, e>>) =
               IF e - first + 1 \in DOMAIN docs THEN Occurrences(docs[e - first + 1], t) ELSE 0
  <2> DEFINE q == e - first + 1
  <2>1. ASSUME NEW p \in DOMAIN all, p # q PROVE Occurrences(all[p], <<t, e>>) = 0
    <3>1. p \in 1..n /\ first + p - 1 # e
      BY <2>1, <1>1, <1>3
    <3>2. DOMAIN all[p] = DOMAIN docs[p]
          /\ \A j \in DOMAIN docs[p] : all[p][j] = <<docs[p][j], first + p - 1>>
      BY <3>1, <1>2, <1>3
    <3>3. \A j \in DOMAIN all[p] : all[p][j] # <<t, e>>
      BY <3>1, <3>2
    <3>4. PlacesOf(all[p], <<t, e>>) = {}
      BY <3>3 DEF PlacesOf
    <3> QED BY <3>4, FS_EmptySet DEF Occurrences
  <2>2. ASSUME q \in 1..n PROVE Occurrences(all[q], <<t, e>>) = Occurrences(docs[q], t)
    <3>1. first + q - 1 = e
      OBVIOUS
    <3> HIDE DEF q
    <3>2. DOMAIN all[q] = DOMAIN docs[q]
          /\ \A j \in DOMAIN docs[q] : all[q][j] = <<docs[q][j], e>>
      BY <3>1, <2>2, <1>2, <1>3
    <3>3. \A j \in DOMAIN docs[q] : all[q][j] = <<t, e>> <=> docs[q][j] = t
      BY <3>2
    <3>4. PlacesOf(all[q], <<t, e>>) = PlacesOf(docs[q], t)
      BY <3>2, <3>3 DEF PlacesOf
    <3> QED BY <3>4 DEF Occurrences
  <2> HIDE DEF q
  <2>3. Occurrences(FlattenSeq(all), <<t, e>>) =
          IF q \in DOMAIN all THEN Occurrences(all[q], <<t, e>>) ELSE 0
    BY <2>1, <1>3, OccurrencesOfFlattened
  <2>4. Occurrences(FlattenSeq(all), <<t, e>>) =
          IF q \in DOMAIN docs THEN Occurrences(docs[q], t) ELSE 0
    BY <2>2, <2>3, <1>1, <1>3
  <2> QED BY <2>4 DEF q
<1>6. FlattenSeq(all) \in Seq(Pairs)
  BY <1>3, RangeOfFlattened
<1> QED BY <1>4, <1>5, <1>6

\* A place among n belongs to one of the shares that as many threads take, and to no other.
LEMMA PlacesAreShared ==
  ASSUME NEW n \in Nat, NEW threads \in Nat \ {0}, NEW x \in 1..n
  PROVE  LET share == (n + threads - 1) \div threads
             q == (x - 1) \div share + 1
         IN  /\ share \in Nat \ {0} /\ q \in 1..threads
             /\ (q - 1) * share < x /\ x <= (q - 1) * share + share
             /\ \A p \in 1..threads :
                  (p - 1) * share < x /\ x <= (p - 1) * share + share => p = q
<1> DEFINE share == (n + threads - 1) \div threads
           q == (x - 1) \div share + 1
<1>1. share \in Nat /\ share >= 1 /\ n <= threads * share
  BY Z3
<1> HIDE DEF share
<1>2. x \in Nat /\ x >= 1 /\ x <= n /\ threads \in Nat
  OBVIOUS
<1>3. q - 1 \in Nat /\ (q - 1) * share <= x - 1 /\ x - 1 < (q - 1) * share + share
  <2>1. \A a \in Nat, b \in Nat : b >= 1 =>
          a \div b \in Nat /\ (a \div b) * b <= a /\ a < (a \div b) * b + b
    BY Z3
  <2>2. x - 1 \in Nat /\ q - 1 = (x - 1) \div share
    <3>1. (x - 1) \div share \in Int
      BY <2>1, <1>1, <1>2
    <3> QED BY <3>1, <1>2
  <2> HIDE DEF q
  <2> QED BY <2>1, <2>2, <1>1
<1> HIDE DEF q
<1> DEFINE r == q - 1
<1>4. r \in Nat /\ q = r + 1
  <2>1. q \in Int
    BY <1>1, <1>2, Z3 DEF q
  <2> QED BY <2>1, <1>3
<1>5. r * share <= x - 1 /\ x - 1 < r * share + share
  BY <1>3
<1> HIDE DEF r
<1>6. \A a, b \in Nat : a < b => a * share + share <= b * share /\ a * share \in Nat
  BY <1>1, Z3
<1>7. r < threads
  <2> SUFFICES ASSUME ~(r < threads) PROVE FALSE
    OBVIOUS
  <2>1. threads * share <= r * share
    BY <1>1, <1>2, <1>4, <1>6
  <2>2. r * share \in Int /\ threads * share \in Int
    BY <1>1, <1>2, <1>4
  <2> DEFINE a == r * share
             b == threads * share
  <2>3. a \in Int /\ b \in Int /\ b <= a /\ a <= x - 1 /\ n <= b
    BY <2>1, <2>2, <1>1, <1>5
  <2> HIDE DEF a, b
  <2> QED BY <2>3, <1>2
<1>8. ASSUME NEW p \in 1..threads, (p - 1) * share < x, x <= (p - 1) * share + share
      PROVE  p = q
  <2> DEFINE s == p - 1
             a == r * share
             b == s * share
  <2>1. s \in Nat /\ p = s + 1
    OBVIOUS
  <2> HIDE DEF s
  <2>2. a \in Int /\ b \in Int
    BY <2>1, <1>1, <1>4
  <2>3. a <= x - 1 /\ x - 1 < a + share /\ b < x /\ x <= b + share
    BY <1>5, <1>8 DEF s
  <2>4. (s < r => b + share <= a) /\ (r < s => a + share <= b)
    BY <2>1, <1>4, <1>6
  <2> HIDE DEF a, b
  <2>5. ~(s < r) /\ ~(r < s)
    BY <2>2, <2>3, <2>4, <1>1, <1>2
  <2> QED BY <2>1, <2>5, <1>4
<1>9. q \in 1..threads
  BY <1>2, <1>4, <1>7
<1>10. (q - 1) * share < x /\ x <= (q - 1) * share + share
  <2> DEFINE a == r * share
  <2>1. a \in Int /\ (q - 1) * share = a
    <3>1. q - 1 = r
      BY <1>4
    <3> QED BY <3>1, <1>1, <1>4
  <2>2. a <= x - 1 /\ x - 1 < a + share
    BY <1>5
  <2> HIDE DEF a
  <2> QED BY <2>1, <2>2, <1>1, <1>2
<1> QED BY <1>1, <1>8, <1>9, <1>10 DEF q, share

\* The threads' postings are those of all documents, whatever their number.
LEMMA PostingsOfBatch ==
  ASSUME NEW docs \in Seq(Seq(Nat)), NEW first \in Nat
  PROVE  /\ PostingsOf(docs, first) \in Seq(Pairs)
         /\ \A t, e \in Nat :
              Occurrences(PostingsOf(docs, first), <<t, e>>) =
                IF e - first + 1 \in DOMAIN docs THEN Occurrences(docs[e - first + 1], t) ELSE 0
<1> DEFINE n == Len(docs)
           share == (n + InvertThreads - 1) \div InvertThreads
           from(p) == (p - 1) * share
           part(p) == Chunk(docs, from(p), share)
           one(p) == MapToPostings(part(p), first + from(p))
           all == [p \in 1..InvertThreads |-> one(p)]
<1>1. n \in Nat /\ DOMAIN docs = 1..n /\ InvertThreads \in Nat \ {0}
  BY LenProperties, InversionAssumption
<1>2. PostingsOf(docs, first) = FlattenSeq(all)
  BY DEF PostingsOf
<1>3. share \in Nat
  <2>1. n + InvertThreads - 1 \in Nat
    BY <1>1
  <2> HIDE DEF n
  <2> QED BY <2>1, <1>1, Quotients
<1> HIDE DEF share
<1>4. \A p \in 1..InvertThreads : from(p) \in Nat
  <2> TAKE p \in 1..InvertThreads
  <2>1. p - 1 \in Nat
    BY <1>1
  <2> HIDE DEF n
  <2> QED BY <2>1, <1>3
<1> HIDE DEF from
<1>5. ASSUME NEW p \in 1..InvertThreads
      PROVE  /\ part(p) \in Seq(Seq(Nat))
             /\ \A i : i \in DOMAIN part(p) <=> i \in 1..share /\ from(p) + i \in 1..n
             /\ \A i \in DOMAIN part(p) : part(p)[i] = docs[from(p) + i]
  <2> DEFINE f == from(p)
             m == ChunkSize(n, f, share)
  <2>1. /\ part(p) \in Seq(Seq(Nat)) /\ DOMAIN part(p) = 1..m /\ m \in Nat
        /\ \A i \in 1..m : part(p)[i] = docs[f + i]
    <3>1. f \in Nat /\ share \in Nat
      BY <1>3, <1>4
    <3>2. part(p) = Chunk(docs, f, share)
      OBVIOUS
    <3> HIDE DEF f, part, n
    <3>3. /\ Chunk(docs, f, share) \in Seq(Seq(Nat)) /\ ChunkSize(Len(docs), f, share) \in Nat
          /\ Len(Chunk(docs, f, share)) = ChunkSize(Len(docs), f, share)
          /\ DOMAIN Chunk(docs, f, share) = 1..ChunkSize(Len(docs), f, share)
          /\ \A i \in 1..ChunkSize(Len(docs), f, share) :
               Chunk(docs, f, share)[i] = docs[f + i] /\ f + i \in DOMAIN docs
      <4>1. docs \in Seq(Seq(Nat))
        OBVIOUS
      <4> QED BY <4>1, <3>1, ChunkUnfolds
    <3>4. m = ChunkSize(Len(docs), f, share)
      BY DEF n
    <3> HIDE DEF m
    <3> QED BY <3>2, <3>3, <3>4
  <2>2. f \in Nat
    BY <1>4
  <2> HIDE DEF f, n, part
  <2>3. \A i : i \in 1..m <=> i \in 1..share /\ f + i \in 1..n
    BY <2>2, <1>1, <1>3 DEF ChunkSize
  <2> QED BY <2>1, <2>3 DEF f
<1>6. ASSUME NEW p \in 1..InvertThreads
      PROVE  /\ one(p) \in Seq(Pairs)
             /\ \A t, e \in Nat :
                  Occurrences(one(p), <<t, e>>) =
                    IF e - (first + from(p)) + 1 \in DOMAIN part(p)
                    THEN Occurrences(part(p)[e - (first + from(p)) + 1], t) ELSE 0
  <2>1. first + from(p) \in Nat
    BY <1>4
  <2> HIDE DEF part
  <2> QED BY <2>1, <1>5, PostingsOfDocs
<1> HIDE DEF one, part
<1>7. all \in Seq(Seq(Pairs)) /\ DOMAIN all = 1..InvertThreads
      /\ \A p \in 1..InvertThreads : all[p] = one(p)
  <2> HIDE DEF n
  <2> QED BY <1>1, <1>6, IsASeq
<1> HIDE DEF all
<1>8. FlattenSeq(all) \in Seq(Pairs)
  BY <1>7, RangeOfFlattened
<1>9. ASSUME NEW t \in Nat, NEW e \in Nat
      PROVE  Occurrences(FlattenSeq(all), <<t, e>>) =
               IF e - first + 1 \in 1..n THEN Occurrences(docs[e - first + 1], t) ELSE 0
  <2> DEFINE x == e - first + 1
  <2> HIDE DEF n
  <2>1. x \in Int /\ \A p \in 1..InvertThreads : e - (first + from(p)) + 1 = x - from(p)
    BY <1>4
  <2>2. \A p \in 1..InvertThreads :
          Occurrences(all[p], <<t, e>>) =
            IF x - from(p) \in DOMAIN part(p) THEN Occurrences(part(p)[x - from(p)], t) ELSE 0
    <3> TAKE p \in 1..InvertThreads
    <3> DEFINE y == e - (first + from(p)) + 1
    <3>1. y = x - from(p) /\ all[p] = one(p)
      BY <2>1, <1>7
    <3>2. Occurrences(one(p), <<t, e>>) =
            IF y \in DOMAIN part(p) THEN Occurrences(part(p)[y], t) ELSE 0
      BY <1>6
    <3> HIDE DEF x, y
    <3> QED BY <3>1, <3>2
  <2> HIDE DEF x
  <2>3. ASSUME NEW p \in 1..InvertThreads
        PROVE  /\ x - from(p) \in DOMAIN part(p) <=>
                    x \in 1..n /\ from(p) < x /\ x <= from(p) + share
               /\ x - from(p) \in DOMAIN part(p) => part(p)[x - from(p)] = docs[x]
    <3> DEFINE f == from(p)
               i == x - f
    <3>1. f \in Nat
      BY <1>4
    <3> HIDE DEF f
    <3>2. f + i = x /\ (i \in 1..share <=> f < x /\ x <= f + share)
      BY <3>1, <2>1, <1>3
    <3> HIDE DEF i
    <3>3. i \in DOMAIN part(p) <=> i \in 1..share /\ f + i \in 1..n
      BY <1>5 DEF f
    <3>4. i \in DOMAIN part(p) => part(p)[i] = docs[f + i]
      BY <1>5 DEF f
    <3>5. (i \in DOMAIN part(p) <=> x \in 1..n /\ f < x /\ x <= f + share)
          /\ (i \in DOMAIN part(p) => part(p)[i] = docs[x])
      BY <3>2, <3>3, <3>4
    <3> QED BY <3>5 DEF i, f
  <2>4. CASE x \in 1..n
    <3> DEFINE q == (x - 1) \div share + 1
    <3>1. /\ q \in 1..InvertThreads /\ from(q) < x /\ x <= from(q) + share
          /\ \A p \in 1..InvertThreads : from(p) < x /\ x <= from(p) + share => p = q
      BY <2>4, <1>1, PlacesAreShared DEF share, from, n
    <3> HIDE DEF q
    <3>2. ASSUME NEW p \in DOMAIN all, p # q PROVE Occurrences(all[p], <<t, e>>) = 0
      <4>1. p \in 1..InvertThreads
        BY <1>7
      <4>2. x - from(p) \notin DOMAIN part(p)
        BY <4>1, <3>1, <3>2, <2>3
      <4> QED BY <4>1, <4>2, <2>2
    <3>3. Occurrences(FlattenSeq(all), <<t, e>>) =
            IF q \in DOMAIN all THEN Occurrences(all[q], <<t, e>>) ELSE 0
      BY <3>2, <1>7, OccurrencesOfFlattened
    <3>4. Occurrences(all[q], <<t, e>>) = Occurrences(docs[x], t)
      <4>1. x - from(q) \in DOMAIN part(q) /\ part(q)[x - from(q)] = docs[x]
        BY <3>1, <2>3, <2>4
      <4> QED BY <4>1, <3>1, <2>2
    <3>5. Occurrences(FlattenSeq(all), <<t, e>>) = Occurrences(docs[x], t)
      BY <3>1, <3>3, <3>4, <1>7
    <3> QED BY <3>5, <2>4 DEF x
  <2>5. CASE x \notin 1..n
    <3>1. \A p \in DOMAIN all : Occurrences(all[p], <<t, e>>) = 0
      BY <2>2, <2>3, <2>5, <1>7
    <3>2. Occurrences(FlattenSeq(all), <<t, e>>) =
            IF 0 \in DOMAIN all THEN Occurrences(all[0], <<t, e>>) ELSE 0
      BY <3>1, <1>7, OccurrencesOfFlattened
    <3>3. Occurrences(FlattenSeq(all), <<t, e>>) = 0
      BY <3>1, <3>2
    <3> QED BY <3>3, <2>5 DEF x
  <2> QED BY <2>4, <2>5
<1> QED BY <1>1, <1>2, <1>8, <1>9

-----------------------------------------------------------------------------
(* The bodies of a reduction.                                              *)

\* Parts of postings in order.
LEMMA PartsOf ==
  ASSUME NEW s \in Seq(Pairs), InOrder(s), NEW a \in Nat, NEW b \in Nat, NEW c \in Nat,
         a <= b, b <= c, c <= Len(s)
  PROVE  /\ SubSeq(s, a + 1, b) \in Seq(Pairs) /\ SubSeq(s, b + 1, c) \in Seq(Pairs)
         /\ SubSeq(s, a + 1, b) \o SubSeq(s, b + 1, c) = SubSeq(s, a + 1, c)
         /\ InOrder(SubSeq(s, a + 1, c))
<1>1. Len(s) \in Nat /\ DOMAIN s = 1..Len(s) /\ \A i \in 1..Len(s) : s[i] \in Pairs
  BY LenProperties, ElementOfSeq
<1>2. ASSUME NEW x \in Nat, NEW y \in Nat, x <= y, y <= Len(s)
      PROVE  /\ SubSeq(s, x + 1, y) \in Seq(Pairs) /\ Len(SubSeq(s, x + 1, y)) = y - x
             /\ DOMAIN SubSeq(s, x + 1, y) = 1..(y - x)
             /\ \A i \in 1..(y - x) : SubSeq(s, x + 1, y)[i] = s[x + i] /\ x + i \in 1..Len(s)
  <2>1. x + 1 \in Int /\ y \in Int /\ \A i \in (x + 1)..y : s[i] \in Pairs
    <3>1. \A i \in (x + 1)..y : i \in 1..Len(s)
      BY <1>1, <1>2
    <3> QED BY <3>1, <1>1
  <2>2. /\ SubSeq(s, x + 1, y) \in Seq(Pairs)
        /\ Len(SubSeq(s, x + 1, y)) = IF x + 1 <= y THEN y - (x + 1) + 1 ELSE 0
        /\ \A i \in 1..(y - (x + 1) + 1) : SubSeq(s, x + 1, y)[i] = s[x + 1 + i - 1]
    BY <2>1, SubSeqProperties
  <2>3. /\ y - (x + 1) + 1 = y - x /\ (IF x + 1 <= y THEN y - (x + 1) + 1 ELSE 0) = y - x
        /\ \A i \in 1..(y - x) : x + 1 + i - 1 = x + i /\ x + i \in 1..Len(s)
    BY <1>1, <1>2
  <2>4. Len(SubSeq(s, x + 1, y)) = y - x
    BY <2>2, <2>3
  <2> QED BY <2>2, <2>3, <2>4, LenProperties
<1>3. SubSeq(s, a + 1, b) \o SubSeq(s, b + 1, c) = SubSeq(s, a + 1, c)
  <2> DEFINE m == a + 1
  <2>1. m \in 1..(Len(s) + 1) /\ b \in (m - 1)..Len(s) /\ c \in b..Len(s)
    BY <1>1
  <2> HIDE DEF m
  <2>2. SubSeq(s, m, b) \o SubSeq(s, b + 1, c) = SubSeq(s, m, c)
    BY <2>1, ConcatAdjacentSubSeq
  <2> QED BY <2>2 DEF m
<1>4. InOrder(SubSeq(s, a + 1, c))
  <2> DEFINE w == SubSeq(s, a + 1, c)
  <2>1. DOMAIN w = 1..(c - a) /\ \A i \in 1..(c - a) : w[i] = s[a + i] /\ a + i \in DOMAIN s
    <3>1. a <= c
      OBVIOUS
    <3> QED BY <3>1, <1>1, <1>2
  <2> HIDE DEF w
  <2>2. ASSUME NEW i \in 1..(c - a), NEW j \in 1..(c - a), i < j PROVE ~Precedes(w[j], w[i])
    <3>1. a + i < a + j
      BY <2>2
    <3> QED BY <3>1, <2>1 DEF InOrder
  <2>3. InOrder(w)
    BY <2>1, <2>2 DEF InOrder
  <2> QED BY <2>3 DEF w
<1>7. SubSeq(s, a + 1, b) \in Seq(Pairs) /\ SubSeq(s, b + 1, c) \in Seq(Pairs)
  <2>1. b <= Len(s)
    BY <1>1
  <2> QED BY <2>1, <1>2
<1> QED BY <1>3, <1>4, <1>7

\* A part has the postings after the one place up to the other.
LEMMA PartIsEmpty ==
  ASSUME NEW s \in Seq(Pairs), NEW b \in Nat, NEW c \in Nat, b <= c, c <= Len(s)
  PROVE  SubSeq(s, b + 1, c) = <<>> <=> b = c
<1>1. Len(s) \in Nat /\ DOMAIN s = 1..Len(s) /\ \A i \in 1..Len(s) : s[i] \in Pairs
  BY LenProperties, ElementOfSeq
<1>2. b + 1 \in Int /\ c \in Int /\ \A i \in (b + 1)..c : s[i] \in Pairs
  <2>1. \A i \in (b + 1)..c : i \in 1..Len(s)
    BY <1>1
  <2> QED BY <2>1, <1>1
<1>3. /\ SubSeq(s, b + 1, c) \in Seq(Pairs)
      /\ Len(SubSeq(s, b + 1, c)) = IF b + 1 <= c THEN c - (b + 1) + 1 ELSE 0
  BY <1>2, SubSeqProperties
<1>4. (IF b + 1 <= c THEN c - (b + 1) + 1 ELSE 0) = 0 <=> b = c
  OBVIOUS
<1>5. SubSeq(s, b + 1, c) = <<>> <=> Len(SubSeq(s, b + 1, c)) = 0
  BY <1>3, EmptySeq
<1> QED BY <1>3, <1>4, <1>5

\* Two sequences one after the other, by their lengths.
LEMMA ConcatPlaces ==
  ASSUME NEW S, NEW s \in Seq(S), NEW t \in Seq(S)
  PROVE  /\ s \o t \in Seq(S) /\ Len(s \o t) = Len(s) + Len(t)
         /\ \A i \in 1..Len(s) : (s \o t)[i] = s[i]
         /\ \A i \in 1..Len(t) : (s \o t)[Len(s) + i] = t[i]
<1>1. Len(s) \in Nat /\ Len(t) \in Nat
  BY LenProperties
<1>2. /\ s \o t \in Seq(S) /\ Len(s \o t) = Len(s) + Len(t)
      /\ \A i \in 1..(Len(s) + Len(t)) : (s \o t)[i] = IF i <= Len(s) THEN s[i] ELSE t[i - Len(s)]
  BY ConcatProperties
<1> QED BY <1>1, <1>2

\* An element that is inserted after another.
Inserted(new, s, e, n, b) ==
  /\ Len(new) = n + 1
  /\ \A i \in 1..b : new[i] = s[i]
  /\ new[b + 1] = e
  /\ \A i \in (b + 2)..(n + 1) : new[i] = s[i - 1]

\* InsertAt inserts in this way.
LEMMA InsertedAfter ==
  ASSUME NEW S, NEW s \in Seq(S), NEW e \in S, NEW n \in Nat, Len(s) = n, NEW b \in 1..n,
         NEW place, place = b + 1
  PROVE  InsertAt(s, place, e) \in Seq(S) /\ Inserted(InsertAt(s, place, e), s, e, n, b)
<1>0. \A p, q \in Seq(S) :
        /\ p \o q \in Seq(S) /\ Len(p \o q) = Len(p) + Len(q)
        /\ \A i \in 1..Len(p) : (p \o q)[i] = p[i]
        /\ \A i \in 1..Len(q) : (p \o q)[Len(p) + i] = q[i]
  BY ConcatPlaces
<1> DEFINE u == SubSeq(s, 1, b)
           v == SubSeq(s, b + 1, n)
           w == (u \o <<e>>) \o v
<1>1. /\ u \in Seq(S) /\ Len(u) = b /\ \A i \in 1..b : u[i] = s[i]
      /\ v \in Seq(S) /\ Len(v) = n - b /\ \A i \in 1..(n - b) : v[i] = s[b + i]
  <2>1. b \in 0..Len(s)
    OBVIOUS
  <2> QED BY <2>1, CutsInTwo
<1>2. <<e>> \in Seq(S) /\ Len(<<e>>) = 1 /\ <<e>>[1] = e
  OBVIOUS
<1>3. InsertAt(s, place, e) = w
  <2>1. (b + 1) - 1 = b
    OBVIOUS
  <2> QED BY <2>1 DEF InsertAt
<1> HIDE DEF u, v
<1>4. /\ u \o <<e>> \in Seq(S) /\ Len(u \o <<e>>) = b + 1
      /\ \A i \in 1..b : (u \o <<e>>)[i] = s[i]
      /\ (u \o <<e>>)[b + 1] = e
  <2>1. /\ u \o <<e>> \in Seq(S) /\ Len(u \o <<e>>) = b + 1
        /\ \A i \in 1..b : (u \o <<e>>)[i] = u[i]
        /\ \A i \in 1..1 : (u \o <<e>>)[b + i] = <<e>>[i]
    <3> DEFINE f == <<e>>
               p == 1
    <3>1. b \in Nat /\ p \in Nat /\ u \in Seq(S) /\ f \in Seq(S) /\ Len(u) = b /\ Len(f) = p
      BY <1>1, <1>2
    <3> HIDE DEF f, p
    <3>2. /\ u \o f \in Seq(S) /\ Len(u \o f) = b + p
          /\ \A i \in 1..b : (u \o f)[i] = u[i]
          /\ \A i \in 1..p : (u \o f)[b + i] = f[i]
      <4>1. /\ u \o f \in Seq(S) /\ Len(u \o f) = Len(u) + Len(f)
            /\ \A i \in 1..Len(u) : (u \o f)[i] = u[i]
            /\ \A i \in 1..Len(f) : (u \o f)[Len(u) + i] = f[i]
        BY <3>1, <1>0
      <4> QED BY <3>1, <4>1
    <3> QED BY <3>2 DEF f, p
  <2>2. 1 \in 1..1
    OBVIOUS
  <2> QED BY <2>1, <2>2, <1>1, <1>2
<1> DEFINE x == u \o <<e>>
<1> HIDE DEF x
<1>5. /\ x \o v \in Seq(S) /\ Len(x \o v) = (b + 1) + (n - b)
      /\ \A i \in 1..(b + 1) : (x \o v)[i] = x[i]
      /\ \A i \in 1..(n - b) : (x \o v)[(b + 1) + i] = v[i]
  <2> DEFINE p == b + 1
             q == n - b
  <2>1. p \in Nat /\ q \in Nat /\ x \in Seq(S) /\ Len(x) = p /\ v \in Seq(S) /\ Len(v) = q
    BY <1>1, <1>4 DEF x
  <2> HIDE DEF p, q
  <2>2. /\ x \o v \in Seq(S) /\ Len(x \o v) = p + q
        /\ \A i \in 1..p : (x \o v)[i] = x[i]
        /\ \A i \in 1..q : (x \o v)[p + i] = v[i]
    <3>1. /\ x \o v \in Seq(S) /\ Len(x \o v) = Len(x) + Len(v)
          /\ \A i \in 1..Len(x) : (x \o v)[i] = x[i]
          /\ \A i \in 1..Len(v) : (x \o v)[Len(x) + i] = v[i]
      BY <2>1, <1>0
    <3> QED BY <2>1, <3>1
  <2> QED BY <2>2 DEF p, q
<1>6. w = x \o v
  BY DEF x
<1> HIDE DEF w
<1>7. w \in Seq(S) /\ Len(w) = n + 1
  <2>1. (b + 1) + (n - b) = n + 1
    OBVIOUS
  <2> QED BY <2>1, <1>5, <1>6
<1>8. ASSUME NEW i \in 1..b PROVE w[i] = s[i]
  <2>1. i \in 1..(b + 1)
    OBVIOUS
  <2> QED BY <2>1, <1>4, <1>5, <1>6 DEF x
<1>9. w[b + 1] = e
  <2>1. b + 1 \in 1..(b + 1)
    OBVIOUS
  <2> QED BY <2>1, <1>4, <1>5, <1>6 DEF x
<1>10. ASSUME NEW i \in (b + 2)..(n + 1) PROVE w[i] = s[i - 1]
  <2> DEFINE j == i - (b + 1)
  <2>1. j \in 1..(n - b) /\ (b + 1) + j = i /\ b + j = i - 1
    OBVIOUS
  <2> HIDE DEF j
  <2> QED BY <2>1, <1>1, <1>5, <1>6
<1> QED BY <1>3, <1>7, <1>8, <1>9, <1>10 DEF Inserted

\* An element that is removed after another.
LEMMA RemovedAfter ==
  ASSUME NEW S, NEW s \in Seq(S), NEW n \in Nat, Len(s) = n, NEW b \in 1..(n - 1),
         NEW place, place = b + 1
  PROVE  /\ RemoveAt(s, place) \in Seq(S) /\ Len(RemoveAt(s, place)) = n - 1
         /\ \A i \in 1..b : RemoveAt(s, place)[i] = s[i]
         /\ \A i \in (b + 1)..(n - 1) : RemoveAt(s, place)[i] = s[i + 1]
<1>0. \A p, q \in Seq(S) :
        /\ p \o q \in Seq(S) /\ Len(p \o q) = Len(p) + Len(q)
        /\ \A i \in 1..Len(p) : (p \o q)[i] = p[i]
        /\ \A i \in 1..Len(q) : (p \o q)[Len(p) + i] = q[i]
  BY ConcatPlaces
<1> DEFINE u == SubSeq(s, 1, b)
           v == SubSeq(s, (b + 1) + 1, n)
           w == u \o v
<1>1. u \in Seq(S) /\ Len(u) = b /\ \A i \in 1..b : u[i] = s[i]
  <2>1. b \in 0..Len(s)
    OBVIOUS
  <2> QED BY <2>1, CutsInTwo
<1>2. v \in Seq(S) /\ Len(v) = n - (b + 1) /\ \A i \in 1..(n - (b + 1)) : v[i] = s[(b + 1) + i]
  <2>1. b + 1 \in 0..Len(s)
    OBVIOUS
  <2> QED BY <2>1, CutsInTwo
<1>3. RemoveAt(s, place) = w
  <2>1. (b + 1) - 1 = b
    OBVIOUS
  <2> QED BY <2>1 DEF RemoveAt
<1> HIDE DEF u, v
<1>4. /\ w \in Seq(S) /\ Len(w) = b + (n - (b + 1))
      /\ \A i \in 1..b : w[i] = u[i]
      /\ \A i \in 1..(n - (b + 1)) : w[b + i] = v[i]
  <2> DEFINE q == n - (b + 1)
  <2>1. b \in Nat /\ q \in Nat /\ u \in Seq(S) /\ Len(u) = b /\ v \in Seq(S) /\ Len(v) = q
    BY <1>1, <1>2
  <2> HIDE DEF q
  <2>2. /\ u \o v \in Seq(S) /\ Len(u \o v) = b + q
        /\ \A i \in 1..b : (u \o v)[i] = u[i]
        /\ \A i \in 1..q : (u \o v)[b + i] = v[i]
    <3>1. /\ u \o v \in Seq(S) /\ Len(u \o v) = Len(u) + Len(v)
          /\ \A i \in 1..Len(u) : (u \o v)[i] = u[i]
          /\ \A i \in 1..Len(v) : (u \o v)[Len(u) + i] = v[i]
      BY <2>1, <1>0
    <3> QED BY <2>1, <3>1
  <2> QED BY <2>2 DEF q, w
<1> HIDE DEF w
<1>5. Len(w) = n - 1
  <2>1. b + (n - (b + 1)) = n - 1
    OBVIOUS
  <2> QED BY <2>1, <1>4
<1>6. ASSUME NEW i \in (b + 1)..(n - 1) PROVE w[i] = s[i + 1]
  <2> DEFINE j == i - b
  <2>1. j \in 1..(n - (b + 1)) /\ b + j = i /\ (b + 1) + j = i + 1
    OBVIOUS
  <2> HIDE DEF j
  <2> QED BY <2>1, <1>2, <1>4
<1> QED BY <1>1, <1>3, <1>4, <1>5, <1>6

\* A body, whose map is one of L.
BodyOf(L) == [lists : L, at : Nat, last : Nat]

\* A body begins where the one on its left ends.
Start(bs, b) == IF b = 1 THEN 0 ELSE bs[b - 1].last

\* A body has read postings of s from a place on, and its lists are of those.
HasRead(body, s, from) ==
  /\ from <= body.at /\ body.at <= body.last /\ body.last <= Len(s)
  /\ Represents(body.lists, SubSeq(s, from + 1, body.at))

\* Bodies that cover the postings s from left to right.
Covering(bs, s) ==
  /\ \E L : bs \in Seq(BodyOf(L))
  /\ bs # <<>>
  /\ bs[Len(bs)].last = Len(s)
  /\ \A b \in 1..Len(bs) : HasRead(bs[b], s, Start(bs, b))

\* Their places are numbers.
LEMMA CoveringUnfolds ==
  ASSUME NEW s \in Seq(Pairs), NEW bs, Covering(bs, s)
  PROVE  /\ Len(bs) \in Nat /\ Len(bs) >= 1 /\ DOMAIN bs = 1..Len(bs) /\ Len(s) \in Nat
         /\ \A b \in 1..Len(bs) :
              /\ bs[b].at \in Nat /\ bs[b].last \in Nat /\ Start(bs, b) \in Nat
              /\ HasRead(bs[b], s, Start(bs, b))
<1>1. PICK L : bs \in Seq(BodyOf(L))
  BY DEF Covering
<1>2. Len(bs) \in Nat /\ DOMAIN bs = 1..Len(bs) /\ Len(s) \in Nat
  BY <1>1, LenProperties
<1>3. Len(bs) >= 1
  BY <1>1, <1>2, EmptySeq DEF Covering
<1>4. \A b \in 1..Len(bs) : bs[b].at \in Nat /\ bs[b].last \in Nat
  <2> TAKE b \in 1..Len(bs)
  <2>1. bs[b] \in BodyOf(L)
    BY <1>1, ElementOfSeq
  <2> QED BY <2>1 DEF BodyOf
<1>5. \A b \in 1..Len(bs) : Start(bs, b) \in Nat
  <2> TAKE b \in 1..Len(bs)
  <2>1. b = 1 \/ b - 1 \in 1..Len(bs)
    BY <1>2
  <2> QED BY <2>1, <1>4 DEF Start
<1> QED BY <1>2, <1>3, <1>4, <1>5 DEF Covering

\* A body reads on, or ends earlier.
LEMMA BodyUpdated ==
  ASSUME NEW L, NEW body \in BodyOf(L), NEW lists, NEW to
  PROVE  /\ [body EXCEPT !.lists = lists, !.at = to] =
              [lists |-> lists, at |-> to, last |-> body.last]
         /\ [body EXCEPT !.last = to] = [lists |-> body.lists, at |-> body.at, last |-> to]
<1>1. PICK l \in L, a \in Nat, e \in Nat : body = [lists |-> l, at |-> a, last |-> e]
  BY DEF BodyOf
<1>2. body.lists = l /\ body.at = a /\ body.last = e
  BY <1>1
<1>3. [body EXCEPT !.last = to] = [lists |-> l, at |-> a, last |-> to]
  BY <1>1
<1>4. [body EXCEPT !.lists = lists] = [lists |-> lists, at |-> a, last |-> e]
  BY <1>1
<1>5. [[lists |-> lists, at |-> a, last |-> e] EXCEPT !.at = to] =
        [lists |-> lists, at |-> to, last |-> e]
  OBVIOUS
<1>6. [body EXCEPT !.lists = lists, !.at = to] = [[body EXCEPT !.lists = lists] EXCEPT !.at = to]
  OBVIOUS
<1> QED BY <1>2, <1>3, <1>4, <1>5, <1>6

\* Bodies with one changed are bodies.
LEMMA ChangedBodies ==
  ASSUME NEW L, NEW M, L \subseteq M, NEW bs \in Seq(BodyOf(L)), NEW b \in DOMAIN bs,
         NEW r \in BodyOf(M)
  PROVE  /\ [bs EXCEPT ![b] = r] \in Seq(BodyOf(M)) /\ Len([bs EXCEPT ![b] = r]) = Len(bs)
         /\ \A c \in 1..Len(bs) : [bs EXCEPT ![b] = r][c] = IF c = b THEN r ELSE bs[c]
<1>1. bs \in Seq(BodyOf(M))
  <2>1. Len(bs) \in Nat /\ bs \in [1..Len(bs) -> BodyOf(L)]
    BY LenProperties
  <2>2. BodyOf(L) \subseteq BodyOf(M)
    BY DEF BodyOf
  <2>3. \A i \in 1..Len(bs) : bs[i] \in BodyOf(M)
    BY <2>1, <2>2
  <2>4. bs = [i \in 1..Len(bs) |-> bs[i]]
    BY <2>1
  <2>5. [i \in 1..Len(bs) |-> bs[i]] \in Seq(BodyOf(M))
    BY <2>1, <2>3, IsASeq
  <2> QED BY <2>4, <2>5
<1>2. b \in 1..Len(bs)
  BY LenProperties
<1> QED BY <1>1, <1>2, ExceptSeq

\* No lists represent no postings.
LEMMA NothingRepresents == Represents(<<>>, <<>>)
<1>1. DOMAIN <<>> = {}
  OBVIOUS
<1>2. \A t \in Nat : \A d \in Nat : TermCounts(<<>>, t)[d] = 0
  <2> TAKE t \in Nat
  <2> TAKE d \in Nat
  <2>1. PlacesOf(<<>>, <<t, d>>) = {}
    BY <1>1 DEF PlacesOf
  <2>2. Occurrences(<<>>, <<t, d>>) = 0
    BY <2>1, FS_EmptySet DEF Occurrences
  <2> QED BY <2>2 DEF TermCounts
<1> QED BY <1>1, <1>2 DEF Represents

\* A batch begins with one body that has read nothing.
LEMMA OneBodyCovers ==
  ASSUME NEW s \in Seq(Pairs), InOrder(s)
  PROVE  Covering(<<[lists |-> <<>>, at |-> 0, last |-> Len(s)]>>, s)
<1> DEFINE r == [lists |-> <<>>, at |-> 0, last |-> Len(s)]
           bs == <<r>>
<1>1. Len(s) \in Nat
  BY LenProperties
<1>2. bs \in Seq(BodyOf({<<>>})) /\ Len(bs) = 1 /\ bs[1] = r /\ bs # <<>>
  <2>1. r \in BodyOf({<<>>})
    BY <1>1 DEF BodyOf
  <2> HIDE DEF r
  <2> QED BY <2>1
<1>3. HasRead(r, s, 0)
  <2>1. SubSeq(s, 0 + 1, 0) = <<>>
    <3>1. 0 \in Nat /\ 0 <= 0 /\ 0 <= Len(s)
      BY <1>1
    <3> QED BY <3>1, PartIsEmpty
  <2>2. Represents(<<>>, <<>>)
    BY NothingRepresents
  <2>3. r.lists = <<>> /\ r.at = 0 /\ r.last = Len(s)
    OBVIOUS
  <2> HIDE DEF r
  <2>4. Represents(r.lists, SubSeq(s, 0 + 1, r.at))
    BY <2>1, <2>2, <2>3
  <2> QED BY <2>3, <2>4, <1>1 DEF HasRead
<1>4. Start(bs, 1) = 0
  BY DEF Start
<1> HIDE DEF bs
<1>5. \A b \in 1..Len(bs) : HasRead(bs[b], s, Start(bs, b))
  <2>1. \A b \in 1..Len(bs) : b = 1
    BY <1>2
  <2> QED BY <2>1, <1>2, <1>3, <1>4
<1>6. bs[Len(bs)].last = Len(s)
  BY <1>2
<1>7. Covering(bs, s)
  BY <1>2, <1>5, <1>6 DEF Covering
<1> QED BY <1>7 DEF bs

\* A body reads on.
ReadOn(bs, s, b, to) ==
  [bs EXCEPT ![b].lists = Accumulated(@, SubSeq(s, bs[b].at + 1, to)), ![b].at = to]

\* The bodies still cover the postings.
LEMMA ReadCovers ==
  ASSUME NEW s \in Seq(Pairs), InOrder(s), NEW bs, Covering(bs, s), NEW b \in DOMAIN bs,
         NEW to \in (bs[b].at + 1)..bs[b].last
  PROVE  Covering(ReadOn(bs, s, b, to), s)
<1> DEFINE k == Len(bs)
           new == ReadOn(bs, s, b, to)
           at == bs[b].at
           from == Start(bs, b)
           u == SubSeq(s, from + 1, at)
           v == SubSeq(s, at + 1, to)
           lists == Accumulated(bs[b].lists, v)
           r == [lists |-> lists, at |-> to, last |-> bs[b].last]
<1>1. /\ k \in Nat /\ k >= 1 /\ DOMAIN bs = 1..k /\ Len(s) \in Nat
      /\ \A c \in 1..k : /\ bs[c].at \in Nat /\ bs[c].last \in Nat /\ Start(bs, c) \in Nat
                         /\ HasRead(bs[c], s, Start(bs, c))
  BY CoveringUnfolds
<1>2. PICK L : bs \in Seq(BodyOf(L))
  BY DEF Covering
<1>3. bs[b] \in BodyOf(L)
  BY <1>1, <1>2, ElementOfSeq
<1>4. new = [bs EXCEPT ![b] = r]
  <2> HIDE DEF v, lists
  <2> DEFINE body == bs[b]
  <2>1. [body EXCEPT !.lists = lists, !.at = to] = r
    <3> HIDE DEF body
    <3>1. body \in BodyOf(L)
      BY <1>3 DEF body
    <3>2. r = [lists |-> lists, at |-> to, last |-> body.last]
      BY DEF body
    <3> HIDE DEF r
    <3>3. \A x \in BodyOf(L) : \A l, e :
            [x EXCEPT !.lists = l, !.at = e] = [lists |-> l, at |-> e, last |-> x.last]
      BY ZenonT(60), SMTT(30), BodyUpdated
    <3> QED BY <3>1, <3>2, <3>3
  <2>2. new = [bs EXCEPT ![b] = [bs[b] EXCEPT !.lists = lists, !.at = to]]
    BY DEF lists, v, at, ReadOn
  <2> QED BY <2>1, <2>2
<1>5. /\ from \in Nat /\ at \in Nat /\ bs[b].last \in Nat /\ to \in Nat
      /\ from <= at /\ at < to /\ to <= bs[b].last /\ bs[b].last <= Len(s)
      /\ Represents(bs[b].lists, u)
  BY <1>1 DEF HasRead
<1> HIDE DEF at, from, r, k, new
<1>6. v # <<>>
  <2>1. at <= to /\ at # to /\ to <= Len(s)
    BY <1>1, <1>5
  <2> QED BY <2>1, <1>5, PartIsEmpty
<1>15. /\ u \in Seq(Pairs) /\ v \in Seq(Pairs) /\ u \o v = SubSeq(s, from + 1, to)
      /\ InOrder(SubSeq(s, from + 1, to))
  <2>1. /\ at <= to /\ to <= Len(s) /\ from \in Nat /\ at \in Nat /\ to \in Nat
        /\ from <= at /\ at < to
    BY <1>1, <1>5
  <2> QED BY <2>1, PartsOf
<1>7. Represents(lists, u \o v)
  <2>1. InOrder(u \o v)
    BY <1>15
  <2> HIDE DEF u, v
  <2> QED BY <2>1, <1>5, <1>6, <1>15, AccumulatedKeeps
<1>8. /\ new \in Seq(BodyOf(L \cup {lists})) /\ Len(new) = k
      /\ \A c \in 1..k : new[c] = IF c = b THEN r ELSE bs[c]
  <2> DEFINE M == L \cup {lists}
  <2>1. r \in BodyOf(M) /\ L \subseteq M
    <3> DEFINE e == bs[b].last
    <3>1. lists \in M /\ to \in Nat /\ e \in Nat /\ r = [lists |-> lists, at |-> to, last |-> e]
      BY <1>5 DEF r
    <3>2. L \subseteq M
      OBVIOUS
    <3> HIDE DEF M, e, lists
    <3>3. r \in BodyOf(M)
      BY <3>1 DEF BodyOf
    <3> QED BY <3>2, <3>3
  <2> HIDE DEF M
  <2>2. /\ [bs EXCEPT ![b] = r] \in Seq(BodyOf(M)) /\ Len([bs EXCEPT ![b] = r]) = Len(bs)
        /\ \A c \in 1..Len(bs) : [bs EXCEPT ![b] = r][c] = IF c = b THEN r ELSE bs[c]
    BY <2>1, <1>2, ChangedBodies
  <2> QED BY <2>2, <1>4 DEF M, k
<1>9. r.lists = lists /\ r.at = to /\ r.last = bs[b].last
  BY DEF r
<1>10. \A c \in 1..k : new[c].last = bs[c].last
  BY <1>8, <1>9
<1>11. \A c \in 1..k : Start(new, c) = Start(bs, c)
  <2> TAKE c \in 1..k
  <2>1. c = 1 \/ c - 1 \in 1..k
    BY <1>1
  <2> QED BY <2>1, <1>10 DEF Start
<1>12. \A c \in 1..k : HasRead(new[c], s, Start(new, c))
  <2> TAKE c \in 1..k
  <2>1. CASE c = b
    <3>1. Represents(r.lists, SubSeq(s, from + 1, r.at))
      BY <1>15, <1>7, <1>9
    <3>2. HasRead(r, s, from)
      BY <3>1, <1>5, <1>9 DEF HasRead
    <3> QED BY <3>2, <2>1, <1>8, <1>11 DEF from
  <2>2. CASE c # b
    BY <2>2, <1>1, <1>8, <1>11
  <2> QED BY <2>1, <2>2
<1>13. new # <<>> /\ new[Len(new)].last = Len(s)
  <2>1. k \in 1..k
    BY <1>1
  <2>2. bs[k].last = Len(s)
    BY DEF Covering, k
  <2>3. Len(<<>>) = 0
    OBVIOUS
  <2> QED BY <2>1, <2>2, <2>3, <1>1, <1>8, <1>10
<1>14. Covering(new, s)
  BY <1>8, <1>12, <1>13 DEF Covering
<1> QED BY <1>14 DEF new

\* A body gives the right part of what it has not read to a new one.
SplitAt(bs, b, middle) ==
  InsertAt([bs EXCEPT ![b].last = middle], b + 1,
           [lists |-> <<>>, at |-> middle, last |-> bs[b].last])

\* The two cover what the one covered.
LEMMA SplitCovers ==
  ASSUME NEW s \in Seq(Pairs), InOrder(s), NEW bs, Covering(bs, s), NEW b \in DOMAIN bs,
         NEW middle \in (bs[b].at + 1)..(bs[b].last - 1)
  PROVE  Covering(SplitAt(bs, b, middle), s)
<1> DEFINE k == Len(bs)
           new == SplitAt(bs, b, middle)
           last == bs[b].last
           r == [lists |-> bs[b].lists, at |-> bs[b].at, last |-> middle]
           e == [lists |-> <<>>, at |-> middle, last |-> last]
           cut == [bs EXCEPT ![b] = r]
<1>1. /\ k \in Nat /\ k >= 1 /\ DOMAIN bs = 1..k /\ Len(s) \in Nat /\ b \in 1..k
      /\ \A c \in 1..k : /\ bs[c].at \in Nat /\ bs[c].last \in Nat /\ Start(bs, c) \in Nat
                         /\ HasRead(bs[c], s, Start(bs, c))
  BY CoveringUnfolds
<1>2. PICK L : bs \in Seq(BodyOf(L))
  BY DEF Covering
<1> DEFINE M == L \cup {<<>>}
<1>3. bs[b] \in BodyOf(L)
  BY <1>1, <1>2, ElementOfSeq
<1>4. /\ bs[b].at \in Nat /\ last \in Nat /\ middle \in Nat /\ bs[b].at <= middle
      /\ middle <= last /\ last <= Len(s)
      /\ Start(bs, b) \in Nat /\ Start(bs, b) <= bs[b].at
      /\ Represents(bs[b].lists, SubSeq(s, Start(bs, b) + 1, bs[b].at))
  BY <1>1 DEF HasRead
<1>5. r \in BodyOf(M) /\ e \in BodyOf(M) /\ L \subseteq M
  BY <1>3, <1>4 DEF BodyOf
<1>6. /\ r.lists = bs[b].lists /\ r.at = bs[b].at /\ r.last = middle
      /\ e.lists = <<>> /\ e.at = middle /\ e.last = last
  OBVIOUS
<1>7. new = InsertAt(cut, b + 1, e)
  <2>1. [bs EXCEPT ![b].last = middle] = [bs EXCEPT ![b] = [bs[b] EXCEPT !.last = middle]]
    OBVIOUS
  <2>2. [bs[b] EXCEPT !.last = middle] = r
    <3> DEFINE body == bs[b]
    <3>1. body \in BodyOf(L) /\ r = [lists |-> body.lists, at |-> body.at, last |-> middle]
      BY <1>3
    <3> HIDE DEF body, r
    <3>2. [body EXCEPT !.last = middle] = r
      BY <3>1, BodyUpdated
    <3> QED BY <3>2 DEF body
  <2> HIDE DEF e
  <2>3. SplitAt(bs, b, middle) = InsertAt([bs EXCEPT ![b].last = middle], b + 1, e)
    BY DEF SplitAt, e
  <2> HIDE DEF r
  <2> QED BY <2>1, <2>2, <2>3
<1> HIDE DEF r, e, M, last, new, k
<1>8. cut \in Seq(BodyOf(M)) /\ Len(cut) = k
      /\ \A c \in 1..k : cut[c] = IF c = b THEN r ELSE bs[c]
  <2>1. /\ [bs EXCEPT ![b] = r] \in Seq(BodyOf(M)) /\ Len([bs EXCEPT ![b] = r]) = Len(bs)
        /\ \A c \in 1..Len(bs) : [bs EXCEPT ![b] = r][c] = IF c = b THEN r ELSE bs[c]
    BY <1>2, <1>5, ChangedBodies
  <2> QED BY <2>1 DEF k
<1> HIDE DEF cut
<1>9. /\ new \in Seq(BodyOf(M)) /\ Len(new) = k + 1
      /\ \A c \in 1..b : new[c] = cut[c]
      /\ new[b + 1] = e
      /\ \A c \in (b + 2)..(k + 1) : new[c] = cut[c - 1]
  <2>1. /\ InsertAt(cut, b + 1, e) \in Seq(BodyOf(M)) /\ Len(InsertAt(cut, b + 1, e)) = k + 1
        /\ \A i \in 1..b : InsertAt(cut, b + 1, e)[i] = cut[i]
        /\ InsertAt(cut, b + 1, e)[b + 1] = e
        /\ \A i \in (b + 2)..(k + 1) : InsertAt(cut, b + 1, e)[i] = cut[i - 1]
    <3>1. k \in Nat /\ b \in 1..k /\ cut \in Seq(BodyOf(M)) /\ Len(cut) = k /\ e \in BodyOf(M)
      BY <1>1, <1>5, <1>8
    <3> DEFINE p == b + 1
    <3>2. p = b + 1
      OBVIOUS
    <3> HIDE DEF p
    <3>3. InsertAt(cut, p, e) \in Seq(BodyOf(M)) /\ Inserted(InsertAt(cut, p, e), cut, e, k, b)
      BY <3>1, <3>2, InsertedAfter
    <3> QED BY <3>3 DEF p, Inserted
  <2> QED BY <2>1, <1>7
<1>10. /\ \A c \in 1..b : c # b => new[c] = bs[c]
       /\ new[b] = r /\ new[b + 1] = e
       /\ \A c \in (b + 2)..(k + 1) : c - 1 \in 1..k /\ new[c] = bs[c - 1]
  <2>1. \A c \in (b + 2)..(k + 1) : c - 1 \in 1..k /\ c - 1 # b
    BY <1>1
  <2>2. \A c \in 1..b : c \in 1..k
    BY <1>1
  <2>3. b \in 1..b
    BY <1>1
  <2> QED BY <2>1, <2>2, <2>3, <1>8, <1>9
<1>11. /\ \A c \in 1..b : Start(new, c) = Start(bs, c)
       /\ Start(new, b + 1) = middle
       /\ \A c \in (b + 2)..(k + 1) : Start(new, c) = Start(bs, c - 1)
  <2>1. ASSUME NEW c \in 1..b PROVE Start(new, c) = Start(bs, c)
    <3>1. c = 1 \/ (c - 1 \in 1..b /\ c - 1 # b)
      BY <1>1
    <3> QED BY <3>1, <1>10 DEF Start
  <2>2. Start(new, b + 1) = middle
    <3>1. b + 1 # 1 /\ (b + 1) - 1 = b
      BY <1>1
    <3> QED BY <3>1, <1>6, <1>10 DEF Start
  <2>3. ASSUME NEW c \in (b + 2)..(k + 1) PROVE Start(new, c) = Start(bs, c - 1)
    <3>1. c # 1 /\ c - 1 # 1
      BY <1>1
    <3>2. CASE c = b + 2
      <4>1. c - 1 = b + 1 /\ (c - 1) - 1 = b
        BY <3>2, <1>1
      <4> QED BY <4>1, <3>1, <1>6, <1>10 DEF Start, last
    <3>3. CASE c # b + 2
      <4>1. c - 1 \in (b + 2)..(k + 1)
        BY <3>3, <1>1
      <4> QED BY <4>1, <3>1, <1>10 DEF Start
    <3> QED BY <3>2, <3>3
  <2> QED BY <2>1, <2>2, <2>3
<1>12. ASSUME NEW c \in 1..(k + 1) PROVE HasRead(new[c], s, Start(new, c))
  <2>1. CASE c = b
    <3>1. HasRead(r, s, Start(bs, b))
      <4>1. middle <= Len(s)
        BY <1>1, <1>4
      <4> QED BY <4>1, <1>4, <1>6 DEF HasRead
    <3>2. c \in 1..b
      BY <2>1, <1>1
    <3> QED BY <2>1, <3>1, <3>2, <1>10, <1>11
  <2>2. CASE c = b + 1
    <3>1. HasRead(e, s, middle)
      <4>1. SubSeq(s, middle + 1, middle) = <<>>
        <5>1. middle <= middle /\ middle <= Len(s)
          BY <1>1, <1>4
        <5> QED BY <5>1, <1>4, PartIsEmpty
      <4>2. Represents(e.lists, SubSeq(s, middle + 1, e.at))
        BY <4>1, <1>6, NothingRepresents
      <4> QED BY <4>2, <1>4, <1>6 DEF HasRead
    <3> QED BY <2>2, <3>1, <1>10, <1>11
  <2>3. CASE c \in 1..b /\ c # b
    <3>1. c \in 1..k
      BY <2>3, <1>1
    <3> QED BY <2>3, <3>1, <1>1, <1>10, <1>11
  <2>4. CASE c \in (b + 2)..(k + 1)
    BY <2>4, <1>1, <1>10, <1>11
  <2> QED BY <2>1, <2>2, <2>3, <2>4, <1>1
<1>13. new # <<>> /\ new[k + 1].last = Len(s)
  <2>1. bs[k].last = Len(s)
    BY DEF Covering, k
  <2>2. Len(<<>>) = 0
    OBVIOUS
  <2>3. CASE b = k
    BY <2>1, <2>2, <2>3, <1>1, <1>6, <1>9, <1>10 DEF last
  <2>4. CASE b # k
    <3>1. k + 1 \in (b + 2)..(k + 1) /\ (k + 1) - 1 = k
      BY <2>4, <1>1
    <3> QED BY SMTT(30), ZenonT(60), <2>1, <2>2, <3>1, <1>1, <1>9, <1>10
  <2> QED BY <2>3, <2>4
<1>14. Covering(new, s)
  BY <1>9, <1>12, <1>13 DEF Covering
<1> QED BY <1>14 DEF new

\* Two bodies that are done are joined.
JoinedAt(bs, b) ==
  RemoveAt([bs EXCEPT ![b] = [lists |-> Joined(bs[b].lists, bs[b + 1].lists),
                              at |-> bs[b + 1].at, last |-> bs[b + 1].last]], b + 1)

\* The body of both covers what the two covered.
LEMMA JoinCovers ==
  ASSUME NEW s \in Seq(Pairs), InOrder(s), NEW bs, Covering(bs, s), NEW b \in DOMAIN bs,
         b < Len(bs), bs[b].at = bs[b].last, bs[b + 1].at = bs[b + 1].last
  PROVE  Covering(JoinedAt(bs, b), s)
<1> DEFINE k == Len(bs)
           new == JoinedAt(bs, b)
           lists == Joined(bs[b].lists, bs[b + 1].lists)
           r == [lists |-> lists, at |-> bs[b + 1].at, last |-> bs[b + 1].last]
           cut == [bs EXCEPT ![b] = r]
<1>1. /\ k \in Nat /\ k >= 1 /\ DOMAIN bs = 1..k /\ Len(s) \in Nat /\ b \in 1..k
      /\ \A c \in 1..k : /\ bs[c].at \in Nat /\ bs[c].last \in Nat /\ Start(bs, c) \in Nat
                         /\ HasRead(bs[c], s, Start(bs, c))
  BY CoveringUnfolds
<1>2. PICK L : bs \in Seq(BodyOf(L))
  BY DEF Covering
<1> DEFINE M == L \cup {lists}
           from == Start(bs, b)
           middle == bs[b].at
           to == bs[b + 1].at
<1>3. b + 1 \in 1..k /\ b \in 1..(k - 1) /\ Start(bs, b + 1) = middle
  <2>1. b + 1 # 1 /\ (b + 1) - 1 = b /\ b + 1 \in 1..k /\ b \in 1..(k - 1)
    BY <1>1
  <2> QED BY <2>1 DEF Start
<1>4. /\ from \in Nat /\ middle \in Nat /\ to \in Nat
      /\ from <= middle /\ middle <= to /\ to <= Len(s) /\ bs[b + 1].last = to
      /\ Represents(bs[b].lists, SubSeq(s, from + 1, middle))
      /\ Represents(bs[b + 1].lists, SubSeq(s, middle + 1, to))
  <2>1. HasRead(bs[b], s, from) /\ HasRead(bs[b + 1], s, middle)
    BY <1>1, <1>3
  <2> QED BY <2>1, <1>1, <1>3 DEF HasRead
<1>5. r \in BodyOf(M) /\ L \subseteq M
  <2>1. lists \in M /\ to \in Nat /\ bs[b + 1].last \in Nat
    BY <1>4
  <2>2. r = [lists |-> lists, at |-> to, last |-> bs[b + 1].last]
    OBVIOUS
  <2>3. L \subseteq M
    OBVIOUS
  <2> HIDE DEF lists, M, to, r
  <2> QED BY <2>1, <2>2, <2>3 DEF BodyOf
<1>6. r.lists = lists /\ r.at = to /\ r.last = to
  BY <1>4
<1>7. new = RemoveAt(cut, b + 1)
  BY DEF JoinedAt
<1> HIDE DEF r, M, new, k, lists, from, middle, to
<1>8. cut \in Seq(BodyOf(M)) /\ Len(cut) = k
      /\ \A c \in 1..k : cut[c] = IF c = b THEN r ELSE bs[c]
  <2>1. /\ [bs EXCEPT ![b] = r] \in Seq(BodyOf(M)) /\ Len([bs EXCEPT ![b] = r]) = Len(bs)
        /\ \A c \in 1..Len(bs) : [bs EXCEPT ![b] = r][c] = IF c = b THEN r ELSE bs[c]
    BY <1>2, <1>5, ChangedBodies
  <2> QED BY <2>1 DEF k
<1> HIDE DEF cut
<1>9. /\ new \in Seq(BodyOf(M)) /\ Len(new) = k - 1
      /\ \A c \in 1..b : new[c] = cut[c]
      /\ \A c \in (b + 1)..(k - 1) : new[c] = cut[c + 1]
  <2>1. /\ RemoveAt(cut, b + 1) \in Seq(BodyOf(M)) /\ Len(RemoveAt(cut, b + 1)) = k - 1
        /\ \A i \in 1..b : RemoveAt(cut, b + 1)[i] = cut[i]
        /\ \A i \in (b + 1)..(k - 1) : RemoveAt(cut, b + 1)[i] = cut[i + 1]
    <3>1. k \in Nat /\ b \in 1..(k - 1) /\ cut \in Seq(BodyOf(M)) /\ Len(cut) = k
      BY <1>1, <1>3, <1>8
    <3> DEFINE p == b + 1
    <3>2. p = b + 1
      OBVIOUS
    <3> HIDE DEF p
    <3>3. /\ RemoveAt(cut, p) \in Seq(BodyOf(M)) /\ Len(RemoveAt(cut, p)) = k - 1
          /\ \A i \in 1..b : RemoveAt(cut, p)[i] = cut[i]
          /\ \A i \in (b + 1)..(k - 1) : RemoveAt(cut, p)[i] = cut[i + 1]
      BY <3>1, <3>2, RemovedAfter
    <3> QED BY <3>3 DEF p
  <2> QED BY <2>1, <1>7
<1>10. /\ \A c \in 1..b : c # b => new[c] = bs[c]
       /\ new[b] = r
       /\ \A c \in (b + 1)..(k - 1) : c + 1 \in 1..k /\ new[c] = bs[c + 1]
  <2>1. \A c \in (b + 1)..(k - 1) : c + 1 \in 1..k /\ c + 1 # b
    BY <1>1
  <2>2. \A c \in 1..b : c \in 1..k
    BY <1>1
  <2>3. b \in 1..b
    BY <1>1
  <2> QED BY <2>1, <2>2, <2>3, <1>8, <1>9
<1>11. /\ \A c \in 1..b : Start(new, c) = Start(bs, c)
       /\ \A c \in (b + 1)..(k - 1) : Start(new, c) = Start(bs, c + 1)
  <2>1. ASSUME NEW c \in 1..b PROVE Start(new, c) = Start(bs, c)
    <3>1. c = 1 \/ (c - 1 \in 1..b /\ c - 1 # b)
      BY <1>1
    <3> QED BY <3>1, <1>10 DEF Start
  <2>2. ASSUME NEW c \in (b + 1)..(k - 1) PROVE Start(new, c) = Start(bs, c + 1)
    <3>1. c # 1 /\ c + 1 # 1 /\ (c + 1) - 1 = c
      BY <1>1
    <3>2. CASE c = b + 1
      <4>1. c - 1 = b
        BY <3>2, <1>1
      <4>2. new[b].last = bs[c].last
        BY <3>2, <1>4, <1>6, <1>10
      <4> QED BY <4>1, <4>2, <3>1 DEF Start
    <3>3. CASE c # b + 1
      <4>1. c - 1 \in (b + 1)..(k - 1) /\ (c - 1) + 1 = c
        BY SMTT(30), ZenonT(60), <3>3, <1>1
      <4> QED BY <4>1, <3>1, <1>10 DEF Start
    <3> QED BY <3>2, <3>3
  <2> QED BY <2>1, <2>2
<1>12. ASSUME NEW c \in 1..(k - 1) PROVE HasRead(new[c], s, Start(new, c))
  <2>1. CASE c = b
    <3> DEFINE u == SubSeq(s, from + 1, middle)
               v == SubSeq(s, middle + 1, to)
    <3>1. /\ u \in Seq(Pairs) /\ v \in Seq(Pairs) /\ u \o v = SubSeq(s, from + 1, to)
          /\ InOrder(SubSeq(s, from + 1, to))
      <4>1. /\ from \in Nat /\ middle \in Nat /\ to \in Nat
            /\ from <= middle /\ middle <= to /\ to <= Len(s)
        BY <1>4
      <4>2. /\ SubSeq(s, from + 1, middle) \in Seq(Pairs)
            /\ SubSeq(s, middle + 1, to) \in Seq(Pairs)
            /\ SubSeq(s, from + 1, middle) \o SubSeq(s, middle + 1, to)
                 = SubSeq(s, from + 1, to)
            /\ InOrder(SubSeq(s, from + 1, to))
        BY <4>1, PartsOf
      <4> QED BY <4>2
    <3>2. Represents(lists, u \o v)
      <4>1. InOrder(u \o v) /\ Represents(bs[b].lists, u) /\ Represents(bs[b + 1].lists, v)
        BY <3>1, <1>4
      <4> HIDE DEF u, v
      <4> QED BY <3>1, <4>1, JoinedKeeps DEF lists
    <3>3. Represents(r.lists, SubSeq(s, from + 1, r.at))
      BY <3>1, <3>2, <1>6
    <3>4. HasRead(r, s, from)
      BY <3>3, <1>1, <1>4, <1>6 DEF HasRead
    <3>5. c \in 1..b
      BY <2>1, <1>1
    <3> QED BY <2>1, <3>4, <3>5, <1>10, <1>11 DEF from
  <2>2. CASE c \in 1..b /\ c # b
    <3>1. c \in 1..k
      BY <2>2, <1>1
    <3> QED BY <2>2, <3>1, <1>1, <1>10, <1>11
  <2>3. CASE c \in (b + 1)..(k - 1)
    BY <2>3, <1>1, <1>10, <1>11
  <2> QED BY <2>1, <2>2, <2>3, <1>1
<1>13. new # <<>> /\ new[k - 1].last = Len(s)
  <2>1. bs[k].last = Len(s)
    BY DEF Covering, k
  <2>2. Len(<<>>) = 0
    OBVIOUS
  <2>3. CASE b + 1 = k
    <3>1. k - 1 = b
      BY <2>3, <1>1
    <3> QED BY SMTT(30), ZenonT(60), <2>1, <2>2, <2>3, <3>1, <1>1, <1>4, <1>6, <1>9, <1>10
  <2>4. CASE b + 1 # k
    <3>1. k - 1 \in (b + 1)..(k - 1) /\ (k - 1) + 1 = k /\ k - 1 # 0
      BY <2>4, <1>1, <1>3
    <3> QED BY <2>1, <2>2, <3>1, <1>1, <1>9, <1>10
  <2> QED BY <2>3, <2>4
<1>14. Covering(new, s)
  <2>1. Len(new) = k - 1
    BY <1>9
  <2> QED BY <2>1, <1>9, <1>12, <1>13 DEF Covering
<1> QED BY <1>14 DEF new

-----------------------------------------------------------------------------
(* The batches of documents.                                               *)

\* How often each of some documents has a term.
DocCounts(docs, from, to, t) ==
  [d \in Nat |-> IF d \in from..(to - 1) THEN Occurrences(docs[d + 1], t) ELSE 0]

\* Those of two ranges of documents, one after the other.
LEMMA DocCountsAdd ==
  ASSUME NEW docs \in Seq(Seq(Nat)), NEW middle \in Nat, NEW to \in Nat, middle <= to,
         to <= Len(docs), NEW t \in Nat
  PROVE  /\ IsSum(DocCounts(docs, 0, to, t), DocCounts(docs, 0, middle, t),
                  DocCounts(docs, middle, to, t))
         /\ \A d, e \in Nat : DocCounts(docs, 0, middle, t)[d] > 0
                              /\ DocCounts(docs, middle, to, t)[e] > 0 => d < e
<1> DEFINE n(d) == Occurrences(docs[d + 1], t)
           a == DocCounts(docs, 0, middle, t)
           b == DocCounts(docs, middle, to, t)
           c == DocCounts(docs, 0, to, t)
<1>1. /\ Len(docs) \in Nat /\ DOMAIN docs = 1..Len(docs)
      /\ \A i \in 1..Len(docs) : docs[i] \in Seq(Nat)
  BY LenProperties, ElementOfSeq
<1>2. \A d \in 0..(to - 1) : n(d) \in Nat
  <2> TAKE d \in 0..(to - 1)
  <2>1. d + 1 \in 1..Len(docs)
    BY <1>1
  <2> QED BY <2>1, <1>1, OccurrencesAreCounted
<1> HIDE DEF n
<1>3. /\ a = [d \in Nat |-> IF d \in 0..(middle - 1) THEN n(d) ELSE 0]
      /\ b = [d \in Nat |-> IF d \in middle..(to - 1) THEN n(d) ELSE 0]
      /\ c = [d \in Nat |-> IF d \in 0..(to - 1) THEN n(d) ELSE 0]
  BY DEF DocCounts, n
<1> HIDE DEF a, b, c
<1>4. /\ \A d \in Nat : a[d] = IF d \in 0..(middle - 1) THEN n(d) ELSE 0
      /\ \A d \in Nat : b[d] = IF d \in middle..(to - 1) THEN n(d) ELSE 0
      /\ \A d \in Nat : c[d] = IF d \in 0..(to - 1) THEN n(d) ELSE 0
  BY <1>3
<1>5. /\ \A d \in 0..(middle - 1) : d \in 0..(to - 1) /\ d \notin middle..(to - 1)
      /\ \A d \in middle..(to - 1) : d \in 0..(to - 1) /\ d \notin 0..(middle - 1)
      /\ \A d \in 0..(to - 1) : d \in 0..(middle - 1) \/ d \in middle..(to - 1)
      /\ \A d \in 0..(middle - 1), e \in middle..(to - 1) : d < e
  OBVIOUS
<1>6. a \in [Nat -> Nat] /\ b \in [Nat -> Nat]
  BY <1>2, <1>3, <1>5
<1>7. \A d \in Nat : c[d] = a[d] + b[d]
  <2> TAKE d \in Nat
  <2>1. CASE d \in 0..(middle - 1)
    BY <2>1, <1>2, <1>4, <1>5
  <2>2. CASE d \in middle..(to - 1)
    BY <2>2, <1>2, <1>4, <1>5
  <2>3. CASE d \notin 0..(middle - 1) /\ d \notin middle..(to - 1)
    BY <2>3, <1>4, <1>5
  <2> QED BY <2>1, <2>2, <2>3
<1>8. IsSum(c, a, b)
  BY <1>6, <1>7 DEF IsSum
<1>9. \A d, e \in Nat : a[d] > 0 /\ b[e] > 0 => d < e
  BY <1>4, <1>5
<1> QED BY <1>8, <1>9 DEF a, b, c

\* The postings of a batch, sorted, are those of its documents.
LEMMA BatchIsCounted ==
  ASSUME NEW docs \in Seq(Seq(Nat)), NEW first \in Nat, NEW size \in Nat, first <= Len(docs)
  PROVE  LET batch == Chunk(docs, first, size)
             s == Sorted(PostingsOf(batch, first))
         IN  /\ s \in Seq(Pairs) /\ InOrder(s)
             /\ Len(batch) \in Nat /\ first + Len(batch) <= Len(docs)
             /\ \A t \in Nat : TermCounts(s, t) = DocCounts(docs, first, first + Len(batch), t)
<1> DEFINE batch == Chunk(docs, first, size)
           p == PostingsOf(batch, first)
           s == Sorted(p)
           n == ChunkSize(Len(docs), first, size)
<1>1. /\ batch \in Seq(Seq(Nat)) /\ n \in Nat /\ Len(batch) = n /\ DOMAIN batch = 1..n
      /\ \A i \in 1..n : batch[i] = docs[first + i] /\ first + i \in DOMAIN docs
  BY DocsChunk DEF IsChunk
<1>2. first + n <= Len(docs)
  <2>1. Len(docs) \in Nat
    BY LenProperties
  <2> QED BY <2>1 DEF ChunkSize
<1> HIDE DEF batch, n
<1>3. /\ p \in Seq(Pairs)
      /\ \A t, e \in Nat :
           Occurrences(p, <<t, e>>) =
             IF e - first + 1 \in DOMAIN batch THEN Occurrences(batch[e - first + 1], t) ELSE 0
  BY <1>1, PostingsOfBatch
<1> HIDE DEF p
<1>4. s \in Seq(Pairs) /\ InOrder(s) /\ \A v : Occurrences(s, v) = Occurrences(p, v)
  BY <1>3, SortedIsInOrder
<1> HIDE DEF s
<1>5. ASSUME NEW t \in Nat PROVE TermCounts(s, t) = DocCounts(docs, first, first + n, t)
  <2> DEFINE end == first + n
             count(d) == IF d \in first..(end - 1) THEN Occurrences(docs[d + 1], t) ELSE 0
  <2>1. ASSUME NEW d \in Nat PROVE Occurrences(s, <<t, d>>) = count(d)
    <3> DEFINE i == d - first + 1
    <3>1. i \in Int /\ (i \in 1..n <=> d \in first..(end - 1)) /\ first + i = d + 1
      BY <1>1
    <3>2. Occurrences(p, <<t, d>>) =
            IF i \in DOMAIN batch THEN Occurrences(batch[i], t) ELSE 0
      BY <1>3
    <3> HIDE DEF i
    <3>3. i \in 1..n => batch[i] = docs[d + 1]
      BY <3>1, <1>1
    <3> QED BY <3>1, <3>2, <3>3, <1>1, <1>4
  <2>2. TermCounts(s, t) = [d \in Nat |-> Occurrences(s, <<t, d>>)]
    BY DEF TermCounts
  <2> HIDE DEF end
  <2>3. DocCounts(docs, first, end, t) = [d \in Nat |-> count(d)]
    BY DEF DocCounts
  <2> HIDE DEF count
  <2>4. TermCounts(s, t) = DocCounts(docs, first, end, t)
    BY <2>1, <2>2, <2>3
  <2> QED BY <2>4 DEF end
<1>6. Len(batch) = n
  BY <1>1
<1> QED BY <1>1, <1>2, <1>4, <1>5, <1>6 DEF batch, s, p

\* One sequence is two others, one after the other.
IsConcat(u, s, t) == u = s \o t

\* What is flattened when there is a sequence more.
LEMMA FlattenMore ==
  ASSUME NEW S, NEW old \in Seq(Seq(S)), NEW e \in Seq(S), NEW n \in Nat, Len(old) = n,
         NEW more, more \in [1..(n + 1) -> Seq(S)],
         \A i \in 1..n : more[i] = old[i], more[n + 1] = e
  PROVE  IsConcat(FlattenSeq(more), FlattenSeq(old), e)
<1>1. Append(old, e) \in Seq(Seq(S)) /\ Len(Append(old, e)) = n + 1
      /\ \A i \in 1..n : Append(old, e)[i] = old[i]
      /\ Append(old, e)[n + 1] = e
  BY AppendProperties
<1> DEFINE a == Append(old, e)
<1> HIDE DEF a
<1>2. a \in [1..(n + 1) -> Seq(S)]
  BY <1>1, LenProperties DEF a
<1>3. \A i \in 1..(n + 1) : a[i] = more[i]
  <2> TAKE i \in 1..(n + 1)
  <2>1. i \in 1..n \/ i = n + 1
    OBVIOUS
  <2> QED BY <2>1, <1>1 DEF a
<1>4. a = more
  BY <1>2, <1>3
<1>5. FlattenSeq(a) = FlattenSeq(old) \o e
  BY FlattenAppended DEF a
<1> QED BY <1>4, <1>5 DEF IsConcat

-----------------------------------------------------------------------------
(* The files of the batches.                                               *)

\* What is written for a batch.
InvertedFiles(terms) == [lists : [DOMAIN terms -> Lists], sizes : Seq(Nat)]

\* The lists of a term in the order of the batches, and the sizes.
DocsIn(bs, i) == FlattenSeq([b \in DOMAIN bs |-> bs[b].lists[i].docs])
FreqsIn(bs, i) == FlattenSeq([b \in DOMAIN bs |-> bs[b].lists[i].freqs])
SizesIn(bs) == FlattenSeq([b \in DOMAIN bs |-> bs[b].sizes])

\* The files of the batches are those of the first n documents.
AreCounted(bs, terms, docs, n) ==
  /\ bs \in Seq(InvertedFiles(terms))
  /\ \A i \in DOMAIN terms : Tallies(DocsIn(bs, i), FreqsIn(bs, i), DocCounts(docs, 0, n, i - 1))
  /\ SizesIn(bs) = [d \in 1..n |-> Len(docs[d])]

\* Those of the documents after the first n up to m.
IsBatch(file, terms, docs, n, m) ==
  /\ file \in InvertedFiles(terms)
  /\ \A i \in DOMAIN terms :
       Tallies(file.lists[i].docs, file.lists[i].freqs, DocCounts(docs, n, m, i - 1))
  /\ file.sizes = [d \in 1..(m - n) |-> Len(docs[n + d])]

\* Before the first batch there are none.
LEMMA NoneCounted ==
  ASSUME NEW terms, NEW docs
  PROVE  AreCounted(<<>>, terms, docs, 0)
<1> DEFINE e == <<>>
<1>1. e \in Seq(InvertedFiles(terms)) /\ DOMAIN e = {} /\ e = [d \in 1..0 |-> Len(docs[d])]
  BY EmptySeq
<1>2. ASSUME NEW f, DOMAIN f = {}, f = [b \in {} |-> f[b]] PROVE FlattenSeq(f) = <<>>
  <2>1. f = <<>>
    BY <1>2
  <2>2. Len(<<>>) \in Nat /\ Len(<<>>) = 0
    OBVIOUS
  <2>3. FlattenSeq(<<>>) = <<>>
    BY <2>2, FlattenUnfolds
  <2> QED BY <2>1, <2>3
<1>3. /\ \A i : DocsIn(e, i) = <<>> /\ FreqsIn(e, i) = <<>>
      /\ SizesIn(e) = <<>>
  <2>1. /\ \A i : [b \in DOMAIN e |-> e[b].lists[i].docs] = <<>>
        /\ \A i : [b \in DOMAIN e |-> e[b].lists[i].freqs] = <<>>
        /\ [b \in DOMAIN e |-> e[b].sizes] = <<>>
    BY <1>1
  <2>2. FlattenSeq(<<>>) = <<>>
    <3>1. DOMAIN <<>> = {} /\ <<>> = [b \in {} |-> <<>>[b]]
      OBVIOUS
    <3> QED BY <3>1, <1>2
  <2> QED BY <2>1, <2>2 DEF DocsIn, FreqsIn, SizesIn
<1>4. ASSUME NEW i \in DOMAIN terms
      PROVE  Tallies(DocsIn(e, i), FreqsIn(e, i), DocCounts(docs, 0, 0, i - 1))
  <2> DEFINE c == DocCounts(docs, 0, 0, i - 1)
  <2>1. \A d \in Nat : c[d] = 0
    BY DEF DocCounts
  <2> HIDE DEF c
  <2>2. Tallies(<<>>, <<>>, c)
    BY <2>1, EmptyIsListing
  <2> QED BY <2>2, <1>3 DEF c
<1> QED BY <1>1, <1>3, <1>4 DEF AreCounted

\* A sequence more is at the end of what is flattened.
OneMore(more, old, e, p, S) ==
  /\ old \in [1..p -> Seq(S)] /\ more \in [1..(p + 1) -> Seq(S)]
  /\ \A i \in 1..p : more[i] = old[i]
  /\ e \in Seq(S) /\ more[p + 1] = e

\* Then it is appended to what was flattened before.
LEMMA OneMoreFlattened ==
  ASSUME NEW S, NEW p \in Nat, NEW old, NEW more, NEW e, OneMore(more, old, e, p, S)
  PROVE  IsConcat(FlattenSeq(more), FlattenSeq(old), e)
<1>1. old \in Seq(Seq(S)) /\ Len(old) = p
  BY FunctionIsSeq DEF OneMore
<1>2. e \in Seq(S) /\ more[p + 1] = e /\ \A i \in 1..p : more[i] = old[i]
  BY DEF OneMore
<1>3. more \in [1..(p + 1) -> Seq(S)]
  BY DEF OneMore
<1> QED BY <1>1, <1>2, <1>3, FlattenMore

\* The files of one batch more.
LEMMA OneMoreCounted ==
  ASSUME NEW docs \in Seq(Seq(Nat)), NEW terms, NEW k \in Nat, DOMAIN terms = 1..k,
         NEW n \in Nat, NEW m \in Nat, n <= m, m <= Len(docs),
         NEW bs, AreCounted(bs, terms, docs, n),
         NEW file, IsBatch(file, terms, docs, n, m)
  PROVE  AreCounted(Append(bs, file), terms, docs, m)
<1> DEFINE new == Append(bs, file)
           p == Len(bs)
<1>1. bs \in Seq(InvertedFiles(terms)) /\ file \in InvertedFiles(terms)
  BY DEF AreCounted, IsBatch
<1>2. /\ p \in Nat /\ DOMAIN bs = 1..p /\ new \in Seq(InvertedFiles(terms))
      /\ DOMAIN new = 1..(p + 1) /\ new[p + 1] = file
      /\ \A b \in 1..p : new[b] = bs[b] /\ bs[b] \in InvertedFiles(terms)
  <2>1. /\ new \in Seq(InvertedFiles(terms)) /\ Len(new) = p + 1 /\ new[p + 1] = file
        /\ \A b \in 1..p : new[b] = bs[b]
    BY <1>1, AppendProperties
  <2>2. DOMAIN new = 1..Len(new) /\ p \in Nat /\ DOMAIN bs = 1..p
    BY <2>1, <1>1, LenProperties
  <2>3. \A b \in 1..p : bs[b] \in InvertedFiles(terms)
    BY <1>1, ElementOfSeq
  <2> QED BY <2>1, <2>2, <2>3
<1> HIDE DEF new, p
<1>3. \A b \in 1..(p + 1) : new[b] \in InvertedFiles(terms)
  <2>1. \A b \in 1..(p + 1) : b \in 1..p \/ b = p + 1
    BY <1>2
  <2> QED BY <2>1, <1>1, <1>2
<1>4. ASSUME NEW i \in 1..k
      PROVE  /\ DocsIn(new, i) = DocsIn(bs, i) \o file.lists[i].docs
             /\ FreqsIn(new, i) = FreqsIn(bs, i) \o file.lists[i].freqs
  <2>1. \A f \in InvertedFiles(terms) :
          f.lists[i].docs \in Seq(Nat) /\ f.lists[i].freqs \in Seq(Nat)
    BY <1>4 DEF InvertedFiles, Lists
  <2> DEFINE moreDocs == [b \in 1..(p + 1) |-> new[b].lists[i].docs]
             oldDocs == [b \in 1..p |-> bs[b].lists[i].docs]
             moreFreqs == [b \in 1..(p + 1) |-> new[b].lists[i].freqs]
             oldFreqs == [b \in 1..p |-> bs[b].lists[i].freqs]
  <2>2. OneMore(moreDocs, oldDocs, file.lists[i].docs, p, Nat)
    BY <2>1, <1>1, <1>2, <1>3 DEF OneMore
  <2>3. OneMore(moreFreqs, oldFreqs, file.lists[i].freqs, p, Nat)
    BY <2>1, <1>1, <1>2, <1>3 DEF OneMore
  <2> HIDE DEF moreDocs, oldDocs, moreFreqs, oldFreqs
  <2>4. /\ IsConcat(FlattenSeq(moreDocs), FlattenSeq(oldDocs), file.lists[i].docs)
        /\ IsConcat(FlattenSeq(moreFreqs), FlattenSeq(oldFreqs), file.lists[i].freqs)
    BY <2>2, <2>3, <1>2, OneMoreFlattened
  <2> QED BY <2>4, <1>2 DEF DocsIn, FreqsIn, IsConcat, moreDocs, oldDocs, moreFreqs, oldFreqs
<1>5. SizesIn(new) = SizesIn(bs) \o file.sizes
  <2>1. \A f \in InvertedFiles(terms) : f.sizes \in Seq(Nat)
    BY DEF InvertedFiles
  <2> DEFINE moreSizes == [b \in 1..(p + 1) |-> new[b].sizes]
             oldSizes == [b \in 1..p |-> bs[b].sizes]
  <2>2. OneMore(moreSizes, oldSizes, file.sizes, p, Nat)
    BY <2>1, <1>1, <1>2, <1>3 DEF OneMore
  <2> HIDE DEF moreSizes, oldSizes
  <2>3. IsConcat(FlattenSeq(moreSizes), FlattenSeq(oldSizes), file.sizes)
    BY <2>2, <1>2, OneMoreFlattened
  <2> QED BY <2>3, <1>2 DEF SizesIn, IsConcat, moreSizes, oldSizes
<1>6. ASSUME NEW i \in 1..k
      PROVE  Tallies(DocsIn(new, i), FreqsIn(new, i), DocCounts(docs, 0, m, i - 1))
  <2> DEFINE s == DocsIn(bs, i)
             f == FreqsIn(bs, i)
             c == DocCounts(docs, 0, n, i - 1)
             t == file.lists[i].docs
             g == file.lists[i].freqs
             e == DocCounts(docs, n, m, i - 1)
  <2>1. Tallies(s, f, c)
    BY <1>6 DEF AreCounted
  <2>2. Tallies(t, g, e)
    BY <1>6 DEF IsBatch
  <2>3. /\ IsSum(DocCounts(docs, 0, m, i - 1), c, e)
        /\ \A x, y \in Nat : c[x] > 0 /\ e[y] > 0 => x < y
    <3>1. i - 1 \in Nat
      BY <1>6
    <3> HIDE DEF c, e
    <3> QED BY <3>1, DocCountsAdd DEF c, e
  <2> HIDE DEF s, f, c, t, g, e
  <2>4. BeforeAll(s, t)
    <3>1. \A x \in DOMAIN s : s[x] \in Nat /\ c[s[x]] > 0
      BY <2>1, TalliesUnfold
    <3>2. \A x \in DOMAIN t : t[x] \in Nat /\ e[t[x]] > 0
      BY <2>2, TalliesUnfold
    <3> QED BY <3>1, <3>2, <2>3 DEF BeforeAll
  <2>5. Tallies(s \o t, f \o g, DocCounts(docs, 0, m, i - 1))
    BY <2>1, <2>2, <2>3, <2>4, TalliesApart
  <2> QED BY <2>5, <1>4 DEF s, f, t, g
<1>7. SizesIn(new) = [d \in 1..m |-> Len(docs[d])]
  <2> DEFINE a == [d \in 1..n |-> Len(docs[d])]
             b == [d \in 1..(m - n) |-> Len(docs[n + d])]
             q == m - n
  <2>1. SizesIn(bs) = a /\ file.sizes = b
    BY DEF AreCounted, IsBatch
  <2>2. \A d \in 1..m : Len(docs[d]) \in Nat
    <3>1. \A d \in 1..Len(docs) : docs[d] \in Seq(Nat)
      BY ElementOfSeq
    <3>2. Len(docs) \in Nat
      BY LenProperties
    <3> QED BY <3>1, <3>2, LenProperties
  <2>3. a \in Seq(Nat) /\ Len(a) = n
    BY <2>2, IsASeq
  <2>4. b \in Seq(Nat) /\ Len(b) = q /\ q \in Nat
    <3>1. \A d \in 1..(m - n) : n + d \in 1..m
      OBVIOUS
    <3> QED BY <3>1, <2>2, IsASeq
  <2>5. (\A d \in 1..n : a[d] = Len(docs[d])) /\ (\A d \in 1..q : b[d] = Len(docs[n + d]))
    OBVIOUS
  <2>6. n + q = m
    OBVIOUS
  <2> HIDE DEF a, b, q
  <2>7. /\ a \o b \in Seq(Nat) /\ Len(a \o b) = m
        /\ \A d \in 1..n : (a \o b)[d] = a[d]
        /\ \A d \in 1..m : d \in 1..n \/ (d - n \in 1..q /\ (a \o b)[d] = b[d - n])
    <3>1. a \in Seq(Nat) /\ b \in Seq(Nat) /\ Len(a) = n /\ Len(b) = q /\ n \in Nat /\ q \in Nat
      BY <2>3, <2>4
    <3>2. \A u, v \in Seq(Nat) :
            /\ u \o v \in Seq(Nat) /\ Len(u \o v) = Len(u) + Len(v)
            /\ \A d \in 1..Len(u) : (u \o v)[d] = u[d]
            /\ \A d \in 1..Len(v) : (u \o v)[Len(u) + d] = v[d]
      BY ConcatPlaces
    <3>3. /\ a \o b \in Seq(Nat) /\ Len(a \o b) = n + q
          /\ \A d \in 1..n : (a \o b)[d] = a[d]
          /\ \A d \in 1..q : (a \o b)[n + d] = b[d]
      BY <3>1, <3>2
    <3>4. \A d \in 1..m : d \in 1..n \/ (d - n \in 1..q /\ n + (d - n) = d)
      BY <3>1, <2>6
    <3>5. ASSUME NEW d \in 1..m, d - n \in 1..q, n + (d - n) = d
          PROVE  (a \o b)[d] = b[d - n]
      <4>1. (a \o b)[n + (d - n)] = b[d - n]
        BY <3>3, <3>5
      <4> QED BY <4>1, <3>5
    <3> QED BY <3>3, <3>4, <3>5, <2>6
  <2>8. a \o b \in [1..m -> Nat]
    BY <2>7, LenProperties
  <2>9. ASSUME NEW d \in 1..m PROVE (a \o b)[d] = Len(docs[d])
    <3>1. CASE d \in 1..n
      BY <3>1, <2>5, <2>7
    <3>2. CASE d \notin 1..n
      <4>1. d - n \in 1..q /\ (a \o b)[d] = b[d - n] /\ n + (d - n) = d
        BY SMTT(30), ZenonT(60), <3>2, <2>7
      <4> QED BY <4>1, <2>5
    <3> QED BY <3>1, <3>2
  <2>10. a \o b = [d \in 1..m |-> Len(docs[d])]
    BY <2>8, <2>9
  <2> QED BY <2>1, <2>10, <1>5
<1> QED BY <1>2, <1>6, <1>7 DEF AreCounted, new

-----------------------------------------------------------------------------
(* The steps of the inversion.                                             *)

\* What is inverted.
SourceTyped ==
  /\ source.docs \in Seq(Seq(Nat))
  /\ \E k \in Nat : DOMAIN source.terms = 1..k

\* The bodies cover the postings of the next documents.
BatchInv ==
  /\ postings \in Seq(Pairs) /\ InOrder(postings) /\ Covering(bodies, postings)
  /\ \A t \in Nat :
       TermCounts(postings, t) =
         DocCounts(source.docs, processed, processed + Len(InBatch(processed)), t)

\* The files hold the documents processed.
InvertInv ==
  /\ SourceTyped
  /\ processed \in Nat /\ processed <= Len(source.docs)
  /\ AreCounted(batches, source.terms, source.docs, processed)
  /\ bodies # <<>> => BatchInv

\* A part of some documents.
LEMMA NextChunk ==
  ASSUME NEW docs \in Seq(Seq(Nat)), NEW first \in Nat, NEW size \in Nat, first <= Len(docs)
  PROVE  LET batch == Chunk(docs, first, size)
         IN  /\ Len(batch) \in Nat /\ first + Len(batch) <= Len(docs)
             /\ DOMAIN batch = 1..Len(batch)
             /\ \A i \in DOMAIN batch : batch[i] = docs[first + i]
<1> DEFINE batch == Chunk(docs, first, size)
           n == ChunkSize(Len(docs), first, size)
<1>1. /\ batch \in Seq(Seq(Nat)) /\ n \in Nat /\ Len(batch) = n /\ DOMAIN batch = 1..n
      /\ \A i \in 1..n : batch[i] = docs[first + i] /\ first + i \in DOMAIN docs
  BY DocsChunk DEF IsChunk
<1>2. first + n <= Len(docs)
  <2>1. Len(docs) \in Nat
    BY LenProperties
  <2> QED BY <2>1 DEF ChunkSize
<1> HIDE DEF batch, n
<1> QED BY <1>1, <1>2 DEF batch

\* The next batch is a part of the source.
LEMMA NextDocuments ==
  ASSUME InvertInv
  PROVE  LET batch == InBatch(processed)
         IN  /\ Len(batch) \in Nat /\ processed + Len(batch) <= Len(source.docs)
             /\ DOMAIN batch = 1..Len(batch)
             /\ \A i \in DOMAIN batch : batch[i] = source.docs[processed + i]
<1>1. source.docs \in Seq(Seq(Nat)) /\ processed \in Nat /\ InvertBatch \in Nat
      /\ processed <= Len(source.docs)
  BY InversionAssumption DEF InvertInv, SourceTyped
<1> QED BY <1>1, NextChunk DEF InBatch

\* The reduction of a batch begins.
LEMMA NextBatchKeeps ==
  ASSUME InvertInv, NextBatch
  PROVE  InvertInv'
<1>1. /\ UNCHANGED <<source, processed, batches>>
      /\ postings' = Sorted(PostingsOf(InBatch(processed), processed))
      /\ bodies' = <<[lists |-> <<>>, at |-> 0, last |-> Len(postings')]>>
  BY DEF NextBatch
<1>2. source.docs \in Seq(Seq(Nat)) /\ processed \in Nat /\ InvertBatch \in Nat
      /\ processed <= Len(source.docs)
  BY InversionAssumption DEF InvertInv, SourceTyped
<1>3. /\ postings' \in Seq(Pairs) /\ InOrder(postings')
      /\ \A t \in Nat :
           TermCounts(postings', t) =
             DocCounts(source.docs, processed, processed + Len(InBatch(processed)), t)
  <2> DEFINE s == Sorted(PostingsOf(InBatch(processed), processed))
  <2>1. /\ s \in Seq(Pairs) /\ InOrder(s)
        /\ \A t \in Nat :
             TermCounts(s, t) =
               DocCounts(source.docs, processed, processed + Len(InBatch(processed)), t)
    BY <1>2, BatchIsCounted DEF InBatch
  <2> HIDE DEF s
  <2>2. postings' = s
    BY <1>1 DEF s
  <2> QED BY <2>1, <2>2
<1>4. Covering(bodies', postings')
  <2>1. PICK s : s = postings'
    OBVIOUS
  <2>2. s \in Seq(Pairs) /\ InOrder(s)
    BY <1>3, <2>1
  <2>3. Covering(<<[lists |-> <<>>, at |-> 0, last |-> Len(s)]>>, s)
    BY <2>2, OneBodyCovers
  <2> QED BY <2>1, <2>3, <1>1
<1>5. BatchInv'
  <2>1. InBatch(processed)' = InBatch(processed)
    BY <1>1 DEF InBatch
  <2>2. source' = source /\ processed' = processed
    BY <1>1
  <2> QED BY <2>1, <2>2, <1>3, <1>4 DEF BatchInv
<1> QED BY <1>1, <1>5 DEF InvertInv, SourceTyped

\* The bodies change, and still cover the postings.
LEMMA BodiesKeep ==
  ASSUME InvertInv, bodies # <<>>, UNCHANGED <<source, processed, postings, batches>>,
         BatchInv => Covering(bodies', postings)
  PROVE  InvertInv'
<1>1. BatchInv
  BY DEF InvertInv
<1>2. InBatch(processed)' = InBatch(processed)
  BY DEF InBatch
<1>3. source' = source /\ processed' = processed /\ postings' = postings
  OBVIOUS
<1>4. BatchInv'
  BY <1>1, <1>2, <1>3 DEF BatchInv
<1> QED BY <1>4 DEF InvertInv, SourceTyped

\* However the bodies read, split and join, they cover the postings.
LEMMA ReduceKeeps ==
  ASSUME InvertInv, Reduce
  PROVE  InvertInv'
<1>1. PICK b \in DOMAIN bodies : Read(b) \/ Split(b) \/ Join(b)
  BY DEF Reduce
<1>2. UNCHANGED <<source, processed, postings, batches>>
  BY <1>1 DEF Read, Split, Join
<1>3. bodies # <<>>
  BY <1>1
<1>4. ASSUME BatchInv PROVE Covering(bodies', postings)
  <2>1. postings \in Seq(Pairs) /\ InOrder(postings) /\ Covering(bodies, postings)
    BY <1>4 DEF BatchInv
  <2>2. CASE Read(b)
    <3>1. PICK to \in (bodies[b].at + 1)..bodies[b].last : bodies' = ReadOn(bodies, postings, b, to)
      BY <2>2 DEF Read, ReadOn
    <3> QED BY <3>1, <2>1, <1>1, ReadCovers
  <2>3. CASE Split(b)
    <3>1. PICK middle \in (bodies[b].at + 1)..(bodies[b].last - 1) :
            bodies' = SplitAt(bodies, b, middle)
      BY <2>3 DEF Split, SplitAt
    <3> QED BY <3>1, <2>1, <1>1, SplitCovers
  <2>4. CASE Join(b)
    <3>1. /\ bodies' = JoinedAt(bodies, b) /\ b < Len(bodies)
          /\ bodies[b].at = bodies[b].last /\ bodies[b + 1].at = bodies[b + 1].last
      BY <2>4 DEF Join, JoinedAt
    <3> QED BY <3>1, <2>1, <1>1, JoinCovers
  <2> QED BY <1>1, <2>2, <2>3, <2>4
<1> QED BY <1>2, <1>3, <1>4, BodiesKeep

\* The lists of the one body that is left are those of all postings.
LEMMA LastBody ==
  ASSUME NEW s \in Seq(Pairs), NEW bs, Covering(bs, s), Len(bs) = 1, bs[1].at = bs[1].last
  PROVE  Represents(bs[1].lists, s)
<1>1. bs[1].last = Len(s) /\ HasRead(bs[1], s, Start(bs, 1))
  BY DEF Covering
<1>2. Start(bs, 1) = 0
  BY DEF Start
<1>3. Represents(bs[1].lists, SubSeq(s, 0 + 1, Len(s)))
  BY <1>1, <1>2 DEF HasRead
<1>4. SubSeq(s, 0 + 1, Len(s)) = s
  BY SubSeqFull
<1> QED BY <1>3, <1>4

\* The lists of a batch are written.
LEMMA WriteKeeps ==
  ASSUME InvertInv, WriteInverted
  PROVE  InvertInv'
<1> DEFINE batch == InBatch(processed)
           n == Len(batch)
           lists == bodies[1].lists
           file == [lists |-> Written(lists), sizes |-> [i \in DOMAIN batch |-> Len(batch[i])]]
<1>1. /\ bodies' = <<>> /\ source' = source /\ processed' = processed + n
      /\ batches' = Append(batches, file)
      /\ Len(bodies) = 1 /\ bodies[1].at = bodies[1].last
  BY DEF WriteInverted
<1>2. /\ n \in Nat /\ processed + n <= Len(source.docs) /\ DOMAIN batch = 1..n
      /\ \A i \in DOMAIN batch : batch[i] = source.docs[processed + i]
  BY NextDocuments
<1>3. PICK k \in Nat : DOMAIN source.terms = 1..k
  BY DEF InvertInv, SourceTyped
<1>4. /\ source.docs \in Seq(Seq(Nat)) /\ processed \in Nat /\ processed <= Len(source.docs)
      /\ AreCounted(batches, source.terms, source.docs, processed)
  BY DEF InvertInv, SourceTyped
<1>5. BatchInv
  <2>1. bodies # <<>>
    <3>1. Len(<<>>) = 0
      OBVIOUS
    <3>2. Len(bodies) # Len(<<>>)
      BY <3>1, <1>1
    <3> QED BY <3>2
  <2> QED BY <2>1 DEF InvertInv
<1>6. Represents(lists, postings)
  BY <1>1, <1>5, LastBody DEF BatchInv
<1>7. \A t \in Nat : TermCounts(postings, t) = DocCounts(source.docs, processed, processed + n, t)
  BY <1>5 DEF BatchInv
<1>8. Written(lists) = [i \in 1..k |-> Old(lists, i - 1)]
  <2>1. DOMAIN source.terms = 1..k
    BY <1>3
  <2> HIDE DEF lists
  <2> QED BY <2>1 DEF Written, Old, NoList
<1> HIDE DEF batch, n, lists
<1>9. ASSUME NEW i \in 1..k
      PROVE  /\ Old(lists, i - 1) \in Lists
             /\ Tallies(Old(lists, i - 1).docs, Old(lists, i - 1).freqs,
                        DocCounts(source.docs, processed, processed + n, i - 1))
  <2>1. i - 1 \in Nat
    BY <1>9
  <2>2. PICK t \in Nat : t = i - 1
    BY <2>1
  <2>3. Tallies(Old(lists, t).docs, Old(lists, t).freqs, TermCounts(postings, t))
    BY <1>6, OldIsListing
  <2>4. Old(lists, t) \in Lists
    <3>1. CASE t \in DOMAIN lists
      BY <3>1, <1>6 DEF Represents, IsListing, Old
    <3>2. CASE t \notin DOMAIN lists
      <4>1. <<>> \in Seq(Nat)
        BY EmptySeq
      <4> QED BY <3>2, <4>1 DEF Old, NoList, Lists
    <3> QED BY <3>1, <3>2
  <2> QED BY <2>2, <2>3, <2>4, <1>7
<1>10. file.sizes = [d \in 1..n |-> Len(source.docs[processed + d])]
       /\ file.sizes \in Seq(Nat)
  <2>1. file.sizes = [d \in 1..n |-> Len(source.docs[processed + d])]
    BY <1>2
  <2>2. \A d \in 1..n : Len(source.docs[processed + d]) \in Nat
    <3> TAKE d \in 1..n
    <3>1. Len(source.docs) \in Nat
      BY <1>4, LenProperties
    <3>2. processed + d \in 1..Len(source.docs)
      BY <3>1, <1>2, <1>4
    <3>3. source.docs[processed + d] \in Seq(Nat)
      BY <3>2, <1>4, ElementOfSeq
    <3> QED BY <3>3, LenProperties
  <2>3. [d \in 1..n |-> Len(source.docs[processed + d])] \in Seq(Nat)
    BY <2>2, <1>2, IsASeq
  <2> QED BY <2>1, <2>3
<1>11. IsBatch(file, source.terms, source.docs, processed, processed + n)
  <2>1. file.lists = [i \in 1..k |-> Old(lists, i - 1)]
    BY <1>8
  <2>2. file.lists \in [DOMAIN source.terms -> Lists]
    BY <2>1, <1>3, <1>9
  <2>3. file \in InvertedFiles(source.terms)
    BY <2>2, <1>10 DEF InvertedFiles
  <2>4. (processed + n) - processed = n
    BY <1>2, <1>4
  <2> HIDE DEF file
  <2> QED BY <2>1, <2>3, <2>4, <1>3, <1>9, <1>10 DEF IsBatch
<1> HIDE DEF file
<1>12. AreCounted(batches', source.terms, source.docs, processed + n)
  <2>1. PICK m \in Nat : m = processed + n
    BY <1>2, <1>4
  <2>2. processed <= m /\ m <= Len(source.docs)
    BY <2>1, <1>2, <1>4
  <2>3. IsBatch(file, source.terms, source.docs, processed, m)
    BY <2>1, <1>11
  <2>4. AreCounted(Append(batches, file), source.terms, source.docs, m)
    BY <2>2, <2>3, <1>3, <1>4, OneMoreCounted
  <2> QED BY <2>1, <2>4, <1>1
<1>13. processed' \in Nat /\ processed' <= Len(source.docs)
  BY <1>1, <1>2, <1>4
<1> QED BY <1>1, <1>12, <1>13 DEF InvertInv, SourceTyped

-----------------------------------------------------------------------------
(* The inverted index.                                                     *)

\* The members of a set, each once, are numbered.
Numbers(f, m, T) ==
  /\ f \in [1..m -> T]
  /\ \A i, j \in 1..m : i # j => f[i] # f[j]
  /\ \A x \in T : \E i \in 1..m : f[i] = x

\* Then there are as many.
LEMMA NumberedSet ==
  ASSUME NEW m \in Nat, NEW T, NEW f, Numbers(f, m, T)
  PROVE  IsFiniteSet(T) /\ Cardinality(T) = m
<1>1. f \in Injection(1..m, T) /\ f \in Surjection(1..m, T)
  BY DEF Numbers, Injection, IsInjective, Surjection
<1>2. ExistsBijection(1..m, T)
  BY <1>1 DEF ExistsBijection, Bijection
<1>3. IsFiniteSet(1..m) /\ Cardinality(1..m) = m
  BY FS_Interval
<1> QED BY <1>2, <1>3, FS_Bijection

\* A sequence that has the members of a set in ascending order is the sorted one.
LEMMA AscendingIsUnique ==
  ASSUME NEW S, S \subseteq Int, NEW m \in Nat, NEW a, Numbers(a, m, S),
         \A i, j \in 1..m : i < j => a[i] < a[j]
  PROVE  Ascending(S) = a /\ IsFiniteSet(S)
<1>1. IsFiniteSet(S) /\ Cardinality(S) = m
  BY NumberedSet
<1>2. /\ a \in [1..m -> S] /\ \A x \in S : \E i \in 1..m : a[i] = x
      /\ \A i \in 1..m : a[i] \in S /\ a[i] \in Int
      /\ \A i, j \in 1..m : i # j => a[i] # a[j]
  BY DEF Numbers
<1>3. ASSUME NEW k \in 1..m PROVE Rank(S, a[k]) = k - 1
  <2> DEFINE T == {y \in S : y < a[k]}
             f == [i \in 1..(k - 1) |-> a[i]]
  <2>1. \A i \in 1..(k - 1) : i \in 1..m /\ i < k
    OBVIOUS
  <2>2. f \in [1..(k - 1) -> T]
    BY <2>1, <1>2
  <2>3. \A i, j \in 1..(k - 1) : i # j => f[i] # f[j]
    BY <2>1, <1>2
  <2>4. ASSUME NEW x \in T PROVE \E i \in 1..(k - 1) : f[i] = x
    <3>1. PICK i \in 1..m : a[i] = x
      BY <1>2
    <3>2. a[i] < a[k]
      BY <3>1
    <3>3. ~ (k < i) /\ i # k
      <4>1. k < i => a[k] < a[i]
        OBVIOUS
      <4>2. a[i] \in Int /\ a[k] \in Int
        BY <1>2
      <4> QED BY <4>1, <4>2, <3>2
    <3>4. i \in 1..(k - 1)
      BY <3>3
    <3> QED BY <3>1, <3>4
  <2>5. k - 1 \in Nat
    OBVIOUS
  <2> HIDE DEF T, f
  <2>6. Numbers(f, k - 1, T)
    BY <2>2, <2>3, <2>4 DEF Numbers
  <2>7. Cardinality(T) = k - 1
    BY <2>5, <2>6, NumberedSet
  <2> QED BY <2>7 DEF Rank, T
<1>4. ASSUME NEW k \in 1..m PROVE Ascending(S)[k] = a[k]
  <2>1. a[k] \in S
    BY <1>2
  <2>2. Ascending(S)[Rank(S, a[k]) + 1] = a[k]
    BY <2>1, <1>1, AscendingPlaces
  <2>3. Rank(S, a[k]) + 1 = k
    BY <1>3
  <2> QED BY <2>2, <2>3
<1>5. Ascending(S) \in [1..m -> S]
  BY <1>1, AscendingSorts
<1>6. Ascending(S) = a
  BY <1>2, <1>4, <1>5
<1> QED BY <1>1, <1>6

\* The documents that have a term, counted from 1.
Having(docs, t) == {d \in DOMAIN docs : Occurrences(docs[d], t) > 0}

\* The list of a term in all documents is that of those that have it.
LEMMA WholeListing ==
  ASSUME NEW docs \in Seq(Seq(Nat)), NEW t \in Nat, NEW s, NEW f,
         Tallies(s, f, DocCounts(docs, 0, Len(docs), t))
  PROVE  LET has == Ascending(Having(docs, t))
         IN  /\ s = [i \in DOMAIN has |-> has[i] - 1]
             /\ f = [i \in DOMAIN has |-> Occurrences(docs[has[i]], t)]
<1> DEFINE n == Len(docs)
           m == Len(s)
           c == DocCounts(docs, 0, n, t)
           S == Having(docs, t)
           a == [i \in 1..m |-> s[i] + 1]
<1>1. /\ s \in Seq(Nat) /\ f \in Seq(Nat) /\ m \in Nat /\ Len(f) = m
      /\ DOMAIN s = 1..m /\ DOMAIN f = 1..m
      /\ \A i \in 1..m : s[i] \in Nat /\ f[i] \in Nat
      /\ \A i, j \in 1..m : i < j => s[i] < s[j]
      /\ \A i \in 1..m : f[i] = c[s[i]] /\ c[s[i]] > 0
      /\ \A d \in Nat : c[d] > 0 => \E i \in 1..m : s[i] = d
  BY TalliesUnfold
<1>2. n \in Nat /\ DOMAIN docs = 1..n
  BY LenProperties
<1>3. \A d \in Nat : c[d] = IF d \in 0..(n - 1) THEN Occurrences(docs[d + 1], t) ELSE 0
  BY DEF DocCounts
<1>4. S = {d \in 1..n : Occurrences(docs[d], t) > 0}
  BY <1>2 DEF Having
<1> HIDE DEF n, m, c, S
<1>5. \A i \in 1..m : /\ s[i] \in 0..(n - 1) /\ s[i] + 1 \in 1..n /\ (s[i] + 1) - 1 = s[i]
                      /\ f[i] = Occurrences(docs[s[i] + 1], t)
                      /\ Occurrences(docs[s[i] + 1], t) > 0
  <2> TAKE i \in 1..m
  <2>1. s[i] \in Nat /\ c[s[i]] > 0 /\ f[i] = c[s[i]]
    BY <1>1
  <2>2. s[i] \in 0..(n - 1)
    BY <2>1, <1>3
  <2> QED BY <2>1, <2>2, <1>2, <1>3
<1>6. a \in [1..m -> S] /\ \A i \in 1..m : a[i] = s[i] + 1
  BY <1>4, <1>5
<1>7. \A i, j \in 1..m : i # j => a[i] # a[j]
  <2> TAKE i, j \in 1..m
  <2>1. i < j \/ j < i \/ i = j
    OBVIOUS
  <2>2. s[i] \in Nat /\ s[j] \in Nat /\ a[i] = s[i] + 1 /\ a[j] = s[j] + 1
    BY <1>1, <1>6
  <2>3. (i < j => s[i] < s[j]) /\ (j < i => s[j] < s[i])
    BY <1>1
  <2> HIDE DEF a
  <2> QED BY <2>1, <2>2, <2>3
<1>8. ASSUME NEW d \in S PROVE \E i \in 1..m : a[i] = d
  <2>1. d \in 1..n /\ Occurrences(docs[d], t) > 0
    BY <1>4
  <2>2. d - 1 \in Nat /\ d - 1 \in 0..(n - 1) /\ (d - 1) + 1 = d
    BY <2>1, <1>2
  <2>3. c[d - 1] > 0
    BY <2>1, <2>2, <1>3
  <2>4. PICK i \in 1..m : s[i] = d - 1
    BY <2>2, <2>3, <1>1
  <2> QED BY <2>2, <2>4, <1>6
<1>9. \A i, j \in 1..m : i < j => a[i] < a[j]
  BY <1>1, <1>6
<1>10. S \subseteq Int
  BY <1>4
<1> HIDE DEF a
<1>11. Ascending(S) = a
  <2>1. Numbers(a, m, S)
    BY <1>6, <1>7, <1>8 DEF Numbers
  <2> QED BY <2>1, <1>1, <1>9, <1>10, AscendingIsUnique
<1>12. DOMAIN a = 1..m
  BY <1>6
<1>13. s = [i \in 1..m |-> a[i] - 1]
  <2>1. s = [i \in 1..m |-> s[i]]
    BY <1>1, LenProperties
  <2>2. \A i \in 1..m : a[i] - 1 = s[i]
    BY <1>5, <1>6
  <2> QED BY <2>1, <2>2
<1>14. f = [i \in 1..m |-> Occurrences(docs[a[i]], t)]
  <2>1. f = [i \in 1..m |-> f[i]]
    BY <1>1, LenProperties
  <2>2. \A i \in 1..m : Occurrences(docs[a[i]], t) = f[i]
    BY <1>5, <1>6
  <2> QED BY <2>1, <2>2
<1> QED BY <1>11, <1>12, <1>13, <1>14 DEF S

\* An index that has the list of each term, and the size of each document.
IsTallied(inverted) ==
  /\ inverted.sizes = [d \in 1..Len(source.docs) |-> Len(source.docs[d])]
  /\ DOMAIN inverted.lists = DOMAIN source.terms
  /\ \A t \in DOMAIN source.terms :
       Tallies(inverted.lists[t].docs, inverted.lists[t].freqs,
               DocCounts(source.docs, 0, Len(source.docs), t - 1))

\* It is the inversion of the source.
LEMMA ListsAreInversion ==
  ASSUME SourceTyped, NEW inverted, IsTallied(inverted)
  PROVE  IsInversion(inverted)
<1>1. source.docs \in Seq(Seq(Nat)) /\ DOMAIN source.terms \subseteq Nat \ {0}
  BY DEF SourceTyped
<1>2. DOMAIN source.docs = 1..Len(source.docs)
  BY <1>1, LenProperties
<1> DEFINE count(d, t) ==
             Cardinality({j \in DOMAIN source.docs[d] : source.docs[d][j] = t - 1})
           has(t) == Ascending({d \in DOMAIN source.docs : count(d, t) > 0})
<1>3. \A d, t : count(d, t) = Occurrences(source.docs[d], t - 1)
  BY DEF Occurrences, PlacesOf
<1> HIDE DEF count
<1>4. \A t : has(t) = Ascending(Having(source.docs, t - 1))
  <2>1. \A t : {d \in DOMAIN source.docs : count(d, t) > 0} = Having(source.docs, t - 1)
    BY <1>3 DEF Having
  <2> QED BY <2>1
<1> HIDE DEF has
<1>5. ASSUME NEW t \in DOMAIN source.terms
      PROVE  /\ inverted.lists[t].docs = [i \in DOMAIN has(t) |-> has(t)[i] - 1]
             /\ inverted.lists[t].freqs = [i \in DOMAIN has(t) |-> count(has(t)[i], t)]
  <2>1. PICK u \in Nat : u = t - 1
    BY <1>1
  <2> DEFINE s == inverted.lists[t].docs
             f == inverted.lists[t].freqs
             h == Ascending(Having(source.docs, u))
  <2>2. Tallies(s, f, DocCounts(source.docs, 0, Len(source.docs), u))
    BY <2>1 DEF IsTallied
  <2> HIDE DEF s, f
  <2>3. /\ s = [i \in DOMAIN h |-> h[i] - 1]
        /\ f = [i \in DOMAIN h |-> Occurrences(source.docs[h[i]], u)]
    BY <2>2, <1>1, WholeListing
  <2>4. has(t) = h
    BY <2>1, <1>4
  <2> HIDE DEF h
  <2>5. f = [i \in DOMAIN h |-> count(h[i], t)]
    BY <2>1, <2>3, <1>3
  <2> QED BY <2>3, <2>4, <2>5 DEF s, f
<1>6. inverted.sizes = [d \in DOMAIN source.docs |-> Len(source.docs[d])]
  BY <1>2 DEF IsTallied
<1>7. DOMAIN inverted.lists = DOMAIN source.terms
  BY DEF IsTallied
<1> QED BY <1>5, <1>6, <1>7 DEF IsInversion, has, count

\* The lists of all batches are the inverted index.
LEMMA MergeInverts ==
  ASSUME InvertInv, MergeInverted, ~CannotMerge
  PROVE  SourceTyped' /\ IsInversion(index)' /\ IsTallied(index)'
<1>1. /\ source' = source /\ processed = Len(source.docs)
      /\ index' = [lists |-> [i \in DOMAIN source.terms |-> MergedList(i)],
                   sizes |-> FlattenSeq([b \in DOMAIN batches |-> batches[b].sizes])]
  BY DEF MergeInverted
<1>2. /\ SourceTyped /\ AreCounted(batches, source.terms, source.docs, Len(source.docs))
  BY <1>1 DEF InvertInv
<1>3. /\ index'.sizes = [d \in 1..Len(source.docs) |-> Len(source.docs[d])]
      /\ DOMAIN index'.lists = DOMAIN source.terms
      /\ \A t \in DOMAIN source.terms : index'.lists[t].docs = DocsIn(batches, t)
                                        /\ index'.lists[t].freqs = FreqsIn(batches, t)
  BY <1>1, <1>2 DEF AreCounted, SizesIn, MergedList, DocsIn, FreqsIn
<1>4. \A t \in DOMAIN source.terms :
        Tallies(index'.lists[t].docs, index'.lists[t].freqs,
                DocCounts(source.docs, 0, Len(source.docs), t - 1))
  BY <1>2, <1>3 DEF AreCounted
<1>5. IsTallied(index') /\ IsInversion(index')
  <2>1. IsTallied(index')
    BY <1>3, <1>4 DEF IsTallied
  <2> QED BY <2>1, <1>2, ListsAreInversion
<1>6. IsInversion(index)' = IsInversion(index') /\ IsTallied(index)' = IsTallied(index')
  BY <1>1 DEF IsInversion, IsTallied
<1> QED BY <1>1, <1>2, <1>5, <1>6 DEF SourceTyped

\* A complete index can be inverted.
LEMMA DoneIsTyped ==
  ASSUME BuildInv, TermsInv, pc = "done", ~torn
  PROVE  /\ output.docs \in Seq(Seq(Nat)) /\ Identified(output)
         /\ \E k \in Nat : DOMAIN output.terms = 1..k
<1>1. ReadInv /\ IndexIsComplete /\ output.docs = [d \in DOMAIN documents |-> output.docs[d]]
  BY DoneIsComplete DEF BuildInv
<1>2. /\ Len(documents) \in Nat /\ DOMAIN documents = 1..Len(documents)
      /\ DOMAIN output.docs = DOMAIN documents /\ Identified(output)
  BY <1>1, CompleteIsIdentified
<1>3. documents \in Seq(Seq(Nat))
  BY <1>1, WorkloadAssumption DEF documents, ReadInv
<1>4. ASSUME NEW d \in 1..Len(documents) PROVE output.docs[d] \in Seq(Nat)
  <2> DEFINE m == Len(documents[d])
             id(j) == (CHOOSE t \in DOMAIN output.terms : output.terms[t] = documents[d][j]) - 1
  <2>1. m \in Nat /\ DOMAIN documents[d] = 1..m
    <3>1. documents[d] \in Seq(Nat)
      BY <1>3, ElementOfSeq
    <3> QED BY <3>1, LenProperties
  <2>2. output.docs[d] = [j \in 1..m |-> id(j)]
    <3>1. d \in DOMAIN documents
      BY <1>2
    <3>2. output.docs[d] = [j \in DOMAIN documents[d] |-> id(j)]
      BY <3>1, <1>1 DEF IndexIsComplete
    <3> HIDE DEF id
    <3> QED BY <3>2, <2>1
  <2> HIDE DEF id, m
  <2>3. \A j \in 1..m : output.docs[d][j] \in Nat
    <3>1. DOMAIN output.docs[d] = 1..m /\ d \in DOMAIN output.docs
      BY <2>2, <1>2
    <3>2. \A j \in DOMAIN output.docs[d] : output.docs[d][j] \in 0..(Len(output.terms) - 1)
      BY <3>1, <1>2 DEF Identified
    <3> QED BY <3>1, <3>2
  <2>4. output.docs[d] = [j \in 1..m |-> output.docs[d][j]]
    BY <2>2
  <2>5. [j \in 1..m |-> output.docs[d][j]] \in Seq(Nat)
    BY <2>1, <2>3, IsASeq
  <2> QED BY <2>4, <2>5
<1>5. output.docs \in Seq(Seq(Nat))
  <2>1. [d \in 1..Len(documents) |-> output.docs[d]] \in Seq(Seq(Nat))
    BY <1>2, <1>4, IsASeq
  <2> QED BY <2>1, <1>1, <1>2
<1> QED BY <1>2, <1>5 DEF Identified

\* A shard that has been processed can be inverted.
LEMMA FinishedIsTyped ==
  ASSUME NEW c, Identified(c), c.docs \in Seq(Seq(Nat)), DOMAIN shardOf = DOMAIN c.docs, NEW r
  PROVE  LET f == Finished(c, Rearranged(c, shardOf, r))
         IN  /\ f.docs \in Seq(Seq(Nat))
             /\ \E k \in Nat : DOMAIN f.terms = 1..k
<1> DEFINE M == {d \in DOMAIN shardOf : shardOf[d] = r}
           mine == Ascending(M)
           raw == Rearranged(c, shardOf, r)
           has == HasTerm(raw.docs)
           kept == Ascending({t \in 0..(Len(c.terms) - 1) : t \in has})
           f == Finished(c, raw)
           n == Len(c.terms)
           m == Cardinality(M)
<1>1. /\ m \in Nat /\ mine \in [1..m -> M] /\ DOMAIN mine = 1..m
      /\ \A i \in 1..m : mine[i] \in DOMAIN c.docs
  <2>1. M \subseteq 1..Len(c.docs) /\ Len(c.docs) \in Nat
    BY LenProperties
  <2>2. IsFiniteSet(M) /\ M \subseteq Int
    <3>1. IsFiniteSet(1..Len(c.docs))
      BY <2>1, FS_Interval
    <3>2. 1..Len(c.docs) \subseteq Int
      BY <2>1
    <3> HIDE DEF M
    <3>3. M \in SUBSET (1..Len(c.docs)) /\ M \subseteq Int
      BY <3>2, <2>1
    <3> QED BY <3>1, <3>3, FS_Subset
  <2>3. M \subseteq DOMAIN c.docs
    OBVIOUS
  <2> HIDE DEF M
  <2>4. m \in Nat /\ mine \in [1..m -> M]
    BY <2>2, AscendingSorts
  <2> QED BY <2>3, <2>4
<1>2. raw.docs = [i \in 1..m |-> c.docs[mine[i]]]
  <2>1. raw.docs = [i \in DOMAIN mine |-> c.docs[mine[i]]]
    BY DEF Rearranged
  <2> HIDE DEF mine, m
  <2> QED BY <2>1, <1>1
<1>3. n \in Nat /\ \A d \in DOMAIN c.docs : \A j \in DOMAIN c.docs[d] : c.docs[d][j] \in 0..(n - 1)
  BY DEF Identified
<1>4. /\ f.terms = [i \in DOMAIN kept |-> c.terms[kept[i] + 1]]
      /\ f.docs = [i \in DOMAIN raw.docs |->
                     [j \in DOMAIN raw.docs[i] |-> RemappedTermId(has, raw.docs[i][j])]]
  BY DEF Finished
<1> HIDE DEF M, mine, raw, f, n, m
<1>5. IsFiniteSet(has)
  <2>1. has \subseteq 0..(n - 1)
    <3> SUFFICES ASSUME NEW x \in has PROVE x \in 0..(n - 1)
      OBVIOUS
    <3>1. PICK i \in DOMAIN raw.docs : x \in Range(raw.docs[i])
      BY DEF HasTerm
    <3>2. mine[i] \in DOMAIN c.docs /\ raw.docs[i] = c.docs[mine[i]]
      BY <3>1, <1>1, <1>2
    <3>3. PICK j \in DOMAIN c.docs[mine[i]] : x = c.docs[mine[i]][j]
      BY <3>1, <3>2 DEF Range
    <3> QED BY <3>2, <3>3, <1>3
  <2> HIDE DEF has
  <2>2. IsFiniteSet(0..(n - 1))
    <3>1. 0 \in Int /\ n - 1 \in Int
      BY <1>3
    <3> QED BY <3>1, FS_Interval
  <2> QED BY <2>1, <2>2, FS_Subset
<1> HIDE DEF has
<1>6. \A id : RemappedTermId(has, id) \in Nat
  <2> TAKE id
  <2> DEFINE T == {t \in has : t <= id /\ \E u \in has : u < t}
  <2>1. T \subseteq has
    OBVIOUS
  <2> HIDE DEF T
  <2>2. IsFiniteSet(T)
    BY <2>1, <1>5, FS_Subset
  <2> QED BY <2>2, FS_CardinalityType DEF RemappedTermId, T
<1>7. ASSUME NEW i \in 1..m PROVE f.docs[i] \in Seq(Nat)
  <2> DEFINE l == Len(raw.docs[i])
             id(j) == RemappedTermId(has, raw.docs[i][j])
  <2>1. raw.docs[i] \in Seq(Nat)
    <3>1. mine[i] \in DOMAIN c.docs /\ raw.docs[i] = c.docs[mine[i]]
      BY <1>1, <1>2
    <3>2. mine[i] \in 1..Len(c.docs)
      BY <3>1, LenProperties
    <3> QED BY <3>1, <3>2, ElementOfSeq
  <2>2. l \in Nat /\ DOMAIN raw.docs[i] = 1..l
    BY <2>1, LenProperties
  <2>3. f.docs[i] = [j \in DOMAIN raw.docs[i] |-> id(j)]
    BY <1>2, <1>4
  <2>4. \A j \in 1..l : id(j) \in Nat
    BY <1>6
  <2> HIDE DEF l, id
  <2>5. [j \in 1..l |-> id(j)] \in Seq(Nat)
    BY <2>2, <2>4, IsASeq
  <2> QED BY <2>2, <2>3, <2>5
<1>8. f.docs \in Seq(Seq(Nat))
  <2> DEFINE doc(i) == [j \in DOMAIN raw.docs[i] |-> RemappedTermId(has, raw.docs[i][j])]
  <2>1. f.docs = [i \in 1..m |-> doc(i)]
    BY <1>2, <1>4
  <2> HIDE DEF doc
  <2>2. \A i \in 1..m : doc(i) \in Seq(Nat)
    BY <2>1, <1>7
  <2>3. [i \in 1..m |-> doc(i)] \in [1..m -> Seq(Nat)]
    BY <2>2
  <2>4. [i \in 1..m |-> doc(i)] \in Seq(Seq(Nat))
    BY <1>1, <2>3, FunctionIsSeq
  <2> QED BY <2>1, <2>4
<1>9. \E k \in Nat : DOMAIN f.terms = 1..k
  <2> DEFINE K == {t \in 0..(n - 1) : t \in has}
  <2>1. K \subseteq has /\ K \subseteq Int
    OBVIOUS
  <2>2. kept = Ascending(K)
    BY DEF n
  <2> HIDE DEF K
  <2>3. IsFiniteSet(K)
    BY <2>1, <1>5, FS_Subset
  <2>4. Cardinality(K) \in Nat /\ Ascending(K) \in [1..Cardinality(K) -> K]
    BY <2>1, <2>3, AscendingSorts
  <2> HIDE DEF kept
  <2>5. DOMAIN kept = 1..Cardinality(K)
    BY <2>2, <2>4
  <2>6. DOMAIN f.terms = DOMAIN kept
    BY <1>4
  <2> QED BY <2>4, <2>5, <2>6
<1> QED BY <1>8, <1>9 DEF f, raw

-----------------------------------------------------------------------------
(* The forward index that is made from an inverted one.                    *)

\* The gaps of some numbers, and the sums of gaps.
GapsOf(ids) == [i \in DOMAIN ids |-> IF i = 1 THEN ids[1] ELSE ids[i] - ids[i - 1]]
IsSums(f, gaps) == f = [i \in 0..Len(gaps) |-> IF i = 0 THEN 0 ELSE f[i - 1] + gaps[i]]

\* The sums of the gaps are the numbers.
LEMMA SumsOfGaps ==
  ASSUME NEW m \in Nat, NEW ids \in [1..m -> Int], NEW f, IsSums(f, GapsOf(ids))
  PROVE  \A i \in 1..m : f[i] = ids[i]
<1> DEFINE gaps == GapsOf(ids)
           Good == {i \in Nat : i \in 1..m => f[i] = ids[i]}
<1>1. /\ gaps = [i \in 1..m |-> IF i = 1 THEN ids[1] ELSE ids[i] - ids[i - 1]]
      /\ Len(gaps) = m
  <2>1. gaps = [i \in 1..m |-> IF i = 1 THEN ids[1] ELSE ids[i] - ids[i - 1]]
    BY DEF GapsOf
  <2> QED BY <2>1
<1>2. \A i \in 1..m : gaps[i] = IF i = 1 THEN ids[1] ELSE ids[i] - ids[i - 1]
  BY <1>1
<1>3. f = [i \in 0..m |-> IF i = 0 THEN 0 ELSE f[i - 1] + gaps[i]]
  BY <1>1 DEF IsSums
<1> HIDE DEF gaps
<1>4. f[0] = 0 /\ \A i \in 1..m : f[i] = f[i - 1] + gaps[i]
  <2>1. \A i \in 0..m : f[i] = IF i = 0 THEN 0 ELSE f[i - 1] + gaps[i]
    BY <1>3
  <2>2. 0 \in 0..m /\ \A i \in 1..m : i \in 0..m /\ i # 0
    OBVIOUS
  <2> QED BY <2>1, <2>2
<1>5. 1 \in Good
  <2>1. ASSUME 1 \in 1..m PROVE f[1] = ids[1]
    <3>1. f[1] = f[1 - 1] + gaps[1] /\ gaps[1] = ids[1]
      BY <2>1, <1>2, <1>4
    <3>2. ids[1] \in Int /\ f[1 - 1] = 0
      BY <2>1, <1>4
    <3> QED BY <3>1, <3>2
  <2> QED BY <2>1
<1>6. ASSUME NEW k \in 1..(m - 1), k \in Good PROVE k + 1 \in Good
  <2>1. k \in 1..m /\ k + 1 \in 1..m /\ k + 1 # 1 /\ (k + 1) - 1 = k
    OBVIOUS
  <2>2. f[k] = ids[k] /\ f[k + 1] = f[k] + gaps[k + 1]
    BY <2>1, <1>4, <1>6
  <2>3. gaps[k + 1] = ids[k + 1] - ids[k]
    BY <2>1, <1>2
  <2>4. ids[k] \in Int /\ ids[k + 1] \in Int
    BY <2>1
  <2>5. f[k + 1] = ids[k + 1]
    BY <2>2, <2>3, <2>4
  <2> QED BY <2>1, <2>5
<1>7. 1..m \subseteq Good
  <2> HIDE DEF Good
  <2> QED BY <1>5, <1>6, HoldsUpTo
<1> QED BY <1>7

\* There are such sums.
LEMMA SumsExist ==
  ASSUME NEW m \in Nat, NEW ids \in [1..m -> Int]
  PROVE  \E f : IsSums(f, GapsOf(ids))
<1> DEFINE gaps == GapsOf(ids)
<1>1. /\ gaps = [i \in 1..m |-> IF i = 1 THEN ids[1] ELSE ids[i] - ids[i - 1]]
      /\ Len(gaps) = m
  <2>1. gaps = [i \in 1..m |-> IF i = 1 THEN ids[1] ELSE ids[i] - ids[i - 1]]
    BY DEF GapsOf
  <2> QED BY <2>1
<1> HIDE DEF gaps
<1>2. PICK f : f = [i \in 0..m |-> IF i = 0 THEN 0 ELSE ids[i]]
  OBVIOUS
<1>3. ASSUME NEW i \in 0..m PROVE f[i] = IF i = 0 THEN 0 ELSE f[i - 1] + gaps[i]
  <2>1. CASE i = 0
    BY <2>1, <1>2
  <2>2. CASE i = 1
    <3>1. gaps[i] = ids[i] /\ f[i] = ids[i] /\ f[i - 1] = 0 /\ ids[i] \in Int
      BY <2>2, <1>1, <1>2
    <3> QED BY <2>2, <3>1
  <2>3. CASE i # 0 /\ i # 1
    <3>1. i \in 1..m /\ i - 1 \in 1..m /\ i - 1 \in 0..m /\ i - 1 # 0
      BY <2>3
    <3>2. /\ gaps[i] = ids[i] - ids[i - 1] /\ f[i] = ids[i] /\ f[i - 1] = ids[i - 1]
          /\ ids[i] \in Int /\ ids[i - 1] \in Int
      BY <2>3, <3>1, <1>1, <1>2
    <3> QED BY <2>3, <3>2
  <2> QED BY <2>1, <2>2, <2>3
<1>4. f = [i \in 0..m |-> IF i = 0 THEN 0 ELSE f[i - 1] + gaps[i]]
  BY <1>2, <1>3
<1>5. IsSums(f, gaps)
  BY <1>1, <1>4 DEF IsSums
<1> QED BY <1>5 DEF gaps

\* The terms of a document that are kept are numbers.
LEMMA KeptAreTyped ==
  ASSUME NEW inverted, NEW k \in Nat, DOMAIN inverted.lists = 1..k, NEW d, NEW minLength
  PROVE  \E m \in Nat : KeptTerms(inverted, d, minLength) \in [1..m -> Int]
<1> DEFINE U == {u \in DOMAIN inverted.lists : /\ d \in Range(inverted.lists[u].docs)
                                               /\ Len(inverted.lists[u].docs) >= minLength}
           K == {t - 1 : t \in U}
<1>1. U \subseteq 1..k
  OBVIOUS
<1>2. KeptTerms(inverted, d, minLength) = Ascending(K)
  BY DEF KeptTerms
<1> HIDE DEF U
<1>3. K \in SUBSET (0..(k - 1)) /\ K \subseteq Int
  BY <1>1
<1>4. IsFiniteSet(0..(k - 1))
  <2>1. 0 \in Int /\ k - 1 \in Int
    OBVIOUS
  <2> QED BY <2>1, FS_Interval
<1> HIDE DEF K
<1>5. IsFiniteSet(K)
  BY <1>3, <1>4, FS_Subset
<1>6. Cardinality(K) \in Nat /\ Ascending(K) \in [1..Cardinality(K) -> K]
  BY <1>3, <1>5, AscendingSorts
<1>7. Ascending(K) \in [1..Cardinality(K) -> Int]
  BY <1>3, <1>6
<1> QED BY <1>2, <1>6, <1>7

\* The compressed forward index gives the terms of each document back.
LEMMA ForwardHoldsTerms ==
  ASSUME NEW inverted, NEW k \in Nat, DOMAIN inverted.lists = 1..k,
         NEW n \in Nat, DOMAIN inverted.sizes = 1..n, NEW minLength
  PROVE  HoldsTerms(FromInvertedIndex(inverted, minLength, TRUE), inverted)
<1> DEFINE f == FromInvertedIndex(inverted, minLength, TRUE)
<1>1. /\ f.compressed = TRUE /\ f.minLength = minLength /\ DOMAIN f.entries = 1..n
      /\ \A i \in 1..n : f.entries[i] = GapsOf(KeptTerms(inverted, i - 1, minLength))
  BY DEF FromInvertedIndex, GapsOf
<1> HIDE DEF f
<1>2. ASSUME NEW d \in 1..n PROVE TermsOf(f, d - 1) = KeptTerms(inverted, d - 1, minLength)
  <2>1. PICK ids : ids = KeptTerms(inverted, d - 1, minLength)
    OBVIOUS
  <2>2. PICK m \in Nat : ids \in [1..m -> Int]
    BY <2>1, KeptAreTyped
  <2> DEFINE gaps == GapsOf(ids)
             sum == CHOOSE g : IsSums(g, gaps)
  <2>3. f.entries[(d - 1) + 1] = gaps
    <3>1. (d - 1) + 1 = d
      OBVIOUS
    <3> QED BY <3>1, <2>1, <1>1
  <2>4. DOMAIN gaps = 1..m
    BY <2>2 DEF GapsOf
  <2> HIDE DEF gaps
  <2>5. TermsOf(f, d - 1) = [i \in DOMAIN gaps |-> sum[i]]
    BY <2>3, <1>1 DEF TermsOf, IsSums
  <2>6. IsSums(sum, gaps)
    BY <2>2, SumsExist DEF gaps
  <2> HIDE DEF sum
  <2>7. \A i \in 1..m : sum[i] = ids[i]
    BY <2>2, <2>6, SumsOfGaps DEF gaps
  <2>8. [i \in 1..m |-> sum[i]] = ids
    BY <2>2, <2>7
  <2> QED BY <2>1, <2>4, <2>5, <2>8
<1> QED BY <1>1, <1>2 DEF HoldsTerms, f

-----------------------------------------------------------------------------
(* The inversion in the pipeline.                                          *)

\* While the index is inverted the files hold what has been processed; then the index is
\* the inversion, and a compressed forward index has its terms.
InversionInv ==
  /\ stage = "invert" => InvertInv
  /\ stage = "inverted" => SourceTyped /\ IsInversion(index)
  /\ stage = "stored" /\ fwd.compressed => HoldsTerms(fwd, index)

\* An inversion begins with nothing processed.
LEMMA StartInverts ==
  ASSUME NEW c, StartInversion(c), c.docs \in Seq(Seq(Nat)),
         \E k \in Nat : DOMAIN c.terms = 1..k
  PROVE  InvertInv'
<1>1. /\ source' = c /\ processed' = 0 /\ bodies' = <<>> /\ batches' = <<>>
  BY DEF StartInversion
<1>2. SourceTyped'
  BY <1>1 DEF SourceTyped
<1>3. AreCounted(batches', source'.terms, source'.docs, 0)
  BY <1>1, NoneCounted
<1>4. 0 <= Len(c.docs)
  BY LenProperties
<1> QED BY <1>1, <1>2, <1>3, <1>4 DEF InvertInv

\* The collection or a shard is inverted.
LEMMA InvertStepStarts ==
  ASSUME BuildInv, TermsInv, ShardsInv, InvertStep
  PROVE  InvertInv'
<1>1. CASE Parsed /\ StartInversion(output)
  <2>1. output.docs \in Seq(Seq(Nat)) /\ \E k \in Nat : DOMAIN output.terms = 1..k
    BY <1>1, DoneIsTyped DEF Parsed
  <2> QED BY <2>1, <1>1, StartInverts
<1>2. CASE /\ stage = "shard"
           /\ AllProcessed
           /\ \E s \in DOMAIN shards : shards[s].docs # <<>> /\ StartInversion(shards[s])
  <2>1. PICK s \in DOMAIN shards : StartInversion(shards[s])
    BY <1>2
  <2>2. shards[s] = Finished(output, Rearranged(output, shardOf, s - 1))
    BY <1>2 DEF AllProcessed, ShardsInv
  <2>3. pc = "done" /\ ~torn /\ shardOf \in [DOMAIN documents -> Nat]
    BY <1>2 DEF ShardsInv
  <2>4. output.docs \in Seq(Seq(Nat)) /\ Identified(output)
    BY <2>3, DoneIsTyped
  <2>5. DOMAIN shardOf = DOMAIN output.docs
    <3>1. ReadInv /\ IndexIsComplete
      BY <2>3, DoneIsComplete DEF BuildInv
    <3>2. DOMAIN output.docs = DOMAIN documents
      BY <3>1, CompleteIsIdentified
    <3> QED BY <3>2, <2>3
  <2>6. shards[s].docs \in Seq(Seq(Nat)) /\ \E k \in Nat : DOMAIN shards[s].terms = 1..k
    BY <2>2, <2>4, <2>5, FinishedIsTyped
  <2> QED BY <2>1, <2>6, StartInverts
<1> QED BY <1>1, <1>2 DEF InvertStep

\* The forward index is stored.
LEMMA StoreHoldsTerms ==
  ASSUME InversionInv, StoreForwardStep
  PROVE  fwd'.compressed => HoldsTerms(fwd, index)'
<1>1. /\ SourceTyped /\ IsInversion(index) /\ index' = index /\ StoreForwardIndex(index)
  BY DEF InversionInv, StoreForwardStep, inversionVars
<1>2. PICK compress \in BOOLEAN, minLength \in 0..2 :
        fwd' = FromInvertedIndex(index, minLength, compress)
  BY <1>1 DEF StoreForwardIndex
<1>3. PICK k \in Nat : DOMAIN index.lists = 1..k
  BY <1>1 DEF SourceTyped, IsInversion
<1>4. /\ DOMAIN index.sizes = 1..Len(source.docs) /\ Len(source.docs) \in Nat
  <2>1. index.sizes = [d \in DOMAIN source.docs |-> Len(source.docs[d])]
    BY <1>1 DEF IsInversion
  <2>2. DOMAIN source.docs = 1..Len(source.docs) /\ Len(source.docs) \in Nat
    BY <1>1, LenProperties DEF SourceTyped
  <2> QED BY <2>1, <2>2
<1>5. fwd'.compressed = compress
  BY <1>2 DEF FromInvertedIndex
<1>6. ASSUME compress PROVE HoldsTerms(fwd', index)
  <2>1. compress = TRUE
    BY <1>6
  <2>2. HoldsTerms(FromInvertedIndex(index, minLength, TRUE), index)
    BY <1>3, <1>4, ForwardHoldsTerms
  <2> QED BY <2>1, <2>2, <1>2
<1>7. HoldsTerms(fwd, index)' = HoldsTerms(fwd', index)
  BY <1>1 DEF HoldsTerms, TermsOf, KeptTerms
<1> QED BY <1>5, <1>6, <1>7

\* Every step of the pipeline keeps it.
LEMMA InversionNext ==
  BuildInv /\ TermsInv /\ ShardsInv /\ InversionInv /\ [PipelineNext]_pipelineVars
    => InversionInv'
<1> SUFFICES ASSUME BuildInv, TermsInv, ShardsInv, InversionInv, [PipelineNext]_pipelineVars
             PROVE  InversionInv'
  OBVIOUS
<1>1. CASE \/ ParseStep \/ PartitionStep \/ ShardStep \/ ReorderStep \/ KeepOrder
           \/ BisectionStep \/ BisectStep \/ CompressStep
  <2>1. stage' \in {"parse", "shard", "reordered", "bisect", "compressed", "failed"}
    BY <1>1 DEF ParseStep, PartitionStep, ShardStep, ReorderStep, KeepOrder, BisectionStep,
      BisectStep, CompressStep
  <2> QED BY <2>1 DEF InversionInv
<1>2. CASE InvertStep
  <2>1. stage' = "invert"
    BY <1>2 DEF InvertStep
  <2> QED BY <2>1, <1>2, InvertStepStarts DEF InversionInv
<1>3. CASE ReduceStep
  <2>1. InvertInv /\ stage' = "invert" /\ (NextBatch \/ Reduce \/ WriteInverted)
    BY <1>3 DEF ReduceStep, InversionInv
  <2>2. InvertInv'
    BY <2>1, NextBatchKeeps, ReduceKeeps, WriteKeeps
  <2> QED BY <2>1, <2>2 DEF InversionInv
<1>4. CASE MergeStep
  <2>1. InvertInv /\ MergeInverted /\ stage' = IF CannotMerge THEN "failed" ELSE "inverted"
    BY <1>4 DEF MergeStep, InversionInv
  <2>2. CASE CannotMerge
    BY <2>1, <2>2 DEF InversionInv
  <2>3. CASE ~CannotMerge
    BY <2>1, <2>3, MergeInverts DEF InversionInv
  <2> QED BY <2>2, <2>3
<1>5. CASE StoreForwardStep
  <2>1. stage' = "stored"
    BY <1>5 DEF StoreForwardStep
  <2> QED BY <2>1, <1>5, StoreHoldsTerms DEF InversionInv
<1>6. CASE UNCHANGED pipelineVars
  <2>1. UNCHANGED <<stage, fwd, source, processed, postings, bodies, batches, index>>
    BY <1>6 DEF pipelineVars, inversionVars, reorderingVars
  <2>2. InvertInv' = InvertInv /\ SourceTyped' = SourceTyped
    BY <2>1 DEF InvertInv, SourceTyped, BatchInv, InBatch
  <2>3. IsInversion(index)' = IsInversion(index) /\ HoldsTerms(fwd, index)' = HoldsTerms(fwd, index)
    BY <2>1 DEF IsInversion, HoldsTerms, TermsOf, KeptTerms
  <2> QED BY <2>1, <2>2, <2>3 DEF InversionInv
<1> QED BY <1>1, <1>2, <1>3, <1>4, <1>5, <1>6 DEF PipelineNext

\* For every collection, number of shards, size of a batch and number of threads: in
\* whatever order parallel_reduce splits the postings of a batch, reads and joins, the
\* index has for each term the documents it occurs in, in order, with how often; and
\* the compressed forward index that is made from it has the terms of each document.
THEOREM InversionIsRight == PipelineSpec => []InversionIsExact
<1>1. PipelineInit => Init /\ ShardsInv /\ InversionInv
  BY DEF PipelineInit, ShardsInv, InversionInv
<1>2. Init => TermsInv
  BY DEF Init, TermsInv
<1>3. InversionInv => InversionIsExact
  BY DEF InversionInv, InversionIsExact
<1> QED BY <1>1, <1>2, <1>3, BuildInvariantHolds, PipelineBuilds, PipelineStepBuilds, TermsNext,
    ShardsNext, InversionNext, PTL DEF PipelineSpec

-----------------------------------------------------------------------------
(* Arrangements of documents.                                              *)

\* The array has each of n documents once.
IsOrder(a, n) ==
  /\ a \in [1..n -> 0..(n - 1)]
  /\ \A i, j \in 1..n : i # j => a[i] # a[j]
  /\ \A d \in 0..(n - 1) : \E i \in 1..n : a[i] = d

\* Another arrangement at some of the places.
Permutes(b, a, n, P) ==
  /\ P \subseteq 1..n /\ b = [i \in 1..n |-> b[i]]
  /\ \A i \in (1..n) \ P : b[i] = a[i]
  /\ \A i \in P : \E j \in P : b[i] = a[j]
  /\ \A j \in P : \E i \in P : b[i] = a[j]
  /\ \A i, j \in P : i # j => b[i] # b[j]

\* It has each document once, too.
LEMMA StaysOrder ==
  ASSUME NEW n \in Nat, NEW a, IsOrder(a, n), NEW b, NEW P, Permutes(b, a, n, P)
  PROVE  IsOrder(b, n)
<1>1. /\ a \in [1..n -> 0..(n - 1)]
      /\ \A i, j \in 1..n : i # j => a[i] # a[j]
      /\ \A d \in 0..(n - 1) : \E i \in 1..n : a[i] = d
  BY DEF IsOrder
<1>2. /\ P \subseteq 1..n /\ b = [i \in 1..n |-> b[i]]
      /\ \A i \in (1..n) \ P : b[i] = a[i]
      /\ \A i \in P : \E j \in P : b[i] = a[j]
      /\ \A j \in P : \E i \in P : b[i] = a[j]
      /\ \A i, j \in P : i # j => b[i] # b[j]
  BY DEF Permutes
<1>3. \A i \in 1..n : b[i] \in 0..(n - 1)
  <2> TAKE i \in 1..n
  <2>1. CASE i \in P
    BY <1>1, <1>2, <2>1
  <2>2. CASE i \notin P
    BY <1>1, <1>2, <2>2
  <2> QED BY <2>1, <2>2
<1>4. \A i \in P, j \in (1..n) \ P : b[i] # b[j]
  <2> TAKE i \in P, j \in (1..n) \ P
  <2>1. PICK k \in P : b[i] = a[k]
    BY <1>2
  <2>2. k # j /\ k \in 1..n
    BY <1>2
  <2> QED BY <2>1, <2>2, <1>1, <1>2
<1>5. \A i, j \in 1..n : i # j => b[i] # b[j]
  <2> TAKE i, j \in 1..n
  <2>1. CASE i \in P /\ j \in P
    BY <1>2, <2>1
  <2>2. CASE i \notin P /\ j \notin P
    BY <1>1, <1>2, <2>2
  <2>3. CASE i \in P /\ j \notin P
    BY <1>4, <2>3
  <2>4. CASE i \notin P /\ j \in P
    BY <1>4, <2>4
  <2> QED BY <2>1, <2>2, <2>3, <2>4
<1>6. \A d \in 0..(n - 1) : \E i \in 1..n : b[i] = d
  <2> TAKE d \in 0..(n - 1)
  <2>1. PICK j \in 1..n : a[j] = d
    BY <1>1
  <2>2. CASE j \in P
    BY <1>2, <2>1, <2>2
  <2>3. CASE j \notin P
    BY <1>2, <2>1, <2>3
  <2> QED BY <2>2, <2>3
<1>7. b \in [1..n -> 0..(n - 1)]
  BY <1>2, <1>3
<1> QED BY <1>5, <1>6, <1>7 DEF IsOrder

\* The documents at some places are sorted.
LEMMA SortedIsOrder ==
  ASSUME NEW n \in Nat, NEW a, IsOrder(a, n), NEW P, P \subseteq 1..n
  PROVE  IsOrder(SortedAt(a, P), n)
<1> DEFINE V == {a[i] : i \in P}
           at == Ascending(P)
           sorted == Ascending(V)
           b == SortedAt(a, P)
<1>1. a \in [1..n -> 0..(n - 1)] /\ \A i, j \in 1..n : i # j => a[i] # a[j]
  BY DEF IsOrder
<1>2. IsFiniteSet(P) /\ P \subseteq Int
  <2>1. 1 \in Int /\ n \in Int /\ P \in SUBSET (1..n)
    OBVIOUS
  <2>2. IsFiniteSet(1..n)
    BY <2>1, FS_Interval
  <2>3. IsFiniteSet(P)
    BY <2>1, <2>2, FS_Subset
  <2>4. P \subseteq Int
    BY <2>1
  <2> QED BY <2>3, <2>4
<1>3. IsFiniteSet(V) /\ Cardinality(V) = Cardinality(P)
  <2> DEFINE f == [i \in P |-> a[i]]
  <2>1. f \in [P -> V] /\ \A i, j \in P : i # j => f[i] # f[j]
    BY <1>1
  <2>2. \A v \in V : \E i \in P : f[i] = v
    OBVIOUS
  <2> HIDE DEF f, V
  <2>3. f \in Surjection(P, V)
    BY <2>1, <2>2 DEF Surjection
  <2>4. f \in Injection(P, V)
    BY <2>1 DEF Injection, IsInjective
  <2>5. IsFiniteSet(P)
    BY <1>2
  <2> QED BY <2>3, <2>4, <2>5, FS_Surjection
<1>4. V \subseteq Int
  BY <1>1
<1> DEFINE m == Cardinality(P)
<1>5. /\ m \in Nat /\ at \in [1..m -> P] /\ Range(at) = P
      /\ \A i, j \in 1..m : i < j => at[i] < at[j]
  BY <1>2, AscendingSorts
<1>6. /\ sorted \in [1..m -> V] /\ Range(sorted) = V
      /\ \A i, j \in 1..m : i < j => sorted[i] < sorted[j]
  BY <1>3, <1>4, AscendingSorts
<1> DEFINE k(i) == CHOOSE l \in DOMAIN at : at[l] = i
<1>7. b = [i \in 1..n |-> IF i \in P THEN sorted[k(i)] ELSE a[i]]
  BY <1>1 DEF SortedAt
<1> HIDE DEF V, at, sorted, b, m
<1>8. \A i \in P : k(i) \in 1..m /\ at[k(i)] = i
  <2> TAKE i \in P
  <2>1. \E l \in DOMAIN at : at[l] = i
    BY <1>5 DEF Range
  <2> QED BY <2>1, <1>5
<1> HIDE DEF k
<1>9. \A i, j \in 1..m : i # j => sorted[i] # sorted[j]
  <2> TAKE i, j \in 1..m
  <2>0. sorted[i] \in Int /\ sorted[j] \in Int
    BY <1>6, <1>4
  <2>1. i # j => i < j \/ j < i
    BY <1>5
  <2> QED BY <2>0, <2>1, <1>6
<1>10. \A i, j \in 1..m : at[i] = at[j] => i = j
  <2> TAKE i, j \in 1..m
  <2>0. at[i] \in Int /\ at[j] \in Int
    BY <1>5, <1>2
  <2>1. i # j => i < j \/ j < i
    BY <1>5
  <2> QED BY <2>0, <2>1, <1>5
<1>11. \A i \in P : b[i] = sorted[k(i)]
  BY <1>7
<1>12. \A i \in P : \E j \in P : b[i] = a[j]
  <2> TAKE i \in P
  <2>1. b[i] \in V
    BY <1>6, <1>8, <1>11
  <2> QED BY <2>1 DEF V
<1>13. \A j \in P : \E i \in P : b[i] = a[j]
  <2> TAKE j \in P
  <2>1. a[j] \in Range(sorted)
    BY <1>6 DEF V
  <2>2. PICK l \in 1..m : sorted[l] = a[j]
    BY <2>1, <1>6 DEF Range
  <2>3. at[l] \in P
    BY <1>5
  <2>4. k(at[l]) = l
    BY <2>3, <1>8, <1>10
  <2> QED BY <2>2, <2>3, <2>4, <1>11
<1>14. \A i, j \in P : i # j => b[i] # b[j]
  <2> TAKE i, j \in P
  <2>1. i # j => k(i) # k(j)
    BY <1>8
  <2> QED BY <2>1, <1>8, <1>9, <1>11
<1>15. b = [i \in 1..n |-> b[i]] /\ \A i \in (1..n) \ P : b[i] = a[i]
  BY <1>7
<1>16. Permutes(b, a, n, P)
  BY <1>12, <1>13, <1>14, <1>15 DEF Permutes
<1> QED BY <1>16, StaysOrder DEF b

\* The documents at some places are put in any order.
LEMMA ShuffledIsOrder ==
  ASSUME NEW n \in Nat, NEW a, IsOrder(a, n), NEW P, P \subseteq 1..n,
         NEW b, b \in ShuffledAt(a, P)
  PROVE  IsOrder(b, n)
<1>1. a \in [1..n -> 0..(n - 1)] /\ \A i, j \in 1..n : i # j => a[i] # a[j]
  BY DEF IsOrder
<1>2. PICK p \in Bijection(P, P) : b = [i \in 1..n |-> IF i \in P THEN a[p[i]] ELSE a[i]]
  BY <1>1 DEF ShuffledAt
<1>3. /\ p \in [P -> P] /\ \A i, j \in P : p[i] = p[j] => i = j
      /\ \A j \in P : \E i \in P : p[i] = j
  BY DEF Bijection, Injection, Surjection, IsInjective
<1>4. \A i \in P : b[i] = a[p[i]] /\ p[i] \in P /\ p[i] \in 1..n
  BY <1>2, <1>3
<1>5. \A i, j \in P : i # j => b[i] # b[j]
  <2> TAKE i, j \in P
  <2>1. p[i] \in 1..n /\ p[j] \in 1..n /\ b[i] = a[p[i]] /\ b[j] = a[p[j]]
    BY <1>4
  <2>2. i # j => p[i] # p[j]
    BY <1>3
  <2>3. p[i] # p[j] => a[p[i]] # a[p[j]]
    BY <1>1, <2>1
  <2> QED BY <2>1, <2>2, <2>3
<1>6. \A i \in P : \E j \in P : b[i] = a[j]
  BY <1>4
<1>7. \A j \in P : \E i \in P : b[i] = a[j]
  BY <1>3, <1>4
<1>8. b = [i \in 1..n |-> b[i]] /\ \A i \in (1..n) \ P : b[i] = a[i]
  BY <1>2
<1>9. Permutes(b, a, n, P)
  BY <1>5, <1>6, <1>7, <1>8 DEF Permutes
<1> QED BY <1>9, StaysOrder

\* The first documents of two parts are exchanged.
LEMMA SwappedIsOrder ==
  ASSUME NEW n \in Nat, NEW a, IsOrder(a, n),
         NEW u \in Ranges(n), NEW v \in Ranges(n), Places(u) \cap Places(v) = {},
         NEW k \in Nat, k <= Length(u), k <= Length(v)
  PROVE  IsOrder(Swapped(a, u, v, k), n)
<1> DEFINE l == u[1]
           r == v[1]
           L == (l + 1)..(l + k)
           R == (r + 1)..(r + k)
           b == Swapped(a, u, v, k)
           there(i) == i - l + r
           back(i) == i - r + l
<1>1. a \in [1..n -> 0..(n - 1)] /\ \A i, j \in 1..n : i # j => a[i] # a[j]
  BY DEF IsOrder
<1>2. /\ l \in 0..n /\ u[2] \in 0..n /\ r \in 0..n /\ v[2] \in 0..n
      /\ l + k <= u[2] /\ r + k <= v[2]
  BY DEF Ranges, Length
<1>3. L \subseteq Places(u) /\ R \subseteq Places(v)
  BY <1>2 DEF Places
<1>4. L \subseteq 1..n /\ R \subseteq 1..n /\ L \cap R = {}
  BY <1>2, <1>3
<1>5. b = [i \in 1..n |-> IF i \in L THEN a[there(i)] ELSE IF i \in R THEN a[back(i)] ELSE a[i]]
  BY <1>1 DEF Swapped
<1>6. \A i \in L : there(i) \in R /\ back(there(i)) = i
  BY <1>2
<1>7. \A i \in R : back(i) \in L /\ there(back(i)) = i
  BY <1>2
<1> HIDE DEF L, R, l, r, there, back
<1>8. \A i \in L : b[i] = a[there(i)]
  BY <1>4, <1>5
<1>9. \A i \in R : b[i] = a[back(i)]
  <2> TAKE i \in R
  <2>1. i \in 1..n /\ i \notin L
    BY <1>4
  <2> QED BY <2>1, <1>5
<1>10. b = [i \in 1..n |-> b[i]] /\ \A i \in (1..n) \ (L \cup R) : b[i] = a[i]
  BY <1>5
<1> HIDE DEF b
<1> DEFINE from(i) == IF i \in L THEN there(i) ELSE back(i)
<1>11. \A i \in L \cup R : b[i] = a[from(i)] /\ from(i) \in L \cup R
  BY <1>6, <1>7, <1>8, <1>9
<1>12. \A i \in L \cup R : from(from(i)) = i
  BY <1>4, <1>6, <1>7
<1> HIDE DEF from
<1>13. \A i, j \in L \cup R : i # j => b[i] # b[j]
  <2> TAKE i, j \in L \cup R
  <2>1. /\ from(i) \in 1..n /\ from(j) \in 1..n /\ b[i] = a[from(i)] /\ b[j] = a[from(j)]
    BY <1>4, <1>11
  <2>2. i # j => from(i) # from(j)
    BY <1>12
  <2> QED BY <2>1, <2>2, <1>1
<1>14. \A j \in L \cup R : \E i \in L \cup R : b[i] = a[j]
  <2> TAKE j \in L \cup R
  <2>1. from(j) \in L \cup R /\ b[from(j)] = a[j]
    BY <1>11, <1>12
  <2> QED BY <2>1
<1>15. \A i \in L \cup R : \E j \in L \cup R : b[i] = a[j]
  BY <1>11
<1>16. L \cup R \subseteq 1..n
  BY <1>4
<1>17. Permutes(b, a, n, L \cup R)
  BY <1>10, <1>13, <1>14, <1>15, <1>16 DEF Permutes
<1> QED BY <1>17, StaysOrder DEF b

-----------------------------------------------------------------------------
(* Recursive graph bisection.                                              *)

\* The array has each of the n documents, and the nodes have ranges of it.
Bisects(n) ==
  /\ IsOrder(order, n)
  /\ nodes \subseteq NodesFor(n)
  /\ levels \in Seq(SUBSET NodesFor(n))

\* A range is split into two.
LEMMA NodesFit ==
  ASSUME NEW n \in Nat, NEW r \in Ranges(n), NEW depth \in Nat
  PROVE  NodeOf(r, depth) \in NodesFor(n)
<1> DEFINE middle == r[1] + Length(r) \div 2
           node == NodeOf(r, depth)
<1>1. r = <<r[1], r[2]>> /\ r[1] \in 0..n /\ r[2] \in 0..n /\ r[1] <= r[2]
  BY DEF Ranges
<1>2. middle \in 0..n /\ r[1] <= middle /\ middle <= r[2]
  BY <1>1 DEF Length
<1> HIDE DEF middle
<1>3. <<r[1], middle>> \in Ranges(n) /\ <<middle, r[2]>> \in Ranges(n)
  BY <1>1, <1>2 DEF Ranges
<1>4. Places(<<r[1], middle>>) \cap Places(<<middle, r[2]>>) = {}
  BY <1>1, <1>2 DEF Places
<1>5. node = [left |-> <<r[1], middle>>, right |-> <<middle, r[2]>>, depth |-> depth,
              iteration |-> 0, phase |-> "sort"]
  BY DEF NodeOf, middle
<1> QED BY <1>3, <1>4, <1>5 DEF NodesFor

\* The parts of a node.
LEMMA NodeUnfolds ==
  ASSUME NEW n \in Nat, NEW node \in NodesFor(n)
  PROVE  /\ node.left \in Ranges(n) /\ node.right \in Ranges(n)
         /\ Places(node.left) \subseteq 1..n /\ Places(node.right) \subseteq 1..n
         /\ Places(node.left) \cap Places(node.right) = {}
         /\ Length(node.left) \in Nat /\ Length(node.right) \in Nat
         /\ node.depth \in Nat /\ node.iteration \in Nat
         /\ [node EXCEPT !.phase = "iterate"] \in NodesFor(n)
         /\ [node EXCEPT !.iteration = @ + 1] \in NodesFor(n)
<1>1. /\ node \in [left : Ranges(n), right : Ranges(n), depth : Nat, iteration : Nat,
                   phase : {"sort", "iterate"}]
      /\ Places(node.left) \cap Places(node.right) = {}
  BY DEF NodesFor
<1>2. \A r \in Ranges(n) : Places(r) \subseteq 1..n /\ Length(r) \in Nat
  BY DEF Ranges, Places, Length
<1>3. [node EXCEPT !.phase = "iterate"] \in NodesFor(n)
  BY <1>1 DEF NodesFor
<1>4. [node EXCEPT !.iteration = @ + 1] \in NodesFor(n)
  BY <1>1 DEF NodesFor
<1> QED BY <1>1, <1>2, <1>3, <1>4

\* The least of two numbers is none greater than one of them.
LEMMA MinOfTwo ==
  ASSUME NEW a \in Nat, NEW b \in Nat
  PROVE  Min({a, b}) \in Nat /\ Min({a, b}) <= a /\ Min({a, b}) <= b
<1>1. Min({a, b}) = CHOOSE x \in {a, b} : \A y \in {a, b} : x <= y
  BY DEF Min
<1>2. \E x \in {a, b} : \A y \in {a, b} : x <= y
  <2>1. a <= b \/ b <= a
    OBVIOUS
  <2> QED BY <2>1
<1>3. Min({a, b}) \in {a, b} /\ \A y \in {a, b} : Min({a, b}) <= y
  BY <1>1, <1>2
<1> QED BY <1>3

\* A node is sorted, iterates or ends.
LEMMA NodeKeeps ==
  ASSUME NEW n \in Nat, Bisects(n), NEW node \in nodes,
         SortNode(node) \/ Iterate(node) \/ EndNode(node)
  PROVE  Bisects(n)'
<1> DEFINE l == Places(node.left)
           r == Places(node.right)
<1>1. IsOrder(order, n) /\ nodes \subseteq NodesFor(n) /\ levels \in Seq(SUBSET NodesFor(n))
  BY DEF Bisects
<1>2. node \in NodesFor(n)
  BY <1>1
<1>3. /\ node.left \in Ranges(n) /\ node.right \in Ranges(n)
      /\ l \subseteq 1..n /\ r \subseteq 1..n /\ l \cap r = {}
      /\ Length(node.left) \in Nat /\ Length(node.right) \in Nat
      /\ node.depth \in Nat
  BY <1>2, NodeUnfolds
<1>4. /\ [node EXCEPT !.phase = "iterate"] \in NodesFor(n)
      /\ [node EXCEPT !.iteration = @ + 1] \in NodesFor(n)
  BY <1>2, NodeUnfolds
<1>5. levels' = levels
  BY DEF SortNode, Iterate, EndNode
<1>6. nodes' \subseteq NodesFor(n)
  <2>1. CASE SortNode(node)
    BY <2>1, <1>1, <1>4 DEF SortNode
  <2>2. CASE Iterate(node)
    BY <2>2, <1>1, <1>4 DEF Iterate
  <2>3. CASE EndNode(node)
    <3>1. CASE Recurses(node)
      <4>1. node.depth - 1 \in Nat
        BY <3>1, <1>3 DEF Recurses
      <4>2. /\ NodeOf(node.left, node.depth - 1) \in NodesFor(n)
            /\ NodeOf(node.right, node.depth - 1) \in NodesFor(n)
        BY <4>1, <1>3, NodesFit
      <4> QED BY <4>2, <2>3, <3>1, <1>1 DEF EndNode
    <3>2. CASE ~Recurses(node)
      BY <2>3, <3>2, <1>1 DEF EndNode
    <3> QED BY <3>1, <3>2
  <2> QED BY <2>1, <2>2, <2>3
<1>7. IsOrder(SortedAt(SortedAt(order, l), r), n)
  <2>1. IsOrder(SortedAt(order, l), n)
    BY <1>1, <1>3, SortedIsOrder
  <2> QED BY <2>1, <1>3, SortedIsOrder
<1>8. IsOrder(order', n)
  <2>1. CASE SortNode(node)
    <3>1. l \cup r \subseteq 1..n
      BY <1>3
    <3>2. IsOrder(SortedAt(order, l \cup r), n)
      BY <3>1, <1>1, SortedIsOrder
    <3> QED BY <2>1, <3>2, <1>7 DEF SortNode
  <2>2. CASE Iterate(node)
    <3>1. PICK a \in ShuffledAt(order, l) :
            \E b \in ShuffledAt(a, r), k \in 0..Min({Length(node.left), Length(node.right)}) :
               order' = Swapped(b, node.left, node.right, k)
      BY <2>2 DEF Iterate
    <3>2. IsOrder(a, n)
      BY <1>1, <1>3, ShuffledIsOrder
    <3>3. PICK b \in ShuffledAt(a, r), k \in 0..Min({Length(node.left), Length(node.right)}) :
            order' = Swapped(b, node.left, node.right, k)
      BY <3>1
    <3>4. IsOrder(b, n)
      BY <3>2, <1>3, ShuffledIsOrder
    <3>5. k \in Nat /\ k <= Length(node.left) /\ k <= Length(node.right)
      BY <1>3, MinOfTwo
    <3> QED BY <3>3, <3>4, <3>5, <1>3, SwappedIsOrder
  <2>3. CASE EndNode(node)
    BY <2>3, <1>1, <1>7 DEF EndNode
  <2> QED BY <2>1, <2>2, <2>3
<1> QED BY <1>1, <1>5, <1>6, <1>8 DEF Bisects

\* However the nodes run, the array has each document once.
LEMMA BisectKeeps ==
  ASSUME NEW n \in Nat, Bisects(n), Bisect
  PROVE  Bisects(n)'
<1>1. CASE \E node \in nodes : SortNode(node) \/ Iterate(node) \/ EndNode(node)
  BY <1>1, NodeKeeps
<1>2. CASE NextLevel
  <2>1. /\ levels # <<>> /\ nodes' = Head(levels) /\ levels' = Tail(levels) /\ order' = order
    BY <1>2 DEF NextLevel
  <2>2. IsOrder(order, n) /\ levels \in Seq(SUBSET NodesFor(n))
    BY DEF Bisects
  <2>3. Head(levels) \in SUBSET NodesFor(n) /\ Tail(levels) \in Seq(SUBSET NodesFor(n))
    BY <2>1, <2>2, HeadTailProperties
  <2> QED BY <2>1, <2>2, <2>3 DEF Bisects
<1> QED BY <1>1, <1>2 DEF Bisect

\* The documents in their own order.
LEMMA OwnOrder ==
  ASSUME NEW n \in Nat
  PROVE  IsOrder([i \in 1..n |-> i - 1], n)
<1> DEFINE a == [i \in 1..n |-> i - 1]
<1>1. a \in [1..n -> 0..(n - 1)] /\ \A i, j \in 1..n : i # j => a[i] # a[j]
  OBVIOUS
<1>2. \A d \in 0..(n - 1) : d + 1 \in 1..n /\ a[d + 1] = d
  OBVIOUS
<1> QED BY <1>1, <1>2 DEF IsOrder

\* A bisection begins, with a tree or with configured nodes.
LEMMA StartBisects ==
  ASSUME NEW inverted, NEW n \in Nat, DOMAIN inverted.sizes = 1..n, Len(inverted.sizes) = n,
         NEW config, config \in Seq(SUBSET NodesFor(n)),
         StartBisection(inverted) \/ (config # <<>> /\ StartConfigured(inverted, config))
  PROVE  Bisects(n)'
<1>1. order' = [i \in 1..n |-> i - 1]
  BY DEF StartBisection, StartConfigured
<1>2. IsOrder(order', n)
  BY <1>1, OwnOrder
<1>3. CASE StartBisection(inverted)
  <2>1. PICK depth \in Depths : nodes' = {NodeOf(<<0, n>>, depth)}
    BY <1>3 DEF StartBisection
  <2>2. depth \in Nat
    BY IterationsAssumption
  <2>3. <<0, n>> \in Ranges(n)
    BY DEF Ranges
  <2>4. nodes' \subseteq NodesFor(n)
    BY <2>1, <2>2, <2>3, NodesFit
  <2>5. levels' \in Seq(SUBSET NodesFor(n))
    BY <1>3 DEF StartBisection
  <2> QED BY <1>2, <2>4, <2>5 DEF Bisects
<1>4. CASE config # <<>> /\ StartConfigured(inverted, config)
  <2>1. nodes' = config[1] /\ levels' = Tail(config)
    BY <1>4 DEF StartConfigured
  <2>2. config[1] \in SUBSET NodesFor(n) /\ Tail(config) \in Seq(SUBSET NodesFor(n))
    BY <1>4, HeadTailProperties, EmptySeq
  <2> QED BY <1>2, <2>1, <2>2 DEF Bisects
<1> QED BY <1>3, <1>4

-----------------------------------------------------------------------------
(* Mappings from old to new identifiers.                                   *)

\* A numbering of n documents.
IsNumbering(r, n) ==
  /\ r \in [1..n -> 1..n]
  /\ \A i, j \in 1..n : i # j => r[i] # r[j]
  /\ \A k \in 1..n : \E i \in 1..n : r[i] = k

\* Its inverse, counted from 0.
IsInverse(m, r, n) == m = [k \in 1..n |-> (CHOOSE i \in 1..n : r[i] = k) - 1]

\* It has each document once.
LEMMA InverseIsOrder ==
  ASSUME NEW n \in Nat, NEW r, IsNumbering(r, n), NEW m, IsInverse(m, r, n)
  PROVE  IsOrder(m, n)
<1> DEFINE at == [k \in 1..n |-> CHOOSE i \in 1..n : r[i] = k]
<1>1. m = [k \in 1..n |-> at[k] - 1]
  BY DEF IsInverse
<1>2. \A k \in 1..n : at[k] \in 1..n /\ r[at[k]] = k
  BY DEF IsNumbering
<1>3. \A i \in 1..n : r[i] \in 1..n
  BY DEF IsNumbering
<1> HIDE DEF at
<1>4. \A i \in 1..n : at[r[i]] = i
  <2> TAKE i \in 1..n
  <2>1. r[i] \in 1..n /\ at[r[i]] \in 1..n /\ r[at[r[i]]] = r[i]
    BY <1>2, <1>3
  <2> QED BY <2>1 DEF IsNumbering
<1>5. m \in [1..n -> 0..(n - 1)]
  <2>1. \A k \in 1..n : at[k] - 1 \in 0..(n - 1)
    <3> TAKE k \in 1..n
    <3>1. at[k] \in 1..n
      BY <1>2
    <3> QED BY <3>1
  <2> QED BY <2>1, <1>1
<1>6. \A k, l \in 1..n : k # l => m[k] # m[l]
  <2> TAKE k, l \in 1..n
  <2>1. at[k] \in 1..n /\ at[l] \in 1..n /\ (k # l => at[k] # at[l])
    BY <1>2
  <2>2. m[k] = at[k] - 1 /\ m[l] = at[l] - 1
    BY <1>1
  <2> QED BY <2>1, <2>2
<1>7. \A d \in 0..(n - 1) : \E k \in 1..n : m[k] = d
  <2> TAKE d \in 0..(n - 1)
  <2>1. d + 1 \in 1..n
    OBVIOUS
  <2>2. r[d + 1] \in 1..n /\ at[r[d + 1]] = d + 1
    BY <2>1, <1>3, <1>4
  <2>3. m[r[d + 1]] = d
    BY <2>2, <1>1
  <2> QED BY <2>2, <2>3
<1> QED BY <1>5, <1>6, <1>7 DEF IsOrder

\* get_mapping
LEMMA GotMapping ==
  ASSUME NEW n \in Nat, NEW a, IsOrder(a, n)
  PROVE  IsOrder(GetMapping(a), n)
<1> DEFINE r == [p \in 1..n |-> a[p] + 1]
<1>1. /\ a \in [1..n -> 0..(n - 1)] /\ \A i, j \in 1..n : i # j => a[i] # a[j]
      /\ \A d \in 0..(n - 1) : \E i \in 1..n : a[i] = d
  BY DEF IsOrder
<1>2. \A p \in 1..n : a[p] \in Int
  BY <1>1
<1>3. r \in [1..n -> 1..n] /\ \A i, j \in 1..n : i # j => r[i] # r[j]
  BY SMTT(30), ZenonT(60), <1>1
<1>4. \A k \in 1..n : \E i \in 1..n : r[i] = k
  <2> TAKE k \in 1..n
  <2>1. k - 1 \in 0..(n - 1)
    OBVIOUS
  <2>2. PICK i \in 1..n : a[i] = k - 1
    BY <2>1, <1>1
  <2> QED BY <2>2
<1>5. \A k \in 1..n : (CHOOSE p \in 1..n : a[p] = k - 1) = (CHOOSE p \in 1..n : r[p] = k)
  <2> TAKE k \in 1..n
  <2>1. \A p \in 1..n : a[p] = k - 1 <=> r[p] = k
    BY <1>2
  <2> QED BY <2>1
<1> HIDE DEF r
<1>6. IsInverse(GetMapping(a), r, n)
  <2>1. GetMapping(a) = [k \in 1..n |-> (CHOOSE p \in 1..n : a[p] = k - 1) - 1]
    <3>1. DOMAIN a = 1..n
      BY <1>1
    <3> QED BY <3>1 DEF GetMapping
  <2>2. IsInverse(GetMapping(a), r, n) <=>
          GetMapping(a) = [k \in 1..n |-> (CHOOSE p \in 1..n : r[p] = k) - 1]
    BY DEF IsInverse
  <2> QED BY <2>1, <2>2, <1>5
<1> QED BY <1>3, <1>4, <1>6, InverseIsOrder DEF IsNumbering

\* Any permutation.
LEMMA MappingIsOrder ==
  ASSUME NEW n \in Nat, NEW inverted, DOMAIN inverted.sizes = 1..n,
         NEW m, m \in Mappings(inverted)
  PROVE  IsOrder(m, n)
<1>1. PICK p \in Bijection(1..n, 1..n) : m = [i \in DOMAIN p |-> p[i] - 1]
  BY DEF Mappings
<1>2. /\ p \in [1..n -> 1..n] /\ \A i, j \in 1..n : p[i] = p[j] => i = j
      /\ \A k \in 1..n : \E i \in 1..n : p[i] = k
  BY DEF Bijection, Injection, Surjection, IsInjective
<1>3. \A i \in 1..n : m[i] = p[i] - 1 /\ p[i] \in 1..n
  BY <1>1, <1>2
<1>4. m \in [1..n -> 0..(n - 1)]
  <2>1. m = [i \in 1..n |-> m[i]]
    BY <1>1, <1>2
  <2>2. \A i \in 1..n : m[i] \in 0..(n - 1)
    BY <1>3
  <2> QED BY <2>1, <2>2
<1>5. \A i, j \in 1..n : i # j => m[i] # m[j]
  BY SMTT(30), ZenonT(60), <1>2, <1>3
<1>6. \A d \in 0..(n - 1) : \E i \in 1..n : m[i] = d
  <2> TAKE d \in 0..(n - 1)
  <2>1. d + 1 \in 1..n
    OBVIOUS
  <2>2. PICK i \in 1..n : p[i] = d + 1
    BY <2>1, <1>2
  <2> QED BY <2>2, <1>3
<1> QED BY <1>4, <1>5, <1>6 DEF IsOrder

\* Lines in their order, or from the last to the first, give the same mapping.
LEMMA LinesGiveMapping ==
  ASSUME NEW n \in Nat, NEW m, IsOrder(m, n)
  PROVE  LET lines == [l \in DOMAIN m |-> <<l - 1, m[l]>>]
         IN  FromLines(lines) = m /\ FromLines(Reverse(lines)) = m
<1> DEFINE lines == [l \in DOMAIN m |-> <<l - 1, m[l]>>]
           back == Reverse(lines)
<1>1. m = [i \in 1..n |-> m[i]] /\ DOMAIN m = 1..n
  BY DEF IsOrder
<1>2. DOMAIN lines = 1..n /\ \A l \in 1..n : lines[l] = <<l - 1, m[l]>>
  BY <1>1
<1>3. Len(lines) = n
  BY <1>1
<1> HIDE DEF lines
<1>4. back = [i \in 1..n |-> lines[(n - i) + 1]]
  BY <1>3 DEF Reverse
<1>5. DOMAIN back = 1..n /\ \A l \in 1..n : back[l] = <<n - l, m[n - l + 1]>>
  <2>1. \A l \in 1..n : n - l + 1 \in 1..n /\ (n - l + 1) - 1 = n - l
    OBVIOUS
  <2> QED BY <2>1, <1>2, <1>4
<1>6. \A l, k \in 1..n : l + k = n + 1 => back[l][2] = m[k]
  <2> TAKE l, k \in 1..n
  <2>1. l + k = n + 1 => n - l + 1 = k
    OBVIOUS
  <2> QED BY <2>1, <1>5
<1> HIDE DEF back
<1>7. FromLines(lines) = m
  <2>1. \A i \in 1..n : lines[CHOOSE l \in 1..n : lines[l][1] = i - 1][2] = m[i]
    <3> TAKE i \in 1..n
    <3>1. \A l \in 1..n : lines[l][1] = i - 1 <=> l = i
      BY <1>2
    <3>2. (CHOOSE l \in 1..n : lines[l][1] = i - 1) = i
      BY <3>1
    <3>3. lines[i] = <<i - 1, m[i]>>
      BY <1>2
    <3>4. lines[i][2] = m[i]
      BY <3>3
    <3> QED BY <3>2, <3>4
  <2>2. FromLines(lines) = [i \in 1..n |-> lines[CHOOSE l \in 1..n : lines[l][1] = i - 1][2]]
    BY <1>2 DEF FromLines
  <2> QED BY <2>1, <2>2, <1>1
<1>8. FromLines(back) = m
  <2>1. \A i \in 1..n : back[CHOOSE l \in 1..n : back[l][1] = i - 1][2] = m[i]
    <3> TAKE i \in 1..n
    <3>1. \A l \in 1..n : back[l][1] = i - 1 <=> l = n - i + 1
      BY <1>5
    <3>2. n - i + 1 \in 1..n /\ n - (n - i + 1) + 1 = i
      OBVIOUS
    <3>3. (CHOOSE l \in 1..n : back[l][1] = i - 1) = n - i + 1
      BY <3>1, <3>2
    <3>4. back[n - i + 1][2] = m[i]
      BY <3>2, <1>6
    <3> QED BY <3>3, <3>4
  <2>2. FromLines(back) = [i \in 1..n |-> back[CHOOSE l \in 1..n : back[l][1] = i - 1][2]]
    BY <1>5 DEF FromLines
  <2> QED BY <2>1, <2>2, <1>1
<1> QED BY <1>7, <1>8 DEF lines, back

\* The places of the features in their order.
LEMMA FeaturesGiveMapping ==
  ASSUME NEW n \in Nat, NEW features, features \in [1..n -> Features]
  PROVE  IsOrder(SortedByFeature(features), n)
<1> DEFINE before(e, d) == features[e] < features[d] \/ (features[e] = features[d] /\ e < d)
           Before == {p \in (1..n) \X (1..n) : before(p[1], p[2])}
           place(d) == Cardinality({e \in 1..n : before(e, d)}) + 1
           r == [d \in 1..n |-> RankOf(d, n, Before)]
<1>1. \A d \in 1..n : features[d] \in Int
  BY IterationsAssumption
<1>2. \A e, d \in 1..n : <<e, d>> \in Before <=> before(e, d)
  OBVIOUS
<1>3. /\ \A i \in 1..n : RankOf(i, n, Before) \in 1..n
      /\ \A i, j \in 1..n : <<i, j>> \in Before => RankOf(i, n, Before) < RankOf(j, n, Before)
      /\ \A k \in 1..n : \E i \in 1..n : RankOf(i, n, Before) = k
      /\ \A i, j \in 1..n : i # j => <<i, j>> \in Before \/ <<j, i>> \in Before
  <2> HIDE DEF Before
  <2>1. \A i \in 1..n : <<i, i>> \notin Before
    BY <1>1, <1>2
  <2>2. \A i, j, k \in 1..n : <<i, j>> \in Before /\ <<j, k>> \in Before => <<i, k>> \in Before
    BY <1>1, <1>2
  <2>3. \A i, j \in 1..n : i # j => <<i, j>> \in Before \/ <<j, i>> \in Before
    BY <1>1, <1>2
  <2> QED BY <2>1, <2>2, <2>3, PlacesAreRanked
<1>4. \A d \in 1..n : place(d) = RankOf(d, n, Before)
  <2> TAKE d \in 1..n
  <2>1. {e \in 1..n : before(e, d)} = {e \in 1..n : <<e, d>> \in Before}
    BY <1>2
  <2> QED BY <2>1 DEF RankOf
<1>5. SortedByFeature(features) = [k \in 1..n |-> (CHOOSE d \in 1..n : place(d) = k) - 1]
  BY DEF SortedByFeature
<1> HIDE DEF place, Before
<1>6. \A k \in 1..n : (CHOOSE d \in 1..n : place(d) = k) = (CHOOSE d \in 1..n : r[d] = k)
  <2> TAKE k \in 1..n
  <2>1. \A d \in 1..n : place(d) = k <=> r[d] = k
    BY <1>4
  <2> QED BY <2>1
<1>7. r \in [1..n -> 1..n] /\ \A k \in 1..n : \E i \in 1..n : r[i] = k
  BY <1>3
<1>8. \A i, j \in 1..n : i # j => r[i] # r[j]
  <2> TAKE i, j \in 1..n
  <2>1. r[i] \in 1..n /\ r[j] \in 1..n /\ r[i] = RankOf(i, n, Before) /\ r[j] = RankOf(j, n, Before)
    BY <1>3
  <2>2. <<i, j>> \in Before => r[i] < r[j]
    BY <2>1, <1>3
  <2>3. <<j, i>> \in Before => r[j] < r[i]
    BY <2>1, <1>3
  <2>4. i # j => <<i, j>> \in Before \/ <<j, i>> \in Before
    BY <1>3
  <2>5. r[i] \in Int /\ r[j] \in Int
    BY <2>1
  <2> HIDE DEF r
  <2> QED BY <2>2, <2>3, <2>4, <2>5
<1> HIDE DEF r
<1>9. IsInverse(SortedByFeature(features), r, n)
  BY <1>5, <1>6 DEF IsInverse
<1> QED BY <1>7, <1>8, <1>9, InverseIsOrder DEF IsNumbering

-----------------------------------------------------------------------------
(* What is rewritten with a mapping.                                       *)

\* What stood at d is where the mapping puts it.
IsMoved(new, seq, m, n) ==
  /\ new = [i \in 1..n |-> new[i]]
  /\ \A d \in 1..n : m[d] + 1 \in 1..n /\ new[m[d] + 1] = seq[d]
  /\ \A i \in 1..n : \E d \in 1..n : m[d] + 1 = i

\* Titles and sizes are moved in this way.
LEMMA MovedUnfolds ==
  ASSUME NEW n \in Nat, NEW m, IsOrder(m, n), NEW seq, DOMAIN seq = 1..n
  PROVE  IsMoved(Moved(seq, m), seq, m, n)
<1>1. /\ m \in [1..n -> 0..(n - 1)] /\ \A i, j \in 1..n : i # j => m[i] # m[j]
      /\ \A d \in 0..(n - 1) : \E i \in 1..n : m[i] = d
  BY DEF IsOrder
<1>2. Moved(seq, m) = [i \in 1..n |-> seq[CHOOSE d \in 1..n : m[d] = i - 1]]
  BY DEF Moved
<1>3. \A d \in 1..n : m[d] \in 0..(n - 1) /\ m[d] + 1 \in 1..n /\ (m[d] + 1) - 1 = m[d]
  BY <1>1
<1>4. \A d \in 1..n : Moved(seq, m)[m[d] + 1] = seq[d]
  <2> TAKE d \in 1..n
  <2>1. (CHOOSE e \in 1..n : m[e] = m[d]) = d
    BY <1>1
  <2>2. Moved(seq, m)[m[d] + 1] = seq[CHOOSE e \in 1..n : m[e] = (m[d] + 1) - 1]
    BY <1>2, <1>3
  <2>3. (m[d] + 1) - 1 = m[d]
    BY <1>3
  <2> QED BY <2>1, <2>2, <2>3
<1>5. \A i \in 1..n : \E d \in 1..n : m[d] + 1 = i
  <2> TAKE i \in 1..n
  <2>1. i - 1 \in 0..(n - 1)
    OBVIOUS
  <2>2. PICK d \in 1..n : m[d] = i - 1
    BY <2>1, <1>1
  <2> QED BY <2>2
<1>6. Moved(seq, m) = [i \in 1..n |-> Moved(seq, m)[i]]
  BY <1>2
<1> QED BY <1>3, <1>4, <1>5, <1>6 DEF IsMoved

\* The counts of n documents are moved to their new identifiers.
MovesCounts(c2, c, m, n) ==
  /\ \A d \in 1..n : c2[m[d]] = c[d - 1]
  /\ \A d \in Nat \ (0..(n - 1)) : c[d] = 0 /\ c2[d] = 0

\* The list of a term under new identifiers is the list of its new counts.
LEMMA ReorderedTallies ==
  ASSUME NEW n \in Nat, NEW m, IsOrder(m, n), NEW list, NEW c,
         Tallies(list.docs, list.freqs, c), NEW c2, MovesCounts(c2, c, m, n)
  PROVE  Tallies(ReorderPostings(list, m).docs, ReorderPostings(list, m).freqs, c2)
<1> DEFINE s == list.docs
           f == list.freqs
           k == Len(s)
           new == [i \in 1..k |-> m[s[i] + 1]]
           V == {new[i] : i \in 1..k}
           docs == Ascending(V)
           place == [j \in 1..k |-> CHOOSE i \in 1..k : new[i] = docs[j]]
           freqs == [j \in 1..k |-> f[place[j]]]
<1>1. /\ k \in Nat /\ DOMAIN s = 1..k /\ DOMAIN f = 1..k
      /\ \A i \in 1..k : s[i] \in Nat /\ f[i] \in Nat
      /\ \A i, j \in 1..k : i < j => s[i] < s[j]
      /\ \A i \in 1..k : f[i] = c[s[i]] /\ c[s[i]] > 0
      /\ \A d \in Nat : c[d] > 0 => \E i \in 1..k : s[i] = d
  BY TalliesUnfold
<1>2. /\ m \in [1..n -> 0..(n - 1)] /\ \A i, j \in 1..n : i # j => m[i] # m[j]
      /\ \A d \in 0..(n - 1) : \E i \in 1..n : m[i] = d
  BY DEF IsOrder
<1>3. /\ ReorderPostings(list, m).docs = Ascending({m[s[i] + 1] : i \in 1..k})
      /\ ReorderPostings(list, m).freqs =
           [j \in DOMAIN Ascending({m[s[i] + 1] : i \in 1..k}) |->
              f[CHOOSE i \in 1..k : m[s[i] + 1] = Ascending({m[s[e] + 1] : e \in 1..k})[j]]]
  BY <1>1 DEF ReorderPostings
<1>4. V = {m[s[i] + 1] : i \in 1..k}
  OBVIOUS
<1>5. \A i \in 1..k : new[i] = m[s[i] + 1]
  OBVIOUS
<1> HIDE DEF s, f, k, new
<1>6. \A i \in 1..k : s[i] \in 0..(n - 1) /\ s[i] + 1 \in 1..n
  <2> TAKE i \in 1..k
  <2>1. s[i] \in Nat /\ c[s[i]] > 0
    BY <1>1
  <2>2. s[i] \in 0..(n - 1)
    BY <2>1 DEF MovesCounts
  <2> QED BY <2>2
<1>7. \A i \in 1..k : new[i] \in 0..(n - 1) /\ c2[new[i]] = c[s[i]]
  <2> TAKE i \in 1..k
  <2>1. s[i] + 1 \in 1..n /\ (s[i] + 1) - 1 = s[i] /\ new[i] = m[s[i] + 1]
    BY <1>5, <1>6
  <2>2. c2[m[s[i] + 1]] = c[(s[i] + 1) - 1]
    BY <2>1 DEF MovesCounts
  <2> QED BY <2>1, <2>2, <1>2
<1>8. \A i, j \in 1..k : i # j => new[i] # new[j]
  <2> TAKE i, j \in 1..k
  <2>1. s[i] \in Nat /\ s[j] \in Nat /\ s[i] + 1 \in 1..n /\ s[j] + 1 \in 1..n
    BY <1>1, <1>6
  <2>2. i # j => i < j \/ j < i
    BY <1>1
  <2>3. i # j => s[i] # s[j]
    BY <2>1, <2>2, <1>1
  <2>4. i # j => s[i] + 1 # s[j] + 1
    BY <2>1, <2>3
  <2>5. i # j => m[s[i] + 1] # m[s[j] + 1]
    <3> DEFINE a == s[i] + 1
               b == s[j] + 1
    <3>1. a \in 1..n /\ b \in 1..n /\ (i # j => a # b)
      BY <2>1, <2>4
    <3> HIDE DEF a, b
    <3>2. i # j => m[a] # m[b]
      BY <3>1, <1>2
    <3> QED BY <3>2 DEF a, b
  <2>6. new[i] = m[s[i] + 1] /\ new[j] = m[s[j] + 1]
    BY <1>5
  <2> QED BY <2>5, <2>6
<1>9. new \in [1..k -> V]
  BY DEF new
<1>10. IsFiniteSet(V) /\ Cardinality(V) = k
  <2>1. Numbers(new, k, V)
    BY <1>8, <1>9 DEF Numbers
  <2> QED BY <2>1, <1>1, NumberedSet
<1>11. V \subseteq 0..(n - 1) /\ V \subseteq Int /\ V \subseteq Nat
  BY <1>7
<1>12. /\ docs \in [1..k -> V] /\ Range(docs) = V
       /\ \A i, j \in 1..k : i < j => docs[i] < docs[j]
  BY <1>10, <1>11, AscendingSorts
<1>13. ReorderPostings(list, m).docs = docs
  BY <1>3, <1>4
<1>14. ReorderPostings(list, m).freqs = freqs
  <2> DEFINE at(j) == CHOOSE i \in 1..k : m[s[i] + 1] = docs[j]
  <2>1. DOMAIN docs = 1..k
    BY <1>12
  <2>2. \A j \in 1..k : at(j) = place[j]
    <3> TAKE j \in 1..k
    <3>1. \A i \in 1..k : m[s[i] + 1] = docs[j] <=> new[i] = docs[j]
      BY <1>5
    <3>2. place[j] = CHOOSE i \in 1..k : new[i] = docs[j]
      OBVIOUS
    <3> HIDE DEF place, docs, V
    <3> QED BY <3>1, <3>2
  <2> HIDE DEF docs, V
  <2>3. ReorderPostings(list, m).freqs = [j \in 1..k |-> f[at(j)]]
    BY <2>1, <1>3, <1>4 DEF docs
  <2> HIDE DEF place, at
  <2> QED BY <2>2, <2>3
<1> HIDE DEF docs
<1>15. \A j \in 1..k : place[j] \in 1..k /\ new[place[j]] = docs[j]
  <2> TAKE j \in 1..k
  <2>1. docs[j] \in V
    BY <1>12
  <2>2. \E i \in 1..k : new[i] = docs[j]
    BY <2>1
  <2> QED BY <2>2
<1> HIDE DEF place, V
<1>16. \A j \in 1..k : freqs[j] = c2[docs[j]] /\ c2[docs[j]] > 0 /\ freqs[j] \in Nat
  <2> TAKE j \in 1..k
  <2>1. place[j] \in 1..k /\ new[place[j]] = docs[j]
    BY <1>15
  <2>2. f[place[j]] = c[s[place[j]]] /\ c[s[place[j]]] > 0 /\ f[place[j]] \in Nat
    BY <2>1, <1>1
  <2>3. c2[docs[j]] = c[s[place[j]]]
    BY <2>1, <1>7
  <2> QED BY <2>2, <2>3
<1> HIDE DEF freqs
<1>17. \A d \in Nat : c2[d] > 0 => \E j \in 1..k : docs[j] = d
  <2> SUFFICES ASSUME NEW d \in Nat, c2[d] > 0 PROVE \E j \in 1..k : docs[j] = d
    OBVIOUS
  <2>1. d \in 0..(n - 1)
    BY DEF MovesCounts
  <2>2. PICK e \in 1..n : m[e] = d
    BY <2>1, <1>2
  <2>3. e - 1 \in Nat /\ (e - 1) + 1 = e /\ c[e - 1] > 0
    BY <2>2 DEF MovesCounts
  <2>4. PICK i \in 1..k : s[i] = e - 1
    BY <2>3, <1>1
  <2>5. new[i] = d
    BY <2>2, <2>3, <2>4, <1>5
  <2>6. d \in Range(docs)
    BY <2>5, <1>9, <1>12
  <2> QED BY <2>6, <1>12 DEF Range
<1>18. docs \in Seq(Nat) /\ Len(docs) = k /\ DOMAIN docs = 1..k
  <2>1. docs \in [1..k -> Nat]
    BY <1>11, <1>12
  <2> QED BY <2>1, <1>1, FunctionIsSeq
<1>19. freqs \in Seq(Nat) /\ Len(freqs) = k
  <2>1. freqs \in [1..k -> Nat]
    <3>1. freqs = [j \in 1..k |-> freqs[j]]
      BY DEF freqs
    <3> QED BY <3>1, <1>16
  <2> QED BY <2>1, <1>1, FunctionIsSeq
<1>20. Tallies(docs, freqs, c2)
  BY <1>12, <1>16, <1>17, <1>18, <1>19 DEF Tallies
<1> QED BY <1>13, <1>14, <1>20

-----------------------------------------------------------------------------
(* What the collection or the shard that is inverted says.                 *)

\* The identifiers of one document are those of the words of the other.
Renames(copy, original, terms) ==
  /\ DOMAIN copy = DOMAIN original
  /\ \A j \in DOMAIN copy : copy[j] + 1 \in DOMAIN terms /\ terms[copy[j] + 1] = original[j]

\* No word has two identifiers.
Distinct(terms) ==
  /\ \E k \in Nat : DOMAIN terms = 1..k
  /\ \A i, j \in DOMAIN terms : terms[i] = terms[j] => i = j

\* Each document is, under its title, one of those that were parsed.
HoldsWords(c) ==
  /\ c.docs \in Seq(Seq(Nat)) /\ Len(c.docs) <= Len(documents) /\ Distinct(c.terms)
  /\ c.titles = [d \in DOMAIN c.docs |-> c.titles[d]]
  /\ \A d \in DOMAIN c.docs :
       c.titles[d] \in DOMAIN documents /\ Renames(c.docs[d], documents[c.titles[d]], c.terms)

\* A term is as often in the one as its word is in the other.
LEMMA RenamedOccurs ==
  ASSUME NEW copy \in Seq(Nat), NEW original, NEW terms, Distinct(terms),
         Renames(copy, original, terms), NEW t \in DOMAIN terms
  PROVE  Occurrences(copy, t - 1) = Occurrences(original, terms[t])
<1>1. \A j \in DOMAIN copy : copy[j] \in Nat
  BY ElementOfSeq, LenProperties
<1>2. t \in Nat
  BY DEF Distinct
<1>3. \A j \in DOMAIN copy : copy[j] = t - 1 <=> original[j] = terms[t]
  <2> TAKE j \in DOMAIN copy
  <2>1. copy[j] \in Nat /\ copy[j] + 1 \in DOMAIN terms /\ terms[copy[j] + 1] = original[j]
    BY <1>1 DEF Renames
  <2>2. terms[copy[j] + 1] = terms[t] <=> copy[j] + 1 = t
    BY <2>1 DEF Distinct
  <2>3. copy[j] = t - 1 <=> copy[j] + 1 = t
    BY <2>1, <1>2
  <2> QED BY <2>1, <2>2, <2>3
<1>4. PlacesOf(copy, t - 1) = PlacesOf(original, terms[t])
  BY <1>3 DEF PlacesOf, Renames
<1> QED BY <1>4 DEF Occurrences

\* A complete index holds the collection.
LEMMA CompleteHolds ==
  ASSUME BuildInv, TermsInv, pc = "done", ~torn
  PROVE  HoldsWords(output)
<1> DEFINE n == Len(documents)
           terms == output.terms
           W == UNION {Range(documents[i]) : i \in DOMAIN documents}
<1>1. ReadInv /\ IndexIsComplete
  BY DoneIsComplete DEF BuildInv
<1>2. /\ n \in Nat /\ DOMAIN documents = 1..n
      /\ DOMAIN output.docs = DOMAIN documents /\ DOMAIN output.titles = DOMAIN documents
      /\ \A d \in DOMAIN documents : output.titles[d] = d
      /\ Identified(output)
  BY <1>1, CompleteIsIdentified
<1>3. output.docs \in Seq(Seq(Nat)) /\ \E k \in Nat : DOMAIN terms = 1..k
  BY DoneIsTyped
<1>4. documents \in Seq(Seq(Nat))
  BY <1>1, WorkloadAssumption DEF documents, ReadInv
<1>5. W \subseteq Range(terms)
  <2>1. \A i \in 1..n : documents[i] \in Seq(Nat)
    BY <1>2, <1>4, ElementOfSeq
  <2>2. \A i \in 1..n : Range(documents[i]) \subseteq Nat
    BY <2>1, RangeIsFinite
  <2>3. W \subseteq Int
    BY <2>2, <1>2
  <2>4. /\ FlattenSeq(documents) \in Seq(Nat) /\ Range(FlattenSeq(documents)) = W
    BY <1>4, RangeOfFlattened
  <2>5. IsFiniteSet(W)
    BY <2>4, RangeIsFinite
  <2>6. terms = Ascending(W)
    BY <1>1 DEF IndexIsComplete
  <2> HIDE DEF W, terms
  <2> QED BY <2>3, <2>5, <2>6, AscendingSorts
<1> HIDE DEF n
<1>6. Distinct(terms)
  <2>1. Len(terms) \in Nat /\ DOMAIN terms = 1..Len(terms)
        /\ (\A i \in 1..Len(terms) : terms[i] \in Nat)
        /\ (\A i, j \in 1..Len(terms) : i < j => terms[i] < terms[j])
    BY <1>2 DEF Identified
  <2> HIDE DEF terms
  <2>2. \A i, j \in 1..Len(terms) : terms[i] = terms[j] => i = j
    <3> TAKE i, j \in 1..Len(terms)
    <3>1. terms[i] \in Nat /\ terms[j] \in Nat
      BY <2>1
    <3>2. i < j \/ j < i \/ i = j
      BY <2>1
    <3>3. (i < j => terms[i] < terms[j]) /\ (j < i => terms[j] < terms[i])
      BY <2>1
    <3> QED BY <3>1, <3>2, <3>3
  <2> QED BY <2>1, <2>2 DEF Distinct
<1>7. ASSUME NEW d \in DOMAIN documents
      PROVE  Renames(output.docs[d], documents[d], terms)
  <2> DEFINE at(w) == CHOOSE t \in DOMAIN terms : terms[t] = w
             id(w) == at(w) - 1
  <2>1. output.docs[d] = [j \in DOMAIN documents[d] |-> id(documents[d][j])]
    BY <1>1 DEF IndexIsComplete
  <2>2. ASSUME NEW j \in DOMAIN documents[d]
        PROVE  id(documents[d][j]) + 1 \in DOMAIN terms
               /\ terms[id(documents[d][j]) + 1] = documents[d][j]
    <3>1. documents[d][j] \in Range(terms)
      BY <1>5 DEF Range
    <3>2. at(documents[d][j]) \in DOMAIN terms /\ terms[at(documents[d][j])] = documents[d][j]
      BY <3>1 DEF Range
    <3> HIDE DEF at
    <3>3. at(documents[d][j]) \in Nat
      BY <3>2, <1>3
    <3>4. id(documents[d][j]) + 1 = at(documents[d][j])
      BY <3>3
    <3> QED BY <3>2, <3>4
  <2> HIDE DEF id
  <2> QED BY <2>1, <2>2 DEF Renames
<1>8. output.titles = [d \in DOMAIN output.docs |-> output.titles[d]]
  BY <1>1, <1>2 DEF IndexIsComplete
<1>9. Len(output.docs) <= Len(documents)
  <2>1. DOMAIN output.docs = 1..Len(output.docs) /\ Len(output.docs) \in Nat
    BY <1>3, LenProperties
  <2>2. PICK k \in Nat : k = Len(output.docs)
    BY <2>1
  <2>3. 1..k = 1..n
    BY <2>1, <2>2, <1>2
  <2>4. k > 0 => k \in 1..k
    OBVIOUS
  <2>5. k <= n
    BY <2>3, <2>4, <1>2
  <2> QED BY <2>2, <2>5 DEF n
<1> HIDE DEF W, terms
<1> QED BY <1>2, <1>3, <1>6, <1>7, <1>8, <1>9 DEF HoldsWords, terms

\* No word has two identifiers in a shard.
LEMMA FinishedIsDistinct ==
  ASSUME NEW c, Identified(c), NEW shard
  PROVE  Distinct(Finished(c, shard).terms)
<1> DEFINE n == Len(c.terms)
           K == {t \in 0..(n - 1) : t \in HasTerm(shard.docs)}
           kept == Ascending(K)
           k == Cardinality(K)
           terms == [i \in 1..k |-> c.terms[kept[i] + 1]]
<1>1. /\ n \in Nat /\ DOMAIN c.terms = 1..n
      /\ \A i \in 1..n : c.terms[i] \in Nat
      /\ \A i, j \in 1..n : i < j => c.terms[i] < c.terms[j]
  BY DEF Identified
<1>2. IsFiniteSet(K) /\ K \subseteq Int
  <2>1. K \in SUBSET (0..(n - 1)) /\ K \subseteq Int
    OBVIOUS
  <2>2. 0 \in Int /\ n - 1 \in Int
    BY <1>1
  <2>3. IsFiniteSet(0..(n - 1))
    BY <2>2, FS_Interval
  <2> QED BY <2>1, <2>3, FS_Subset
<1>3. Finished(c, shard).terms = [i \in DOMAIN kept |-> c.terms[kept[i] + 1]]
  BY DEF Finished
<1>4. \A i \in K : i + 1 \in 1..n
  BY <1>1
<1> HIDE DEF K
<1>5. /\ k \in Nat /\ kept \in [1..k -> K] /\ DOMAIN kept = 1..k
      /\ \A i, j \in 1..k : i < j => kept[i] < kept[j]
  BY <1>2, AscendingSorts
<1> HIDE DEF kept, k, n
<1>6. \A i \in 1..k : kept[i] \in Int /\ kept[i] + 1 \in 1..n
  BY <1>2, <1>4, <1>5
<1>7. \A i, j \in 1..k : i < j => terms[i] < terms[j]
  <2> TAKE i, j \in 1..k
  <2>1. kept[i] \in Int /\ kept[j] \in Int /\ kept[i] + 1 \in 1..n /\ kept[j] + 1 \in 1..n
    BY <1>6
  <2>2. i < j => kept[i] + 1 < kept[j] + 1
    BY <2>1, <1>5
  <2> QED BY <2>1, <2>2, <1>1
<1>8. \A i \in 1..k : terms[i] \in Nat
  BY <1>1, <1>6
<1>9. Finished(c, shard).terms = terms /\ DOMAIN terms = 1..k
  BY <1>3, <1>5
<1> HIDE DEF terms
<1>10. \A i, j \in 1..k : terms[i] = terms[j] => i = j
  <2> TAKE i, j \in 1..k
  <2>1. terms[i] \in Nat /\ terms[j] \in Nat
    BY <1>8
  <2>2. i < j \/ j < i \/ i = j
    BY <1>5
  <2>3. (i < j => terms[i] < terms[j]) /\ (j < i => terms[j] < terms[i])
    BY <1>7
  <2> QED BY <2>1, <2>2, <2>3
<1> QED BY <1>5, <1>9, <1>10 DEF Distinct

\* A shard that has been processed holds its part of the collection.
LEMMA ShardHolds ==
  ASSUME BuildInv, TermsInv, pc = "done", ~torn, DOMAIN shardOf = DOMAIN documents, NEW r
  PROVE  HoldsWords(Finished(output, Rearranged(output, shardOf, r)))
<1> DEFINE f == Finished(output, Rearranged(output, shardOf, r))
           M == {d \in DOMAIN shardOf : shardOf[d] = r}
           mine == Ascending(M)
           n == Len(documents)
<1>1. ReadInv /\ IndexIsComplete
  BY DoneIsComplete DEF BuildInv
<1>2. /\ n \in Nat /\ DOMAIN documents = 1..n /\ DOMAIN shardOf = 1..n
      /\ DOMAIN output.docs = 1..n /\ \A d \in 1..n : output.titles[d] = d
      /\ Identified(output)
  BY <1>1, CompleteIsIdentified
<1>3. output.docs \in Seq(Seq(Nat))
  BY DoneIsTyped
<1>4. HoldsWords(output)
  BY CompleteHolds
<1>5. IsFiniteSet(1..n) /\ 1..n \subseteq Nat
  <2>1. 1 \in Int /\ n \in Int
    BY <1>2
  <2>2. IsFiniteSet(1..n)
    BY <2>1, FS_Interval
  <2> QED BY <2>2
<1> HIDE DEF n
<1>6. HoldsItsDocuments(output, f, r)
  <2>1. DOMAIN shardOf = DOMAIN output.docs /\ DOMAIN shardOf \subseteq Nat
        /\ IsFiniteSet(DOMAIN shardOf)
    BY <1>2, <1>5
  <2> QED BY <2>1, <1>2, FinishedHolds
<1>7. f.docs \in Seq(Seq(Nat)) /\ (\E k \in Nat : DOMAIN f.terms = 1..k)
  BY <1>2, <1>3, FinishedIsTyped
<1>8. Distinct(f.terms)
  BY <1>2, FinishedIsDistinct
<1> HIDE DEF f
<1>9. /\ f.titles = [i \in DOMAIN mine |-> output.titles[mine[i]]]
      /\ DOMAIN f.docs = DOMAIN mine
      /\ \A i \in DOMAIN mine : DOMAIN f.docs[i] = DOMAIN output.docs[mine[i]]
      /\ \A i \in DOMAIN mine : \A j \in DOMAIN f.docs[i] :
           /\ f.docs[i][j] < Len(f.terms)
           /\ f.terms[f.docs[i][j] + 1] = output.terms[output.docs[mine[i]][j] + 1]
  BY <1>6 DEF HoldsItsDocuments
<1>10. /\ \A i \in DOMAIN mine : mine[i] \in 1..n
       /\ \E k \in Nat : DOMAIN mine = 1..k /\ k <= n
  <2>1. M \in SUBSET (1..n)
    BY <1>2
  <2> HIDE DEF M
  <2>2. M \subseteq Int
    BY <2>1, <1>5
  <2>3. IsFiniteSet(M)
    BY <2>1, <1>5, FS_Subset
  <2>4. mine \in [1..Cardinality(M) -> M]
    BY <2>2, <2>3, AscendingSorts
  <2>5. Cardinality(M) \in Nat /\ Cardinality(M) <= n
    <3>1. Cardinality(M) <= Cardinality(1..n)
      BY <2>1, <1>5, FS_Subset
    <3>2. Cardinality(1..n) = n
      <4>1. 1 \in Int /\ n \in Int /\ n \in Nat
        BY <1>2
      <4> QED BY <4>1, FS_Interval
    <3> QED BY <3>1, <3>2, <2>3, FS_CardinalityType
  <2> QED BY <2>1, <2>4, <2>5
<1>11. Len(f.terms) \in Nat /\ DOMAIN f.terms = 1..Len(f.terms)
  <2>1. PICK k \in Nat : DOMAIN f.terms = 1..k
    BY <1>7
  <2>2. f.terms = [i \in 1..k |-> f.terms[i]]
    <3>1. PICK g : f = Finished(output, g)
      BY DEF f
    <3>2. f.terms = [i \in DOMAIN f.terms |-> f.terms[i]]
      BY <3>1 DEF Finished
    <3> QED BY <3>2, <2>1
  <2>3. Len(f.terms) = k
    BY <2>1, <2>2
  <2> QED BY <2>1, <2>3
<1> HIDE DEF mine
<1>12. ASSUME NEW i \in DOMAIN f.docs
       PROVE  f.titles[i] \in DOMAIN documents
              /\ Renames(f.docs[i], documents[f.titles[i]], f.terms)
  <2>1. f.titles[i] = mine[i] /\ mine[i] \in 1..n
    BY <1>2, <1>9, <1>10
  <2>2. Renames(output.docs[mine[i]], documents[mine[i]], output.terms)
    BY <2>1, <1>2, <1>4 DEF HoldsWords
  <2>3. f.docs[i] \in Seq(Nat)
    <3>1. i \in 1..Len(f.docs)
      BY <1>7, LenProperties
    <3> QED BY <3>1, <1>7, ElementOfSeq
  <2>4. DOMAIN f.docs[i] = DOMAIN documents[mine[i]]
    BY <2>2, <1>9 DEF Renames
  <2>5. ASSUME NEW j \in DOMAIN f.docs[i]
        PROVE  f.docs[i][j] + 1 \in DOMAIN f.terms
               /\ f.terms[f.docs[i][j] + 1] = documents[mine[i]][j]
    <3>1. /\ f.docs[i][j] < Len(f.terms) /\ j \in DOMAIN output.docs[mine[i]]
          /\ f.terms[f.docs[i][j] + 1] = output.terms[output.docs[mine[i]][j] + 1]
      BY <1>9
    <3>2. f.docs[i][j] \in Nat
      BY <2>3, ElementOfSeq, LenProperties
    <3>3. f.docs[i][j] + 1 \in DOMAIN f.terms
      BY <3>1, <3>2, <1>11
    <3>4. output.terms[output.docs[mine[i]][j] + 1] = documents[mine[i]][j]
      BY <3>1, <2>2 DEF Renames
    <3> QED BY <3>1, <3>3, <3>4
  <2>6. Renames(f.docs[i], documents[mine[i]], f.terms)
    BY <2>4, <2>5 DEF Renames
  <2> QED BY <2>1, <2>6, <1>2
<1>13. f.titles = [i \in DOMAIN f.docs |-> f.titles[i]]
  BY <1>9
<1>14. Len(f.docs) <= Len(documents)
  <2>1. DOMAIN f.docs = 1..Len(f.docs) /\ Len(f.docs) \in Nat
    BY <1>7, LenProperties
  <2>2. PICK k \in Nat : DOMAIN mine = 1..k /\ k <= n
    BY <1>10
  <2>3. Len(f.docs) > 0 => Len(f.docs) \in 1..k
    BY <2>1, <2>2, <1>9
  <2> QED BY <2>1, <2>2, <2>3, <1>2 DEF n
<1>15. HoldsWords(f)
  BY <1>7, <1>8, <1>12, <1>13, <1>14 DEF HoldsWords
<1> QED BY <1>15 DEF f

-----------------------------------------------------------------------------
(* The index under its new identifiers.                                    *)

\* How often a word is in the documents of a lexicon.
TimesIn(lexicon, n, word) ==
  [d \in Nat |-> IF d \in 0..(n - 1) THEN Occurrences(documents[lexicon[d + 1]], word) ELSE 0]

\* The titles, the sizes and the lists say the same of each document.
HoldsCollection(r) ==
  LET n == Len(source.docs)
  IN  /\ r.lexicon = [d \in 1..n |-> r.lexicon[d]]
      /\ Range(r.lexicon) = Range(source.titles)
      /\ \A d \in 1..n : r.sizes[d] = Len(documents[r.lexicon[d]])
      /\ DOMAIN r.lists = DOMAIN source.terms
      /\ \A t \in DOMAIN source.terms :
           Tallies(r.lists[t].docs, r.lists[t].freqs, TimesIn(r.lexicon, n, source.terms[t]))

\* Each document of the source is as long as that which was parsed, and each term is in
\* it as often as its word.
LEMMA SourceCounts ==
  ASSUME HoldsWords(source), documents \in Seq(Seq(Nat)), NEW d \in 1..Len(source.docs)
  PROVE  /\ Len(source.docs[d]) = Len(documents[source.titles[d]])
         /\ \A t \in DOMAIN source.terms :
              Occurrences(source.docs[d], t - 1)
                = Occurrences(documents[source.titles[d]], source.terms[t])
<1> DEFINE copy == source.docs[d]
           original == documents[source.titles[d]]
<1>1. /\ source.docs \in Seq(Seq(Nat)) /\ Distinct(source.terms)
      /\ \A e \in DOMAIN source.docs :
           source.titles[e] \in DOMAIN documents
           /\ Renames(source.docs[e], documents[source.titles[e]], source.terms)
  BY DEF HoldsWords
<1>2. d \in DOMAIN source.docs
  BY <1>1, LenProperties
<1>3. copy \in Seq(Nat)
  BY <1>1, ElementOfSeq
<1>4. original \in Seq(Nat)
  <2>1. source.titles[d] \in 1..Len(documents)
    BY <1>1, <1>2, LenProperties
  <2> QED BY <2>1, ElementOfSeq
<1>5. Renames(copy, original, source.terms)
  BY <1>1, <1>2
<1> HIDE DEF copy, original
<1>6. Len(copy) = Len(original)
  <2>1. /\ Len(copy) \in Nat /\ Len(original) \in Nat
        /\ DOMAIN copy = 1..Len(copy) /\ DOMAIN original = 1..Len(original)
    BY <1>3, <1>4, LenProperties
  <2>2. 1..Len(copy) = 1..Len(original)
    BY <2>1, <1>5 DEF Renames
  <2>3. PICK a \in Nat, b \in Nat : a = Len(copy) /\ b = Len(original)
    BY <2>1
  <2>4. 1..a = 1..b
    BY <2>2, <2>3
  <2>5. a <= b
    <3>1. a > 0 => a \in 1..a
      OBVIOUS
    <3> QED BY <3>1, <2>4
  <2>6. b <= a
    <3>1. b > 0 => b \in 1..b
      OBVIOUS
    <3> QED BY <3>1, <2>4
  <2>7. a = b
    BY <2>5, <2>6
  <2> QED BY <2>3, <2>7
<1>7. \A t \in DOMAIN source.terms :
        Occurrences(copy, t - 1) = Occurrences(original, source.terms[t])
  BY <1>1, <1>3, <1>5, RenamedOccurs
<1> QED BY <1>6, <1>7 DEF copy, original

\* The counts of a term in the source are those of its word under the titles.
LEMMA CountsOfWord ==
  ASSUME HoldsWords(source), documents \in Seq(Seq(Nat)), NEW t \in DOMAIN source.terms
  PROVE  DocCounts(source.docs, 0, Len(source.docs), t - 1)
           = TimesIn(source.titles, Len(source.docs), source.terms[t])
<1> DEFINE n == Len(source.docs)
<1>1. n \in Nat
  BY LenProperties DEF HoldsWords
<1>2. \A d \in 1..n : Occurrences(source.docs[d], t - 1)
                        = Occurrences(documents[source.titles[d]], source.terms[t])
  BY SourceCounts
<1> HIDE DEF n
<1>3. \A d \in Nat : d \in 0..(n - 1) => d + 1 \in 1..n
  BY <1>1
<1> QED BY <1>2, <1>3 DEF DocCounts, TimesIn, n

\* The identifiers stay as they are.
LEMMA KeptHolds ==
  ASSUME HoldsWords(source), documents \in Seq(Seq(Nat)), IsTallied(index)
  PROVE  HoldsCollection([lists |-> index.lists, sizes |-> index.sizes,
                          lexicon |-> source.titles])
<1> DEFINE n == Len(source.docs)
<1>1. /\ source.docs \in Seq(Seq(Nat)) /\ source.titles = [d \in 1..n |-> source.titles[d]]
  BY LenProperties DEF HoldsWords
<1>2. \A d \in 1..n : index.sizes[d] = Len(documents[source.titles[d]])
  BY SourceCounts DEF IsTallied
<1>3. \A t \in DOMAIN source.terms :
        Tallies(index.lists[t].docs, index.lists[t].freqs,
                TimesIn(source.titles, n, source.terms[t]))
  BY CountsOfWord DEF IsTallied
<1>4. DOMAIN index.lists = DOMAIN source.terms
  BY DEF IsTallied
<1> QED BY <1>1, <1>2, <1>3, <1>4 DEF HoldsCollection

\* The identifiers are those of a mapping.
LEMMA ReorderedHolds ==
  ASSUME HoldsWords(source), documents \in Seq(Seq(Nat)), IsTallied(index),
         NEW m, IsOrder(m, Len(source.docs)), ReorderWith(index, source.titles, m)
  PROVE  HoldsCollection(reordered')
<1> DEFINE n == Len(source.docs)
           L == Moved(source.titles, m)
           S == Moved(index.sizes, m)
<1>1. /\ n \in Nat /\ source.titles = [d \in 1..n |-> source.titles[d]]
  BY LenProperties DEF HoldsWords
<1>2. /\ index.sizes = [d \in 1..n |-> Len(source.docs[d])]
      /\ DOMAIN index.lists = DOMAIN source.terms
  BY DEF IsTallied
<1>3. /\ reordered'.lexicon = L /\ reordered'.sizes = S
      /\ reordered'.lists = [t \in DOMAIN index.lists |-> ReorderPostings(index.lists[t], m)]
  BY DEF ReorderWith, ReorderSizes
<1>4. \A d \in 1..n : index.sizes[d] = Len(documents[source.titles[d]])
  BY <1>2, SourceCounts
<1> HIDE DEF n
<1>5. IsMoved(L, source.titles, m, n) /\ IsMoved(S, index.sizes, m, n)
  <2>1. DOMAIN source.titles = 1..n /\ DOMAIN index.sizes = 1..n
    BY <1>1, <1>2
  <2> QED BY <2>1, <1>1, MovedUnfolds DEF n
<1> HIDE DEF L, S
<1>6. /\ L = [i \in 1..n |-> L[i]]
      /\ \A d \in 1..n : m[d] + 1 \in 1..n /\ L[m[d] + 1] = source.titles[d]
                         /\ S[m[d] + 1] = index.sizes[d]
      /\ \A i \in 1..n : \E d \in 1..n : m[d] + 1 = i
  BY <1>5 DEF IsMoved
<1>7. Range(L) = Range(source.titles)
  <2>1. DOMAIN L = 1..n /\ DOMAIN source.titles = 1..n
    BY <1>1, <1>6
  <2>2. ASSUME NEW i \in 1..n PROVE L[i] \in Range(source.titles)
    <3>1. PICK d \in 1..n : m[d] + 1 = i
      BY <1>6
    <3>2. L[i] = source.titles[d]
      BY <3>1, <1>6
    <3> QED BY <3>2, <2>1 DEF Range
  <2>3. ASSUME NEW d \in 1..n PROVE source.titles[d] \in Range(L)
    <3>1. m[d] + 1 \in 1..n /\ L[m[d] + 1] = source.titles[d]
      BY <1>6
    <3> QED BY <3>1, <2>1 DEF Range
  <2>4. Range(L) \subseteq Range(source.titles)
    BY <2>1, <2>2 DEF Range
  <2>5. Range(source.titles) \subseteq Range(L)
    BY <2>1, <2>3 DEF Range
  <2> QED BY <2>4, <2>5
<1>8. \A i \in 1..n : S[i] = Len(documents[L[i]])
  <2> TAKE i \in 1..n
  <2>1. PICK d \in 1..n : m[d] + 1 = i
    BY <1>6
  <2>2. L[i] = source.titles[d] /\ S[i] = index.sizes[d]
    BY <2>1, <1>6
  <2> QED BY <2>2, <1>4
<1>9. ASSUME NEW t \in DOMAIN source.terms
      PROVE  Tallies(reordered'.lists[t].docs, reordered'.lists[t].freqs,
                     TimesIn(L, n, source.terms[t]))
  <2> DEFINE c == TimesIn(source.titles, n, source.terms[t])
             c2 == TimesIn(L, n, source.terms[t])
  <2>1. Tallies(index.lists[t].docs, index.lists[t].freqs, c)
    BY CountsOfWord DEF IsTallied, n
  <2>2. MovesCounts(c2, c, m, n)
    <3>1. ASSUME NEW d \in 1..n PROVE c2[m[d]] = c[d - 1]
      <4>1. m[d] \in 0..(n - 1) /\ d - 1 \in 0..(n - 1) /\ (d - 1) + 1 = d
        <5>1. m \in [1..n -> 0..(n - 1)]
          BY DEF IsOrder, n
        <5>2. d - 1 \in 0..(n - 1) /\ (d - 1) + 1 = d
          BY <1>1
        <5> QED BY <5>1, <5>2
      <4>2. m[d] \in Nat /\ d - 1 \in Nat
        BY <4>1
      <4>3. c2[m[d]] = Occurrences(documents[L[m[d] + 1]], source.terms[t])
        BY <4>1, <4>2 DEF TimesIn
      <4>4. c[d - 1] = Occurrences(documents[source.titles[d]], source.terms[t])
        BY <4>1, <4>2 DEF TimesIn
      <4> QED BY <4>3, <4>4, <1>6
    <3>2. \A d \in Nat \ (0..(n - 1)) : c[d] = 0 /\ c2[d] = 0
      BY DEF TimesIn
    <3> HIDE DEF c, c2
    <3> QED BY <3>1, <3>2 DEF MovesCounts
  <2> HIDE DEF c, c2
  <2>3. IsOrder(m, n)
    BY DEF n
  <2>4. PICK list : list = index.lists[t]
    OBVIOUS
  <2>5. Tallies(ReorderPostings(list, m).docs, ReorderPostings(list, m).freqs, c2)
    BY <2>1, <2>2, <2>3, <2>4, <1>1, ReorderedTallies
  <2>6. reordered'.lists[t] = ReorderPostings(list, m)
    BY <2>4, <1>2, <1>3
  <2> QED BY <2>5, <2>6 DEF c2
<1>10. DOMAIN reordered'.lists = DOMAIN source.terms
  BY <1>2, <1>3
<1> QED BY <1>3, <1>6, <1>7, <1>8, <1>9, <1>10 DEF HoldsCollection, n

-----------------------------------------------------------------------------
(* The compressed index.                                                   *)

\* Finitely many numbers have a greatest.
LEMMA GreatestExists ==
  ASSUME NEW S, S \subseteq Nat, IsFiniteSet(S), S # {}
  PROVE  \E w \in S : \A x \in S : x <= w
<1> DEFINE n == Cardinality(S)
           a == Ascending(S)
<1>1. S \subseteq Int
  OBVIOUS
<1>2. /\ n \in Nat /\ a \in [1..n -> S] /\ Range(a) = S
      /\ \A i, j \in 1..n : i < j => a[i] < a[j]
  BY <1>1, AscendingSorts
<1> HIDE DEF n, a
<1>3. \A x \in S : \E i \in 1..n : a[i] = x
  BY <1>2 DEF Range
<1>4. n >= 1
  <2>1. PICK x \in S : TRUE
    OBVIOUS
  <2>2. PICK i \in 1..n : a[i] = x
    BY <1>3
  <2> QED BY <2>2, <1>2
<1>5. a[n] \in S
  BY <1>2, <1>4
<1>6. \A x \in S : x <= a[n]
  <2> TAKE x \in S
  <2>1. PICK i \in 1..n : a[i] = x
    BY <1>3
  <2>2. x \in Int /\ a[n] \in Int
    BY <1>1, <1>5
  <2>3. i < n => a[i] < a[n]
    <3>1. n \in 1..n
      BY <1>2, <1>4
    <3> QED BY <3>1, <1>2
  <2>4. i < n \/ i = n
    BY <1>2
  <2> QED BY <2>1, <2>2, <2>3, <2>4
<1> QED BY <1>5, <1>6

\* Frequencies of lists, each greater than 0.
ArePositive(lists, k) ==
  /\ DOMAIN lists = 1..k
  /\ \A t \in 1..k : lists[t].freqs \in Seq(Nat)
                     /\ \A i \in DOMAIN lists[t].freqs : lists[t].freqs[i] > 0

\* The greatest weight is that of a posting, and none is greater.
LEMMA MaxTermWeightBounds ==
  ASSUME NEW k \in Nat, NEW lists, ArePositive(lists, k),
         NEW t \in 1..k, NEW i \in DOMAIN lists[t].freqs
  PROVE  /\ MaxTermWeight(lists) \in Nat /\ MaxTermWeight(lists) > 0
         /\ lists[t].freqs[i] <= MaxTermWeight(lists)
<1> DEFINE U == UNION {Range(lists[u].freqs) : u \in DOMAIN lists}
           seqs == [u \in 1..k |-> lists[u].freqs]
           Bounds(w) == \A u \in DOMAIN lists : \A j \in DOMAIN lists[u].freqs :
                          lists[u].freqs[j] <= w
<1>1. /\ DOMAIN lists = 1..k
      /\ \A u \in 1..k : lists[u].freqs \in Seq(Nat)
      /\ \A u \in 1..k : \A j \in DOMAIN lists[u].freqs : lists[u].freqs[j] > 0
  BY DEF ArePositive
<1>2. seqs \in Seq(Seq(Nat)) /\ DOMAIN seqs = 1..k
  <2>1. seqs \in [1..k -> Seq(Nat)]
    BY <1>1
  <2> HIDE DEF seqs
  <2> QED BY <2>1, FunctionIsSeq
<1>3. U = UNION {Range(seqs[u]) : u \in DOMAIN seqs}
  BY <1>1
<1> HIDE DEF seqs
<1>4. FlattenSeq(seqs) \in Seq(Nat) /\ Range(FlattenSeq(seqs)) = U
  BY <1>2, <1>3, RangeOfFlattened
<1>5. IsFiniteSet(U) /\ U \subseteq Nat
  BY <1>4, RangeIsFinite
<1>6. \A u \in DOMAIN lists : \A j \in DOMAIN lists[u].freqs : lists[u].freqs[j] \in U
  BY DEF Range
<1>7. t \in DOMAIN lists /\ U # {}
  BY <1>1, <1>6
<1> HIDE DEF U
<1>8. PICK w \in U : \A x \in U : x <= w
  BY <1>5, <1>7, GreatestExists
<1>9. Bounds(w)
  BY <1>6, <1>8
<1>10. MaxTermWeight(lists) = CHOOSE v \in U : Bounds(v)
  BY DEF MaxTermWeight, U
<1> HIDE DEF Bounds
<1>11. MaxTermWeight(lists) \in U /\ Bounds(MaxTermWeight(lists))
  BY <1>9, <1>10
<1>12. lists[t].freqs[i] <= MaxTermWeight(lists)
  BY <1>7, <1>11 DEF Bounds
<1>13. lists[t].freqs[i] \in Nat /\ lists[t].freqs[i] > 0 /\ MaxTermWeight(lists) \in Nat
  BY <1>1, <1>5, <1>6, <1>7, <1>11
<1> QED BY <1>12, <1>13

\* A score that is greater than 0 is not quantized to 0, and the order of scores is kept.
LEMMA QuantizedKeepsOrder ==
  ASSUME NEW x \in Nat \ {0}, NEW y \in Nat, x <= y, NEW max \in Nat \ {0}
  PROVE  Quantized(x, max) > 0 /\ Quantized(x, max) <= Quantized(y, max)
<1> DEFINE K == 2^QuantizationBits
<1>1. K \in Nat /\ K >= 1
  BY QuantizationAssumption
<1>2. /\ Quantized(x, max) = (x * K + max - 1) \div max
      /\ Quantized(y, max) = (y * K + max - 1) \div max
  BY DEF Quantized
<1> HIDE DEF K
<1>3. x * K <= y * K /\ x * K \in Nat /\ y * K \in Nat
  BY <1>1, TimesKeepsOrder
<1>4. x * K >= 1
  BY <1>1, Z3
<1>5. PICK a \in Nat, b \in Nat : a = x * K + max - 1 /\ b = y * K + max - 1
  BY <1>3, <1>4
<1>6. a <= b /\ a >= max
  BY <1>3, <1>4, <1>5
<1>7. \A c \in Nat, d \in Nat : d >= 1 =>
        c \div d \in Nat /\ (c \div d) * d <= c /\ c < (c \div d) * d + d
  BY Z3
<1>8. PICK p \in Nat, q \in Nat : p = a \div max /\ q = b \div max
  BY <1>7
<1>9. p * max <= a /\ b < q * max + max /\ p * max \in Nat /\ q * max \in Nat
  BY <1>7, <1>8, TimesKeepsOrder
<1>10. p > 0
  <2>1. a \div max # 0
    BY <1>6, Quotients
  <2> QED BY <2>1, <1>8
<1>11. p <= q
  <2> SUFFICES ASSUME q + 1 <= p PROVE FALSE
    OBVIOUS
  <2>1. (q + 1) * max <= p * max
    BY TimesKeepsOrder
  <2>2. (q + 1) * max = q * max + max
    BY Z3
  <2> QED BY <2>1, <2>2, <1>6, <1>9
<1> QED BY <1>2, <1>5, <1>8, <1>10, <1>11

\* The list of a term in the compressed index.
LEMMA PostingsHold ==
  ASSUME Distinct(source.terms), HoldsCollection(reordered), source.docs \in Seq(Seq(Nat)),
         NEW q \in BOOLEAN,
         compressed = [lists |-> CompressedLists(reordered.lists, q), quantized |-> q],
         NEW t \in DOMAIN source.terms
  PROVE  PostingsAreRight(t)
<1> DEFINE n == Len(source.docs)
           word == source.terms[t]
           lexicon == reordered.lexicon
           times(d) == Cardinality({j \in DOMAIN documents[lexicon[d + 1]] :
                                      documents[lexicon[d + 1]][j] = word})
           c == TimesIn(lexicon, n, word)
           lists == reordered.lists
           s == lists[t].docs
           f == lists[t].freqs
           m == Len(s)
           max == MaxTermWeight(lists)
           list == compressed.lists[t]
<1>1. /\ n \in Nat /\ lexicon = [d \in 1..n |-> lexicon[d]]
      /\ DOMAIN lists = DOMAIN source.terms
      /\ \A u \in DOMAIN source.terms :
           Tallies(lists[u].docs, lists[u].freqs, TimesIn(lexicon, n, source.terms[u]))
  BY LenProperties DEF HoldsCollection
<1>2. PICK k \in Nat : DOMAIN lists = 1..k
  BY <1>1 DEF Distinct
<1>3. t \in 1..k /\ Tallies(s, f, c)
  BY <1>1, <1>2
<1>4. Len(lexicon) = n
  BY <1>1
<1>5. \A d : times(d) = Occurrences(documents[lexicon[d + 1]], word)
  BY DEF Occurrences, PlacesOf
<1>6. \A d \in Nat : c[d] = IF d \in 0..(n - 1) THEN times(d) ELSE 0
  BY <1>5 DEF TimesIn
<1>7. /\ list.docs = s /\ list.freqs = Payloads(lists[t], q, max)
      /\ list.sum = Accumulate(list.freqs) /\ compressed.quantized = q
  BY <1>2, <1>3 DEF CompressedLists, PostingListOf
<1>8. ArePositive(lists, k)
  <2>1. ASSUME NEW u \in 1..k
        PROVE  lists[u].freqs \in Seq(Nat)
               /\ \A i \in DOMAIN lists[u].freqs : lists[u].freqs[i] > 0
    <3>1. Tallies(lists[u].docs, lists[u].freqs, TimesIn(lexicon, n, source.terms[u]))
      BY <1>1, <1>2
    <3> DEFINE g == lists[u].freqs
               e == TimesIn(lexicon, n, source.terms[u])
               l == Len(lists[u].docs)
    <3> HIDE DEF lists, e
    <3>2. /\ g \in Seq(Nat) /\ DOMAIN g = 1..l
          /\ \A i \in 1..l : g[i] = e[lists[u].docs[i]] /\ e[lists[u].docs[i]] > 0
      BY SMTT(30), ZenonT(60), <3>1, TalliesUnfold DEF e
    <3> QED BY <3>2
  <2> QED BY <1>2, <2>1 DEF ArePositive
<1> HIDE DEF lists, times, c, n, lexicon, word
<1>9. /\ m \in Nat /\ DOMAIN s = 1..m /\ DOMAIN f = 1..m
      /\ \A i \in 1..m : s[i] \in Nat /\ f[i] \in Nat
      /\ \A i, j \in 1..m : i < j => s[i] < s[j]
      /\ \A i \in 1..m : f[i] = c[s[i]] /\ c[s[i]] > 0
      /\ \A d \in Nat : c[d] > 0 => \E i \in 1..m : s[i] = d
  BY ZenonT(60), SMTT(30), <1>3, TalliesUnfold
<1>10. Payloads(lists[t], q, max)
         = [i \in 1..m |-> IF q THEN Quantized(f[i], max) ELSE f[i]]
  BY <1>9 DEF Payloads
<1> HIDE DEF list, m, s, f
<1>11. \A i \in 1..m : s[i] \in 0..(n - 1) /\ f[i] = times(s[i]) /\ times(s[i]) > 0
  <2> TAKE i \in 1..m
  <2>1. s[i] \in Nat /\ f[i] = c[s[i]] /\ c[s[i]] > 0
    BY <1>9
  <2>2. s[i] \in 0..(n - 1)
    BY <2>1, <1>6
  <2>3. c[s[i]] = times(s[i])
    BY <2>1, <2>2, <1>6
  <2> QED BY <2>1, <2>2, <2>3
<1>12. \A i \in 1..(Len(list.docs) - 1) : list.docs[i] < list.docs[i + 1]
  <2>1. Len(list.docs) = m
    BY <1>7 DEF m
  <2>2. \A i \in 1..(m - 1) : i \in 1..m /\ i + 1 \in 1..m /\ i < i + 1
    BY <1>9
  <2> QED BY <2>1, <2>2, <1>7, <1>9
<1>13. Range(list.docs) = {d \in 0..(Len(lexicon) - 1) : times(d) > 0}
  <2>1. \A x \in Range(s) : x \in 0..(n - 1) /\ times(x) > 0
    <3> TAKE x \in Range(s)
    <3>1. PICK i \in 1..m : s[i] = x
      BY <1>9 DEF Range
    <3> QED BY <3>1, <1>11
  <2>2. \A d \in 0..(n - 1) : times(d) > 0 => d \in Range(s)
    <3> TAKE d \in 0..(n - 1)
    <3>1. d \in Nat /\ c[d] = times(d)
      BY <1>1, <1>6
    <3>2. c[d] > 0 => \E i \in 1..m : s[i] = d
      BY <3>1, <1>9
    <3> QED BY <3>1, <3>2, <1>9 DEF Range
  <2> QED BY <2>1, <2>2, <1>4, <1>7
<1>14. \A i, j \in DOMAIN list.docs :
         IF compressed.quantized
         THEN /\ list.freqs[i] > 0
              /\ times(list.docs[i]) <= times(list.docs[j]) => list.freqs[i] <= list.freqs[j]
         ELSE list.freqs[i] = times(list.docs[i])
  <2>1. DOMAIN list.docs = 1..m /\ list.docs = s
    BY <1>7, <1>9
  <2>2. \A i \in 1..m : list.freqs[i] = IF q THEN Quantized(f[i], max) ELSE f[i]
    BY <1>7, <1>10
  <2>3. CASE q = FALSE
    BY <2>1, <2>2, <2>3, <1>7, <1>11
  <2>4. CASE q = TRUE
    <3>1. ASSUME NEW i \in 1..m, NEW j \in 1..m
          PROVE  /\ list.freqs[i] > 0
                 /\ times(list.docs[i]) <= times(list.docs[j]) => list.freqs[i] <= list.freqs[j]
      <4>1. f[i] = times(s[i]) /\ f[j] = times(s[j]) /\ times(s[i]) > 0
            /\ f[i] \in Nat \ {0} /\ f[j] \in Nat
        BY <1>9, <1>11
      <4>2. list.freqs[i] = Quantized(f[i], max) /\ list.freqs[j] = Quantized(f[j], max)
        BY <2>2, <2>4
      <4>3. max \in Nat \ {0}
        <5>1. i \in DOMAIN lists[t].freqs
          BY <1>9 DEF f
        <5> QED BY <5>1, <1>3, <1>8, MaxTermWeightBounds
      <4> HIDE DEF max
      <4>4. Quantized(f[i], max) > 0
        BY <4>1, <4>3, QuantizedKeepsOrder
      <4>5. f[i] <= f[j] => Quantized(f[i], max) <= Quantized(f[j], max)
        BY <4>1, <4>3, QuantizedKeepsOrder
      <4> QED BY <4>1, <4>2, <4>4, <4>5, <2>1
    <3> QED BY <3>1, <2>1, <2>4, <1>7
  <2> QED BY <2>3, <2>4
<1> HIDE DEF max
<1> QED BY <1>7, <1>12, <1>13, <1>14 DEF PostingsAreRight, list, times, word, lexicon

\* The compressed index is the collection.
LEMMA CompressedHolds ==
  ASSUME HoldsWords(source), HoldsCollection(reordered), NEW q \in BOOLEAN,
         compressed = [lists |-> CompressedLists(reordered.lists, q), quantized |-> q]
  PROVE  CompressedIndexIsTheCollection
<1> DEFINE n == Len(source.docs)
<1>1. /\ source.docs \in Seq(Seq(Nat)) /\ Distinct(source.terms) /\ n \in Nat
      /\ source.titles = [d \in 1..n |-> source.titles[d]]
  BY LenProperties DEF HoldsWords
<1>2. /\ reordered.lexicon = [d \in 1..n |-> reordered.lexicon[d]]
      /\ Range(reordered.lexicon) = Range(source.titles)
      /\ \A d \in 1..n : reordered.sizes[d] = Len(documents[reordered.lexicon[d]])
      /\ DOMAIN reordered.lists = DOMAIN source.terms
  BY DEF HoldsCollection
<1>3. Len(reordered.lexicon) = n /\ Len(source.titles) = n /\ DOMAIN reordered.lexicon = 1..n
  <2> HIDE DEF n
  <2> QED BY <1>1, <1>2
<1>4. DOMAIN compressed.lists = DOMAIN source.terms
  BY <1>2 DEF CompressedLists
<1>5. \A t \in DOMAIN source.terms : PostingsAreRight(t)
  BY <1>1, PostingsHold
<1> QED BY <1>2, <1>3, <1>4, <1>5 DEF CompressedIndexIsTheCollection

-----------------------------------------------------------------------------
(* New identifiers and compression in the pipeline.                        *)

\* What is inverted holds the documents that were parsed; so does the inverted index,
\* the array of bisection has each of its documents once, and the index under its new
\* identifiers, which is the one that is compressed, holds them.
ReorderInv ==
  /\ stage \notin {"parse", "shard"} => HoldsWords(source)
  /\ stage \in {"inverted", "bisect"} => IsTallied(index)
  /\ stage = "bisect" => Bisects(Len(source.docs))
  /\ stage \in {"reordered", "compressed"} => HoldsCollection(reordered)
  /\ stage = "compressed" =>
       \E q \in BOOLEAN :
         compressed = [lists |-> CompressedLists(reordered.lists, q), quantized |-> q]

\* A build reads what was given to it.
LEMMA DocumentsAreTyped ==
  ASSUME BuildInv
  PROVE  documents \in Seq(Seq(Nat))
  BY WorkloadAssumption DEF BuildInv, ReadInv, documents

\* What is inverted holds the documents.
LEMMA InvertedSourceHolds ==
  ASSUME BuildInv, TermsInv, ShardsInv, InvertStep
  PROVE  HoldsWords(source')
<1>1. CASE Parsed /\ StartInversion(output)
  BY <1>1, CompleteHolds DEF Parsed, StartInversion
<1>2. CASE /\ stage = "shard"
           /\ AllProcessed
           /\ \E s \in DOMAIN shards : shards[s].docs # <<>> /\ StartInversion(shards[s])
  <2>1. PICK s \in DOMAIN shards : StartInversion(shards[s])
    BY <1>2
  <2>2. shards[s] = Finished(output, Rearranged(output, shardOf, s - 1))
    BY <1>2 DEF AllProcessed, ShardsInv
  <2>3. pc = "done" /\ ~torn /\ DOMAIN shardOf = DOMAIN documents
    BY <1>2 DEF ShardsInv
  <2>4. HoldsWords(Finished(output, Rearranged(output, shardOf, s - 1)))
    BY <2>3, ShardHolds
  <2> QED BY <2>1, <2>2, <2>4 DEF StartInversion
<1> QED BY <1>1, <1>2 DEF InvertStep

\* What does not change holds them still.
LEMMA HeldStays ==
  ASSUME documents' = documents, source' = source
  PROVE  /\ HoldsWords(source)' = HoldsWords(source)
         /\ index' = index => IsTallied(index)' = IsTallied(index)
         /\ HoldsCollection(reordered)' = HoldsCollection(reordered')
<1>1. HoldsWords(source)' = HoldsWords(source)
  BY DEF HoldsWords
<1>2. ASSUME index' = index PROVE IsTallied(index)' = IsTallied(index)
  BY <1>2 DEF IsTallied
<1>3. HoldsCollection(reordered)' = HoldsCollection(reordered')
  BY DEF HoldsCollection, TimesIn
<1> QED BY <1>1, <1>2, <1>3

\* The index gets other identifiers.
LEMMA ReorderHolds ==
  ASSUME HoldsWords(source), documents \in Seq(Seq(Nat)), IsTallied(index),
         \/ ReorderRandomly(index, source.titles)
         \/ ReorderByFeature(index, source.titles)
         \/ ReorderFromMapping(index, source.titles)
  PROVE  HoldsCollection(reordered')
<1>1. PICK n \in Nat : n = Len(source.docs)
  BY LenProperties DEF HoldsWords
<1>2. DOMAIN index.sizes = 1..n
  BY <1>1 DEF IsTallied
<1>3. PICK inverted : inverted = index
  OBVIOUS
<1>4. \A m : IsOrder(m, n) /\ ReorderWith(index, source.titles, m) => HoldsCollection(reordered')
  BY <1>1, ReorderedHolds
<1>5. \A m \in Mappings(index) : IsOrder(m, n)
  <2> TAKE m \in Mappings(index)
  <2>1. DOMAIN inverted.sizes = 1..n /\ m \in Mappings(inverted)
    BY <1>2, <1>3
  <2> QED BY <2>1, MappingIsOrder
<1>6. CASE ReorderRandomly(index, source.titles)
  BY <1>4, <1>5, <1>6 DEF ReorderRandomly
<1>7. CASE ReorderByFeature(index, source.titles)
  <2>1. PICK features \in [1..n -> Features] :
          ReorderWith(index, source.titles, SortedByFeature(features))
    BY <1>2, <1>7 DEF ReorderByFeature
  <2>2. IsOrder(SortedByFeature(features), n)
    BY FeaturesGiveMapping
  <2> QED BY <2>1, <2>2, <1>4
<1>8. CASE ReorderFromMapping(index, source.titles)
  <2> DEFINE lines(m) == [l \in DOMAIN m |-> <<l - 1, m[l]>>]
  <2>1. PICK m \in Mappings(index) :
          \/ ReorderWith(index, source.titles, FromLines(lines(m)))
          \/ ReorderWith(index, source.titles, FromLines(Reverse(lines(m))))
    BY <1>8 DEF ReorderFromMapping
  <2>2. IsOrder(m, n)
    BY <1>5
  <2>3. FromLines(lines(m)) = m /\ FromLines(Reverse(lines(m))) = m
    BY <2>2, LinesGiveMapping
  <2> HIDE DEF lines
  <2> QED BY <2>1, <2>2, <2>3, <1>4
<1> QED BY <1>6, <1>7, <1>8

\* Bisection begins.
LEMMA BisectionBegins ==
  ASSUME BuildInv, HoldsWords(source), IsTallied(index), BisectionStep,
         NEW n \in Nat, n = Len(source.docs)
  PROVE  Bisects(n)'
<1>1. n <= Len(documents) /\ call \in Workload /\ Len(documents) \in Nat
  BY WorkloadIsTyped DEF HoldsWords, BuildInv, ReadInv
<1>2. Config(n) \in Seq(SUBSET NodesFor(n))
  <2>1. n \in 0..Len(call.documents)
    BY <1>1 DEF documents
  <2> QED BY <1>1, <2>1, ConfigAssumption
<1>3. DOMAIN index.sizes = 1..n /\ Len(index.sizes) = n
  BY DEF IsTallied
<1>4. PICK inverted : inverted = index
  OBVIOUS
<1>5. StartBisection(inverted) \/ (Config(n) # <<>> /\ StartConfigured(inverted, Config(n)))
  BY <1>3, <1>4 DEF BisectionStep
<1>6. DOMAIN inverted.sizes = 1..n /\ Len(inverted.sizes) = n
  BY <1>3, <1>4
<1> QED BY <1>2, <1>5, <1>6, StartBisects

\* Every step of the pipeline keeps it.
LEMMA ReorderNext ==
  BuildInv /\ TermsInv /\ ShardsInv /\ InversionInv /\ ReorderInv
    /\ [PipelineNext]_pipelineVars => ReorderInv'
<1> SUFFICES ASSUME BuildInv, TermsInv, ShardsInv, InversionInv, ReorderInv,
                    [PipelineNext]_pipelineVars
             PROVE  ReorderInv'
  OBVIOUS
<1>1. documents' = documents /\ documents \in Seq(Seq(Nat))
  BY PipelineStepBuilds, StepKeepsInput, InputStays, DocumentsAreTyped
<1>2. CASE ParseStep \/ PartitionStep \/ ShardStep
  <2>1. stage' \in {"parse", "shard"}
    BY <1>2 DEF ParseStep, PartitionStep, ShardStep
  <2> QED BY <2>1 DEF ReorderInv
<1>3. CASE InvertStep
  <2>1. stage' = "invert" /\ HoldsWords(source')
    BY <1>3, InvertedSourceHolds DEF InvertStep
  <2>2. HoldsWords(source)' = HoldsWords(source')
    BY <1>1 DEF HoldsWords
  <2> QED BY <2>1, <2>2 DEF ReorderInv
<1>4. CASE ReduceStep \/ StoreForwardStep
  <2>1. /\ stage \in {"invert", "inverted"} /\ stage' \in {"invert", "stored"}
        /\ source' = source
    BY <1>4 DEF ReduceStep, StoreForwardStep, inversionVars, NextBatch, Reduce, Read, Split, Join,
      WriteInverted
  <2>2. HoldsWords(source)'
    BY <2>1, <1>1, HeldStays DEF ReorderInv
  <2> QED BY <2>1, <2>2 DEF ReorderInv
<1>5. CASE MergeStep
  <2>1. /\ stage = "invert" /\ InvertInv /\ MergeInverted /\ source' = source
        /\ stage' = IF CannotMerge THEN "failed" ELSE "inverted"
    BY <1>5 DEF MergeStep, InversionInv, MergeInverted
  <2>2. HoldsWords(source)'
    BY <2>1, <1>1, HeldStays DEF ReorderInv
  <2>3. CASE CannotMerge
    BY <2>1, <2>2, <2>3 DEF ReorderInv
  <2>4. CASE ~CannotMerge
    BY <2>1, <2>2, <2>4, MergeInverts DEF ReorderInv
  <2> QED BY <2>3, <2>4
<1>6. CASE KeepOrder \/ ReorderStep
  <2>1. /\ stage = "inverted" /\ stage' = "reordered" /\ source' = source
        /\ HoldsWords(source) /\ IsTallied(index)
    BY <1>6 DEF KeepOrder, ReorderStep, ReorderInv, inversionVars
  <2>2. HoldsWords(source)' /\ HoldsCollection(reordered)' = HoldsCollection(reordered')
    BY <2>1, <1>1, HeldStays
  <2>3. HoldsCollection(reordered')
    <3>1. CASE KeepOrder
      BY <3>1, <2>1, <1>1, KeptHolds DEF KeepOrder
    <3>2. CASE ReorderStep
      BY <3>2, <2>1, <1>1, ReorderHolds DEF ReorderStep
    <3> QED BY <1>6, <3>1, <3>2
  <2> QED BY <2>1, <2>2, <2>3 DEF ReorderInv
<1>7. CASE BisectionStep \/ BisectStep
  <2>1. /\ stage \in {"inverted", "bisect"} /\ source' = source /\ index' = index
        /\ HoldsWords(source) /\ IsTallied(index)
        /\ stage' \in {"bisect", "reordered"}
    BY <1>7 DEF BisectionStep, BisectStep, ReorderInv, inversionVars
  <2>2. /\ HoldsWords(source)' /\ IsTallied(index)'
        /\ HoldsCollection(reordered)' = HoldsCollection(reordered')
    BY <2>1, <1>1, HeldStays
  <2>3. PICK n \in Nat : n = Len(source.docs)
    BY <2>1, LenProperties DEF HoldsWords
  <2>4. Bisects(Len(source.docs))' = Bisects(n)'
    BY <2>1, <2>3
  <2>5. CASE BisectionStep
    <3>1. stage' = "bisect"
      BY <2>5 DEF BisectionStep
    <3>2. Bisects(n)'
      BY <2>1, <2>3, <2>5, BisectionBegins
    <3> QED BY <3>1, <3>2, <2>2, <2>4 DEF ReorderInv
  <2>6. CASE BisectStep
    <3>1. Bisects(n)
      BY <2>3, <2>6 DEF BisectStep, ReorderInv
    <3>2. CASE Bisect /\ UNCHANGED stage
      <4>1. Bisects(n)' /\ stage' = "bisect"
        BY <2>6, <3>1, <3>2, BisectKeeps DEF BisectStep
      <4> QED BY <4>1, <2>2, <2>4 DEF ReorderInv
    <3>3. CASE EndBisection(index, source.titles) /\ stage' = "reordered"
      <4>1. PICK a : a = order
        OBVIOUS
      <4>2. IsOrder(a, n)
        BY <3>1, <4>1 DEF Bisects
      <4>3. IsOrder(GetMapping(a), n)
        BY <4>2, GotMapping
      <4>4. PICK m : m = GetMapping(a)
        OBVIOUS
      <4>5. ReorderWith(index, source.titles, m) /\ IsOrder(m, Len(source.docs))
        BY <3>3, <4>1, <4>3, <4>4, <2>3 DEF EndBisection
      <4>6. HoldsCollection(reordered')
        BY <4>5, <2>1, <1>1, ReorderedHolds
      <4> QED BY <3>3, <4>6, <2>2 DEF ReorderInv
    <3> QED BY <2>6, <3>2, <3>3 DEF BisectStep
  <2> QED BY <1>7, <2>5, <2>6
<1>8. CASE CompressStep
  <2>1. /\ stage = "reordered" /\ source' = source /\ reordered' = reordered
        /\ stage' \in {"compressed", "failed"}
        /\ \E q \in BOOLEAN :
             compressed' = [lists |-> CompressedLists(reordered.lists, q), quantized |-> q]
    BY <1>8 DEF CompressStep, inversionVars, reorderingVars
  <2>2. HoldsWords(source)' /\ HoldsCollection(reordered)'
    BY <2>1, <1>1, HeldStays DEF ReorderInv
  <2>3. \E q \in BOOLEAN :
          compressed' = [lists |-> CompressedLists(reordered'.lists, q), quantized |-> q]
    BY <2>1
  <2> QED BY <2>1, <2>2, <2>3 DEF ReorderInv
<1>9. CASE UNCHANGED pipelineVars
  <2>1. UNCHANGED <<stage, source, index, order, nodes, levels, reordered, compressed>>
    BY <1>9 DEF pipelineVars, inversionVars, reorderingVars
  <2>2. /\ HoldsWords(source)' = HoldsWords(source) /\ IsTallied(index)' = IsTallied(index)
        /\ HoldsCollection(reordered)' = HoldsCollection(reordered)
    BY <2>1, <1>1, HeldStays
  <2>3. Bisects(Len(source.docs))' = Bisects(Len(source.docs))
    BY <2>1 DEF Bisects
  <2>4. ASSUME stage' = "compressed"
        PROVE  \E q \in BOOLEAN :
                 compressed' = [lists |-> CompressedLists(reordered'.lists, q), quantized |-> q]
    BY <2>1, <2>4 DEF ReorderInv
  <2> QED BY <2>1, <2>2, <2>3, <2>4 DEF ReorderInv
<1> QED BY <1>2, <1>3, <1>4, <1>5, <1>6, <1>7, <1>8, <1>9 DEF PipelineNext

\* For every collection, number of shards, size of a batch, number of threads, order of
\* the documents and configuration of nodes: whatever shard is inverted, however
\* parallel_reduce splits and joins, whatever permutation, features, lines of a mapping
\* or runs of bisection give the documents their identifiers, the compressed index with
\* its document lexicon and sizes says of each document what was parsed.
THEOREM CompressionIsRight == PipelineSpec => []CompressedIndexIsTheCollection
<1>1. PipelineInit => Init /\ ShardsInv /\ InversionInv /\ ReorderInv
  BY DEF PipelineInit, ShardsInv, InversionInv, ReorderInv
<1>2. Init => TermsInv
  BY DEF Init, TermsInv
<1>3. ReorderInv => CompressedIndexIsTheCollection
  <2>1. ASSUME ReorderInv, stage = "compressed" PROVE CompressedIndexIsTheCollection
    BY <2>1, CompressedHolds DEF ReorderInv
  <2>2. stage # "compressed" => CompressedIndexIsTheCollection
    BY DEF CompressedIndexIsTheCollection
  <2> QED BY <2>1, <2>2
<1> QED BY <1>1, <1>2, <1>3, BuildInvariantHolds, PipelineBuilds, PipelineStepBuilds, TermsNext,
    ShardsNext, InversionNext, ReorderNext, PTL DEF PipelineSpec
=============================================================================
