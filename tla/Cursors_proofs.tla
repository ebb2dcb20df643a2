--------------------------- MODULE Cursors_proofs ---------------------------
(***************************************************************************)
(* Lemmas about the cursors of a query, for every collection and number of *)
(* lists: where next() and next_geq() lead, sums over sets of lists, the   *)
(* bound accumulated over the first lists of any order, and priming.       *)
(***************************************************************************)
EXTENDS Cursors, TLAPS, FiniteSetTheorems, WellFoundedInduction

\* Every nonempty set of naturals has a least element.
LEMMA LeastNat ==
  ASSUME NEW S, S \subseteq Nat, S # {}
  PROVE  \E m \in S : \A n \in S : m <= n
<1> DEFINE Below == {p \in Nat \X Nat : p[1] < p[2]}
<1>1. IsWellFoundedOn(Below, Nat)
  BY NatLessThanWellFounded DEF OpToRel
<1>2. \A m, n \in Nat : <<m, n>> \in Below <=> m < n
  OBVIOUS
<1> HIDE DEF Below
<1>3. PICK m \in S : \A n \in S : ~ (<<n, m>> \in Below)
  BY <1>1, WFMin
<1>4. ASSUME NEW n \in S PROVE m <= n
  <2>1. m \in Nat /\ n \in Nat
    OBVIOUS
  <2>2. ~ (n < m)
    BY <1>2, <1>3, <2>1
  <2> QED  BY <2>1, <2>2
<1> QED  BY <1>4

\* Every nonempty set of naturals with an upper bound has a greatest element.
LEMMA GreatestNat ==
  ASSUME NEW n \in Nat, NEW S, S \subseteq 0..n, S # {}
  PROVE  \E m \in S : \A k \in S : k <= m
<1> DEFINE left == {n - k : k \in S}
<1>1. left \subseteq Nat /\ left # {}
  <2>1. \A k \in S : n - k \in Nat
    OBVIOUS
  <2>2. left # {}
    <3>1. PICK k \in S : TRUE
      OBVIOUS
    <3>2. n - k \in left
      OBVIOUS
    <3> QED  BY <3>2
  <2> QED  BY <2>1, <2>2
<1>2. PICK l \in left : \A k \in left : l <= k
  BY <1>1, LeastNat
<1>3. PICK m \in S : l = n - m
  OBVIOUS
<1>4. ASSUME NEW k \in S PROVE k <= m
  <2>1. n - m <= n - k
    BY <1>2, <1>3
  <2> QED  BY <2>1
<1> QED  BY <1>4

\* Induction up to a bound: what holds of 0 and is handed on holds of n.
LEMMA UpTo ==
  ASSUME NEW n \in Nat, NEW Good, 0 \in Good,
         \A k \in (0..n) \ {n} : k \in Good => k + 1 \in Good
  PROVE  n \in Good
<1> DEFINE Bad == {k \in 0..n : k \notin Good}
<1>1. SUFFICES ASSUME Bad # {} PROVE FALSE
  OBVIOUS
<1>2. Bad \subseteq Nat
  OBVIOUS
<1>3. PICK k \in Bad : \A l \in Bad : k <= l
  BY <1>1, <1>2, LeastNat
<1>4. k # 0
  BY <1>3
<1>5. k - 1 \in (0..n) \ {n} /\ k - 1 \notin Bad /\ (k - 1) + 1 = k
  BY <1>3, <1>4
<1> QED  BY <1>3, <1>5

\* The members of T up to k.
Prefix(T, k) == {i \in T : i <= k}

\* From one prefix of T to the next.
PrefixGrows(T, n) ==
  /\ Prefix(T, 0) = {} /\ Prefix(T, n) = T
  /\ \A k \in (0..n) \ {n} :
       /\ Prefix(T, k) \subseteq 1..n /\ k + 1 \in 1..n /\ k + 1 \notin Prefix(T, k)
       /\ Prefix(T, k + 1) = IF k + 1 \in T THEN Prefix(T, k) \cup {k + 1} ELSE Prefix(T, k)

LEMMA PrefixesGrow ==
  ASSUME NEW n \in Nat, NEW T, T \subseteq 1..n
  PROVE  PrefixGrows(T, n)
<1>1. \A i \in T : i \in Nat /\ i >= 1 /\ i <= n
  OBVIOUS
<1>2. Prefix(T, 0) = {} /\ Prefix(T, n) = T
  <2>1. \A i \in T : ~ (i <= 0)
    BY <1>1
  <2> QED  BY <1>1, <2>1 DEF Prefix
<1>3. ASSUME NEW k \in (0..n) \ {n}
      PROVE  /\ Prefix(T, k) \subseteq 1..n /\ k + 1 \in 1..n /\ k + 1 \notin Prefix(T, k)
             /\ Prefix(T, k + 1) = IF k + 1 \in T THEN Prefix(T, k) \cup {k + 1} ELSE Prefix(T, k)
  <2>1. k + 1 \in 1..n
    OBVIOUS
  <2>2. Prefix(T, k) \subseteq 1..n /\ k + 1 \notin Prefix(T, k)
    <3>1. ~ (k + 1 <= k)
      OBVIOUS
    <3>2. Prefix(T, k) \subseteq T
      BY DEF Prefix
    <3>3. k + 1 \notin Prefix(T, k)
      BY <3>1 DEF Prefix
    <3> QED  BY <3>2, <3>3
  <2>3. \A i \in T : i <= k + 1 <=> i <= k \/ i = k + 1
    BY <1>1
  <2>4. Prefix(T, k + 1) = IF k + 1 \in T THEN Prefix(T, k) \cup {k + 1} ELSE Prefix(T, k)
    BY <2>3 DEF Prefix
  <2> QED  BY <2>1, <2>2, <2>4
<1> QED  BY <1>2, <1>3 DEF PrefixGrows

-----------------------------------------------------------------------------
(* Sums.  The recursive function inside SumTo is the function that         *)
(* satisfies its equation; that there is one, and only one, is shown first. *)

IsPrefixSum(g, f, n) == g = [i \in 0..n |-> IF i = 0 THEN 0 ELSE g[i - 1] + f[i]]

LEMMA PrefixSumExists ==
  ASSUME NEW f, NEW n \in Nat
  PROVE  \E g : IsPrefixSum(g, f, n)
<1> DEFINE Bad == {m \in Nat : ~ \E g : IsPrefixSum(g, f, m)}
<1>1. SUFFICES ASSUME Bad # {} PROVE FALSE
  OBVIOUS
<1>2. PICK m \in Bad : \A k \in Bad : m <= k
  BY <1>1, LeastNat
<1>3. CASE m = 0
  <2> DEFINE g == [i \in 0..0 |-> 0]
  <2>1. IsPrefixSum(g, f, 0)
    BY DEF IsPrefixSum
  <2> QED  BY <1>3, <2>1
<1>4. CASE m # 0
  <2>1. m - 1 \in Nat /\ m - 1 \notin Bad
    BY <1>2, <1>4
  <2>2. PICK g : IsPrefixSum(g, f, m - 1)
    BY <2>1
  <2> DEFINE h == [i \in 0..m |-> IF i = m THEN g[m - 1] + f[m] ELSE g[i]]
  <2>3. \A i \in 0..(m - 1) : g[i] = IF i = 0 THEN 0 ELSE g[i - 1] + f[i]
    BY <2>2 DEF IsPrefixSum
  <2>4. \A i \in 0..m : h[i] = IF i = 0 THEN 0 ELSE h[i - 1] + f[i]
    BY <2>1, <2>3
  <2>5. IsPrefixSum(h, f, m)
    BY <2>4 DEF IsPrefixSum
  <2> QED  BY <2>5
<1> QED  BY <1>3, <1>4

LEMMA PrefixSumsAgree ==
  ASSUME NEW f, NEW n \in Nat, NEW m \in Nat, n <= m,
         NEW g, IsPrefixSum(g, f, n), NEW h, IsPrefixSum(h, f, m),
         NEW k \in 0..n
  PROVE  g[k] = h[k]
<1> DEFINE Bad == {i \in 0..n : g[i] # h[i]}
<1>1. SUFFICES ASSUME Bad # {} PROVE FALSE
  OBVIOUS
<1>2. PICK i \in Bad : \A j \in Bad : i <= j
  <2>1. Bad \subseteq Nat
    OBVIOUS
  <2> QED BY <1>1, <2>1, LeastNat
<1>3. /\ g[i] = IF i = 0 THEN 0 ELSE g[i - 1] + f[i]
      /\ h[i] = IF i = 0 THEN 0 ELSE h[i - 1] + f[i]
  BY DEF IsPrefixSum
<1>4. i # 0 => i - 1 \in 0..n /\ i - 1 \notin Bad
  BY <1>2
<1> QED  BY <1>3, <1>4

LEMMA SumToPrefix ==
  ASSUME NEW f, NEW n \in Nat, NEW g, IsPrefixSum(g, f, n)
  PROVE  SumTo(f, n) = g[n]
<1> DEFINE h == CHOOSE h : IsPrefixSum(h, f, n)
<1>1. IsPrefixSum(h, f, n)
  OBVIOUS
<1>2. SumTo(f, n) = h[n]
  BY DEF SumTo, IsPrefixSum
<1> HIDE DEF h
<1> QED  BY <1>1, <1>2, PrefixSumsAgree

\* SumTo is what its name says: nothing for no term, and one term more at each step.
LEMMA SumToStep ==
  ASSUME NEW f
  PROVE  /\ SumTo(f, 0) = 0
         /\ \A k \in Nat : SumTo(f, k + 1) = SumTo(f, k) + f[k + 1]
<1>1. SumTo(f, 0) = 0
  <2>1. PICK g : IsPrefixSum(g, f, 0)
    BY PrefixSumExists
  <2>2. g[0] = 0
    BY <2>1 DEF IsPrefixSum
  <2> QED  BY <2>1, <2>2, SumToPrefix
<1>2. ASSUME NEW k \in Nat PROVE SumTo(f, k + 1) = SumTo(f, k) + f[k + 1]
  <2>1. PICK g : IsPrefixSum(g, f, k + 1)
    BY PrefixSumExists
  <2>2. PICK h : IsPrefixSum(h, f, k)
    BY PrefixSumExists
  <2>3. g[k + 1] = g[k] + f[k + 1]
    BY <2>1 DEF IsPrefixSum
  <2>4. h[k] = g[k]
    BY <2>1, <2>2, PrefixSumsAgree
  <2> QED  BY <2>1, <2>2, <2>3, <2>4, SumToPrefix
<1> QED  BY <1>1, <1>2

\* f is a vector of n naturals, or starts with one.
NatsTo(f, n) == \A i \in 1..n : f[i] \in Nat

LEMMA SumToNat ==
  ASSUME NEW f, NEW n \in Nat, NatsTo(f, n), NEW k \in 0..n
  PROVE  SumTo(f, k) \in Nat
<1> DEFINE Bad == {i \in 0..n : SumTo(f, i) \notin Nat}
<1>1. SUFFICES ASSUME Bad # {} PROVE FALSE
  OBVIOUS
<1>2. PICK i \in Bad : \A j \in Bad : i <= j
  <2>1. Bad \subseteq Nat
    OBVIOUS
  <2> QED  BY <1>1, <2>1, LeastNat
<1>3. i # 0
  BY SumToStep
<1>4. i - 1 \in Nat /\ i - 1 \in 0..n /\ i - 1 \notin Bad
  BY <1>2, <1>3
<1>5. SumTo(f, i) = SumTo(f, i - 1) + f[i]
  <2>1. SumTo(f, (i - 1) + 1) = SumTo(f, i - 1) + f[(i - 1) + 1]
    BY <1>4, SumToStep
  <2>2. (i - 1) + 1 = i
    OBVIOUS
  <2> QED  BY <2>1, <2>2
<1>6. f[i] \in Nat
  BY <1>3 DEF NatsTo
<1> QED  BY <1>4, <1>5, <1>6

\* A sum whose terms are no larger is no larger.
LEMMA SumToMonotone ==
  ASSUME NEW f, NEW g, NEW n \in Nat, NatsTo(f, n), NatsTo(g, n),
         \A i \in 1..n : f[i] <= g[i]
  PROVE  SumTo(f, n) <= SumTo(g, n)
<1> DEFINE Bad == {i \in 0..n : ~ (SumTo(f, i) <= SumTo(g, i))}
<1>1. SUFFICES ASSUME Bad # {} PROVE FALSE
  <2>1. n \notin Bad
    BY <1>1
  <2> QED  BY <2>1
<1>2. PICK i \in Bad : \A j \in Bad : i <= j
  <2>1. Bad \subseteq Nat
    OBVIOUS
  <2> QED  BY <1>1, <2>1, LeastNat
<1>3. i # 0
  BY SumToStep
<1>4. i - 1 \in Nat /\ i - 1 \in 0..n /\ i - 1 \notin Bad
  BY <1>2, <1>3
<1>5. SumTo(f, i) = SumTo(f, i - 1) + f[i] /\ SumTo(g, i) = SumTo(g, i - 1) + g[i]
  <2>1. /\ SumTo(f, (i - 1) + 1) = SumTo(f, i - 1) + f[(i - 1) + 1]
        /\ SumTo(g, (i - 1) + 1) = SumTo(g, i - 1) + g[(i - 1) + 1]
    BY <1>4, SumToStep
  <2>2. (i - 1) + 1 = i
    OBVIOUS
  <2> QED  BY <2>1, <2>2
<1>6. f[i] \in Nat /\ g[i] \in Nat /\ f[i] <= g[i]
  BY <1>3 DEF NatsTo
<1>7. SumTo(f, i - 1) \in Nat /\ SumTo(g, i - 1) \in Nat
  BY <1>4, SumToNat
<1> QED  BY <1>4, <1>5, <1>6, <1>7

\* Vectors that differ in one term have sums that differ by it.
LEMMA SumToChange ==
  ASSUME NEW f, NEW g, NEW n \in Nat, NatsTo(f, n), NatsTo(g, n),
         NEW c \in 1..n, \A i \in (1..n) \ {c} : f[i] = g[i]
  PROVE  SumTo(f, n) + g[c] = SumTo(g, n) + f[c]
<1> DEFINE Holds(i) == IF i < c THEN SumTo(f, i) = SumTo(g, i)
                       ELSE SumTo(f, i) + g[c] = SumTo(g, i) + f[c]
           Bad == {i \in 0..n : ~ Holds(i)}
<1>1. SUFFICES ASSUME Bad # {} PROVE FALSE
  <2>1. n \notin Bad
    BY <1>1
  <2> QED  BY <2>1
<1>2. PICK i \in Bad : \A j \in Bad : i <= j
  <2>1. Bad \subseteq Nat
    OBVIOUS
  <2> QED  BY <1>1, <2>1, LeastNat
<1>3. i # 0
  BY SumToStep
<1>4. i - 1 \in Nat /\ i - 1 \in 0..n /\ Holds(i - 1)
  BY <1>2, <1>3
<1>5. SumTo(f, i) = SumTo(f, i - 1) + f[i] /\ SumTo(g, i) = SumTo(g, i - 1) + g[i]
  <2>1. /\ SumTo(f, (i - 1) + 1) = SumTo(f, i - 1) + f[(i - 1) + 1]
        /\ SumTo(g, (i - 1) + 1) = SumTo(g, i - 1) + g[(i - 1) + 1]
    BY <1>4, SumToStep
  <2>2. (i - 1) + 1 = i
    OBVIOUS
  <2> QED  BY <2>1, <2>2
<1>6. /\ f[i] \in Nat /\ g[i] \in Nat /\ f[c] \in Nat /\ g[c] \in Nat
      /\ i # c => f[i] = g[i]
  BY <1>3 DEF NatsTo
<1>7. SumTo(f, i - 1) \in Nat /\ SumTo(g, i - 1) \in Nat
  BY <1>4, SumToNat
<1>8. Holds(i)
  BY <1>4, <1>5, <1>6, <1>7
<1> QED  BY <1>8

-----------------------------------------------------------------------------
(* Sums over some of the positions of a vector.                            *)

\* The vector SumOver sums.
Kept(f, S, n) == [i \in 1..n |-> IF i \in S THEN f[i] ELSE 0]

LEMMA SumOverNat ==
  ASSUME NEW f, NEW n \in Nat, NatsTo(f, n), NEW S
  PROVE  SumOver(f, S, n) \in Nat /\ NatsTo(Kept(f, S, n), n)
<1>1. NatsTo(Kept(f, S, n), n)
  BY DEF NatsTo, Kept
<1> QED  BY <1>1, SumToNat DEF SumOver, Kept

\* A sum over fewer positions, of smaller terms, is no larger.
LEMMA SumOverMonotone ==
  ASSUME NEW f, NEW g, NEW n \in Nat, NatsTo(f, n), NatsTo(g, n), NEW S, NEW T,
         \A i \in 1..n : i \in S => IF i \in T THEN f[i] <= g[i] ELSE f[i] = 0
  PROVE  SumOver(f, S, n) <= SumOver(g, T, n)
<1>1. \A i \in 1..n : Kept(f, S, n)[i] <= Kept(g, T, n)[i]
  BY DEF NatsTo, Kept
<1> QED  BY <1>1, SumOverNat, SumToMonotone DEF SumOver, Kept

\* Positions with nothing on them do not count.
LEMMA SumOverSame ==
  ASSUME NEW f, NEW g, NEW n \in Nat, NatsTo(f, n), NatsTo(g, n), NEW S, NEW T,
         \A i \in 1..n : (IF i \in S THEN f[i] ELSE 0) = (IF i \in T THEN g[i] ELSE 0)
  PROVE  SumOver(f, S, n) = SumOver(g, T, n)
<1>1. Kept(f, S, n) = Kept(g, T, n)
  BY DEF Kept
<1> QED  BY <1>1 DEF SumOver, Kept

LEMMA SumOverEmpty ==
  ASSUME NEW f, NEW n \in Nat, NatsTo(f, n)
  PROVE  SumOver(f, {}, n) = 0
<1> DEFINE zero == [i \in 1..n |-> 0]
           Bad == {i \in 0..n : SumTo(zero, i) # 0}
<1>1. SumOver(f, {}, n) = SumTo(zero, n)
  BY DEF SumOver
<1>2. SUFFICES ASSUME Bad # {} PROVE FALSE
  BY <1>1
<1>3. PICK i \in Bad : \A j \in Bad : i <= j
  <2>1. Bad \subseteq Nat
    OBVIOUS
  <2> QED  BY <1>2, <2>1, LeastNat
<1>4. i # 0
  BY SumToStep
<1>5. i - 1 \in Nat /\ i - 1 \in 0..n /\ i - 1 \notin Bad
  BY <1>3, <1>4
<1>6. SumTo(zero, (i - 1) + 1) = SumTo(zero, i - 1) + zero[(i - 1) + 1]
  BY <1>5, SumToStep
<1>7. (i - 1) + 1 = i /\ i \in 1..n
  BY <1>4
<1> QED  BY <1>5, <1>6, <1>7

LEMMA SumOverAll ==
  ASSUME NEW f, NEW n \in Nat, NatsTo(f, n)
  PROVE  SumOver(f, 1..n, n) = SumTo(f, n)
<1>1. /\ NatsTo(Kept(f, 1..n, n), n)
      /\ \A i \in 1..n : Kept(f, 1..n, n)[i] = f[i] /\ f[i] <= f[i]
  BY DEF NatsTo, Kept
<1>2. SumTo(Kept(f, 1..n, n), n) <= SumTo(f, n) /\ SumTo(f, n) <= SumTo(Kept(f, 1..n, n), n)
  BY <1>1, SumToMonotone
<1>3. SumTo(f, n) \in Nat /\ SumTo(Kept(f, 1..n, n), n) \in Nat
  BY <1>1, SumToNat
<1> QED  BY <1>2, <1>3 DEF SumOver, Kept

\* One more position adds its term.
LEMMA SumOverAdd ==
  ASSUME NEW f, NEW n \in Nat, NatsTo(f, n), NEW S, NEW c \in 1..n, c \notin S
  PROVE  SumOver(f, S \cup {c}, n) = SumOver(f, S, n) + f[c]
<1> DEFINE more == Kept(f, S \cup {c}, n)
           less == Kept(f, S, n)
<1>1. more[c] = f[c] /\ less[c] = 0 /\ \A i \in (1..n) \ {c} : more[i] = less[i]
  BY DEF Kept
<1>2. NatsTo(more, n) /\ NatsTo(less, n)
  BY SumOverNat
<1> HIDE DEF more, less
<1>3. SumTo(more, n) + less[c] = SumTo(less, n) + more[c]
  BY <1>1, <1>2, SumToChange
<1>4. SumTo(more, n) \in Nat /\ SumTo(less, n) \in Nat
  BY <1>2, SumToNat
<1>5. f[c] \in Nat
  BY DEF NatsTo
<1>6. SumTo(more, n) = SumTo(less, n) + f[c]
  BY <1>1, <1>3, <1>4, <1>5
<1> QED  BY <1>6 DEF SumOver, Kept, more, less

\* A sum over two parts is the sum of their sums.
LEMMA SumOverUnion ==
  ASSUME NEW f, NEW n \in Nat, NatsTo(f, n), NEW S, NEW T, T \subseteq 1..n, S \cap T = {}
  PROVE  SumOver(f, S \cup T, n) = SumOver(f, S, n) + SumOver(f, T, n)
<1> DEFINE Holds(k) == SumOver(f, S \cup Prefix(T, k), n) = SumOver(f, S, n) + SumOver(f, Prefix(T, k), n)
<1>0. PrefixGrows(T, n)
  BY PrefixesGrow
<1>1. SumOver(f, S, n) \in Nat /\ SumOver(f, {}, n) = 0
  BY SumOverNat, SumOverEmpty
<1>2. Prefix(T, 0) = {} /\ Prefix(T, n) = T
  BY <1>0 DEF PrefixGrows
<1>3. Holds(0)
  <2>1. S \cup Prefix(T, 0) = S
    BY <1>2
  <2>2. SumOver(f, S \cup Prefix(T, 0), n) = SumOver(f, S, n)
    BY <2>1
  <2>3. SumOver(f, Prefix(T, 0), n) = 0
    BY <1>1, <1>2
  <2> QED  BY <1>1, <2>2, <2>3
<1>4. ASSUME NEW k \in (0..n) \ {n}, Holds(k) PROVE Holds(k + 1)
  <2>1. /\ k + 1 \in 1..n /\ k + 1 \notin Prefix(T, k)
        /\ Prefix(T, k + 1) = IF k + 1 \in T THEN Prefix(T, k) \cup {k + 1} ELSE Prefix(T, k)
    BY <1>0 DEF PrefixGrows
  <2>2. CASE k + 1 \in T
    <3>1. k + 1 \notin S \cup Prefix(T, k) /\ (S \cup Prefix(T, k)) \cup {k + 1} = S \cup Prefix(T, k + 1)
      BY <2>1, <2>2
    <3>2. SumOver(f, (S \cup Prefix(T, k)) \cup {k + 1}, n) = SumOver(f, S \cup Prefix(T, k), n) + f[k + 1]
      BY <2>1, <3>1, SumOverAdd
    <3>3. SumOver(f, Prefix(T, k) \cup {k + 1}, n) = SumOver(f, Prefix(T, k), n) + f[k + 1]
      BY <2>1, SumOverAdd
    <3>4. SumOver(f, Prefix(T, k), n) \in Nat /\ f[k + 1] \in Nat
      BY <2>1, SumOverNat DEF NatsTo
    <3>5. SumOver(f, S \cup Prefix(T, k), n) = SumOver(f, S, n) + SumOver(f, Prefix(T, k), n)
      BY <1>4
    <3>6. Prefix(T, k + 1) = Prefix(T, k) \cup {k + 1}
      BY <2>1, <2>2
    <3> QED  BY SMTT(30), ZenonT(60), <1>1, <3>1, <3>2, <3>3, <3>4, <3>5, <3>6
  <2>3. CASE k + 1 \notin T
    <3>1. Prefix(T, k + 1) = Prefix(T, k)
      BY <2>1, <2>3
    <3> QED  BY <1>4, <3>1
  <2> QED  BY <2>2, <2>3
<1> HIDE DEF Holds
<1> DEFINE Good == {k \in 0..n : Holds(k)}
<1>5. 0 \in Good /\ \A k \in (0..n) \ {n} : k \in Good => k + 1 \in Good
  BY <1>3, <1>4
<1> HIDE DEF Good
<1>6. n \in Good
  BY <1>5, UpTo
<1>7. Holds(n)
  BY <1>6 DEF Good
<1> QED  BY <1>2, <1>7 DEF Holds

-----------------------------------------------------------------------------
(* Positions.                                                              *)

LEMMA EarliestIsLeast ==
  ASSUME NEW S, S \subseteq Nat, S # {}
  PROVE  Earliest(S) \in S /\ \A e \in S : Earliest(S) <= e
BY LeastNat DEF Earliest

\* next_geq(d) stands on the first posting at or after d, or at the end; no posting
\* between is jumped.
LEMMA FirstGeqBeyond ==
  ASSUME NEW c, Posted(c) \subseteq Docs, NEW d \in Nat
  PROVE  /\ FirstGeq(c, d) \in 0..NumDocs
         /\ FirstGeq(c, d) >= d \/ FirstGeq(c, d) = NumDocs
         /\ FirstGeq(c, d) < NumDocs => FirstGeq(c, d) \in Posted(c)
         /\ \A e \in Posted(c) : d <= e => FirstGeq(c, d) <= e
<1> DEFINE ahead == {p \in Posted(c) : p >= d} \cup {NumDocs}
<1>1. NumDocs \in Nat /\ \A p \in Posted(c) : p \in Nat /\ p < NumDocs
  BY NumDocsAssumption DEF Docs
<1>2. ahead \subseteq Nat /\ ahead # {}
  BY <1>1
<1>3. Earliest(ahead) \in ahead /\ \A e \in ahead : Earliest(ahead) <= e
  BY <1>2, EarliestIsLeast
<1>4. FirstGeq(c, d) = Earliest(ahead)
  BY DEF FirstGeq
<1> HIDE DEF ahead
<1>5. FirstGeq(c, d) \in ahead /\ \A e \in ahead : FirstGeq(c, d) <= e
  BY <1>3, <1>4
<1> QED  BY <1>1, <1>5 DEF ahead

\* The same of a target up to the end.
LEMMA FirstGeqIsNext ==
  ASSUME NEW c, Posted(c) \subseteq Docs, NEW d \in 0..NumDocs
  PROVE  /\ FirstGeq(c, d) \in 0..NumDocs
         /\ FirstGeq(c, d) >= d
         /\ FirstGeq(c, d) < NumDocs => FirstGeq(c, d) \in Posted(c)
         /\ \A e \in Posted(c) : d <= e => FirstGeq(c, d) <= e
<1>1. d \in Nat /\ d <= NumDocs
  BY NumDocsAssumption
<1> QED  BY <1>1, FirstGeqBeyond

\* Some place holds the largest of the first p values.
LEMMA LargestExists ==
  ASSUME NEW f, NEW p \in Nat, p # 0, \A i \in 1..p : f[i] \in Nat
  PROVE  \E i \in 1..p : \A j \in 1..p : f[j] <= f[i]
<1> DEFINE HasLargest(k) == \E i \in 1..k : \A j \in 1..k : f[j] <= f[i]
           Good == {k \in 0..p : k = 0 \/ HasLargest(k)}
<1>1. 0 \in Good
  OBVIOUS
<1>2. ASSUME NEW k \in (0..p) \ {p}, k \in Good PROVE k + 1 \in Good
  <2>1. k + 1 \in 0..p /\ k + 1 \in 1..p /\ f[k + 1] \in Nat /\ k + 1 \in 1..(k + 1) /\ k \in Nat
    OBVIOUS
  <2>2. \A j \in 1..(k + 1) : j = k + 1 \/ j \in 1..k
    BY <2>1
  <2>3. CASE k = 0
    <3>1. \A j \in 1..(k + 1) : j = k + 1 /\ f[j] <= f[k + 1]
      BY <2>1, <2>2, <2>3
    <3> QED  BY <2>1, <3>1
  <2>4. CASE k # 0
    <3>1. PICK i \in 1..k : \A j \in 1..k : f[j] <= f[i]
      BY <1>2, <2>4
    <3>2. i \in 1..(k + 1) /\ f[i] \in Nat
      BY <2>1
    <3>3. CASE f[k + 1] <= f[i]
      <4>1. \A j \in 1..(k + 1) : f[j] <= f[i]
        BY <2>2, <3>1, <3>3
      <4> QED  BY <2>1, <3>2, <4>1
    <3>4. CASE ~ (f[k + 1] <= f[i])
      <4>1. \A j \in 1..k : j \in 1..p /\ f[j] \in Nat
        BY <2>1
      <4>2. \A j \in 1..(k + 1) : f[j] <= f[k + 1]
        BY <2>1, <2>2, <3>1, <3>2, <3>4, <4>1
      <4> QED  BY <2>1, <4>2
    <3> QED  BY <3>3, <3>4
  <2> QED  BY <2>3, <2>4
<1> HIDE DEF Good
<1>3. p \in Good
  BY <1>1, <1>2, UpTo
<1> QED  BY <1>3 DEF Good

-----------------------------------------------------------------------------
(* The cursors of a query and the score of a document.                     *)

\* No other document is the next one.
LEMMA FirstGeqUnique ==
  ASSUME NEW c, Posted(c) \subseteq Docs, NEW d \in 0..NumDocs, NEW p \in 0..NumDocs,
         p >= d, p < NumDocs => p \in Posted(c), \A e \in Posted(c) : d <= e => p <= e
  PROVE  p = FirstGeq(c, d)
<1>1. /\ FirstGeq(c, d) \in 0..NumDocs
      /\ FirstGeq(c, d) >= d
      /\ FirstGeq(c, d) < NumDocs => FirstGeq(c, d) \in Posted(c)
      /\ \A e \in Posted(c) : d <= e => FirstGeq(c, d) <= e
  BY FirstGeqIsNext
<1>2. p \in Nat /\ d \in Nat /\ FirstGeq(c, d) \in Nat /\ NumDocs \in Nat
      /\ p <= NumDocs /\ FirstGeq(c, d) <= NumDocs
  BY <1>1, NumDocsAssumption
<1>3. p <= FirstGeq(c, d)
  BY <1>1, <1>2
<1>4. FirstGeq(c, d) <= p
  BY <1>1, <1>2
<1> QED  BY <1>2, <1>3, <1>4

LEMMA ContributionNat ==
  ASSUME NEW cs, Len(cs) \in Nat, \A i \in 1..Len(cs) : IsCursor(cs[i]), NEW d
  PROVE  /\ NatsTo(Contribution(cs, d), Len(cs))
         /\ \A i \in 1..Len(cs) :
              /\ Contribution(cs, d)[i] <= cs[i].max
              /\ d \notin Posted(cs[i]) => Contribution(cs, d)[i] = 0
<1> DEFINE f == Contribution(cs, d)
<1>1. ASSUME NEW i \in 1..Len(cs)
      PROVE  f[i] \in Nat /\ f[i] <= cs[i].max /\ (d \notin Posted(cs[i]) => f[i] = 0)
  <2>1. f[i] = IF d \in Posted(cs[i]) THEN cs[i].post[d] ELSE 0
    BY DEF Contribution
  <2>2. cs[i].max \in Nat /\ (d \in Posted(cs[i]) => cs[i].post[d] \in Nat /\ cs[i].post[d] <= cs[i].max)
    BY DEF IsCursor
  <2> HIDE DEF f
  <2> QED  BY <2>1, <2>2
<1> QED  BY <1>1 DEF NatsTo

\* The full score of a document is the sum over any lists that include all its own.
LEMMA FullScoreOver ==
  ASSUME NEW cs, Len(cs) \in Nat, \A i \in 1..Len(cs) : IsCursor(cs[i]), NEW d, NEW S,
         \A i \in 1..Len(cs) : d \in Posted(cs[i]) => i \in S
  PROVE  /\ SumOver(Contribution(cs, d), S, Len(cs)) = FullScore(cs, d)
         /\ FullScore(cs, d) \in Nat
<1> DEFINE f == Contribution(cs, d)
           n == Len(cs)
<1>1. NatsTo(f, n) /\ \A i \in 1..n : d \notin Posted(cs[i]) => f[i] = 0
  BY ContributionNat
<1> HIDE DEF f, n
<1>2. \A i \in 1..n : i \notin S => f[i] = 0
  BY <1>1 DEF n
<1>3. n \in Nat
  BY DEF n
<1>4. SumOver(f, S, n) = SumOver(f, 1..n, n)
  BY <1>1, <1>2, <1>3, SumOverSame
<1>5. SumOver(f, 1..n, n) = SumTo(f, n) /\ SumTo(f, n) \in Nat
  BY <1>1, <1>3, SumOverAll, SumToNat
<1> QED  BY <1>4, <1>5 DEF FullScore, f, n

-----------------------------------------------------------------------------
(* The bound over the first lists of an order.                             *)

IsAccumulation(g, cs, o, n, pairAware) ==
  g = [j \in 0..n |-> IF j = 0 THEN NoBound ELSE AddBound(g[j - 1], cs[o[j]], pairAware)]

LEMMA AccumulationExists ==
  ASSUME NEW cs, NEW o, NEW n \in Nat, NEW pairAware
  PROVE  \E g : IsAccumulation(g, cs, o, n, pairAware)
<1> DEFINE Bad == {m \in Nat : ~ \E g : IsAccumulation(g, cs, o, m, pairAware)}
<1>1. SUFFICES ASSUME Bad # {} PROVE FALSE
  OBVIOUS
<1>2. PICK m \in Bad : \A k \in Bad : m <= k
  BY <1>1, LeastNat
<1>3. CASE m = 0
  <2> DEFINE g == [j \in 0..0 |-> NoBound]
  <2>1. IsAccumulation(g, cs, o, 0, pairAware)
    BY DEF IsAccumulation
  <2> QED  BY <1>3, <2>1
<1>4. CASE m # 0
  <2>1. m - 1 \in Nat /\ m - 1 \notin Bad
    BY <1>2, <1>4
  <2>2. PICK g : IsAccumulation(g, cs, o, m - 1, pairAware)
    BY <2>1
  <2> DEFINE h == [j \in 0..m |-> IF j = m THEN AddBound(g[m - 1], cs[o[m]], pairAware) ELSE g[j]]
  <2>3. \A j \in 0..(m - 1) : g[j] = IF j = 0 THEN NoBound ELSE AddBound(g[j - 1], cs[o[j]], pairAware)
    BY <2>2 DEF IsAccumulation
  <2>4. \A j \in 0..m : h[j] = IF j = 0 THEN NoBound ELSE AddBound(h[j - 1], cs[o[j]], pairAware)
    BY <2>1, <2>3
  <2>5. IsAccumulation(h, cs, o, m, pairAware)
    BY <2>4 DEF IsAccumulation
  <2> QED  BY <2>5
<1> QED  BY <1>3, <1>4

LEMMA AccumulationsAgree ==
  ASSUME NEW cs, NEW o, NEW n \in Nat, NEW m \in Nat, n <= m, NEW pairAware,
         NEW g, IsAccumulation(g, cs, o, n, pairAware),
         NEW h, IsAccumulation(h, cs, o, m, pairAware),
         NEW k \in 0..n
  PROVE  g[k] = h[k]
<1> DEFINE Bad == {i \in 0..n : g[i] # h[i]}
<1>1. SUFFICES ASSUME Bad # {} PROVE FALSE
  OBVIOUS
<1>2. PICK i \in Bad : \A j \in Bad : i <= j
  <2>1. Bad \subseteq Nat
    OBVIOUS
  <2> QED BY <1>1, <2>1, LeastNat
<1>3. /\ g[i] = IF i = 0 THEN NoBound ELSE AddBound(g[i - 1], cs[o[i]], pairAware)
      /\ h[i] = IF i = 0 THEN NoBound ELSE AddBound(h[i - 1], cs[o[i]], pairAware)
  BY DEF IsAccumulation
<1>4. i # 0 => i - 1 \in 0..n /\ i - 1 \notin Bad
  BY <1>2
<1> QED  BY <1>3, <1>4

LEMMA AccumulatedIs ==
  ASSUME NEW cs, NEW o, NEW n \in Nat, NEW pairAware,
         NEW g, IsAccumulation(g, cs, o, n, pairAware)
  PROVE  Accumulated(cs, o, n, pairAware) = g[n]
<1> DEFINE h == CHOOSE h : IsAccumulation(h, cs, o, n, pairAware)
<1>1. IsAccumulation(h, cs, o, n, pairAware)
  OBVIOUS
<1>2. Accumulated(cs, o, n, pairAware) = h[n]
  BY DEF Accumulated, IsAccumulation
<1> HIDE DEF h
<1> QED  BY <1>1, <1>2, AccumulationsAgree

\* Each list adds its bound to that of the lists before it.
LEMMA AccumulatedStep ==
  ASSUME NEW cs, NEW o, NEW pairAware
  PROVE  /\ Accumulated(cs, o, 0, pairAware) = NoBound
         /\ \A k \in Nat : Accumulated(cs, o, k + 1, pairAware)
                             = AddBound(Accumulated(cs, o, k, pairAware), cs[o[k + 1]], pairAware)
<1>1. Accumulated(cs, o, 0, pairAware) = NoBound
  <2>1. PICK g : IsAccumulation(g, cs, o, 0, pairAware)
    BY AccumulationExists
  <2>2. g[0] = NoBound
    BY <2>1 DEF IsAccumulation
  <2> QED  BY <2>1, <2>2, AccumulatedIs
<1>2. ASSUME NEW k \in Nat
      PROVE  Accumulated(cs, o, k + 1, pairAware)
               = AddBound(Accumulated(cs, o, k, pairAware), cs[o[k + 1]], pairAware)
  <2>0. k + 1 \in Nat
    OBVIOUS
  <2>1. PICK g : IsAccumulation(g, cs, o, k + 1, pairAware)
    BY <2>0, AccumulationExists
  <2>2. PICK h : IsAccumulation(h, cs, o, k, pairAware)
    BY AccumulationExists
  <2>3. g[k + 1] = AddBound(g[k], cs[o[k + 1]], pairAware)
    BY <2>1 DEF IsAccumulation
  <2>4. h[k] = g[k]
    BY <2>1, <2>2, AccumulationsAgree
  <2> QED  BY <2>1, <2>2, <2>3, <2>4, AccumulatedIs
<1> QED  BY <1>1, <1>2

\* The bound `sum`, accumulated over the lists S, covers what d scores in them, and
\* leaves room for subtracting the low bound of a list whose bit it remembers.
BoundCovers(cs, d, S, sum, pairAware) ==
  LET score == SumOver(Contribution(cs, d), S, Len(cs))
  IN  /\ sum = [bound |-> sum.bound, seen |-> sum.seen]
      /\ sum.bound \in Nat
      /\ \A b1, b2 \in sum.seen : b1 = b2
      /\ score <= sum.bound
      /\ \A c \in (1..Len(cs)) \ S :
           pairAware /\ cs[c].id % WordBits \in sum.seen /\ d \in Posted(cs[c])
             => score + cs[c].low <= sum.bound

\* One list more, in whichever order the two lists of a pair come.
LEMMA AddBoundCovers ==
  ASSUME NEW cs, IsQuery(cs), NEW pairAware, pairAware => PairBoundsHold(cs),
         NEW d, NEW S, NEW sum, BoundCovers(cs, d, S, sum, pairAware),
         NEW c \in 1..Len(cs), c \notin S
  PROVE  BoundCovers(cs, d, S \cup {c}, AddBound(sum, cs[c], pairAware), pairAware)
<1> DEFINE n == Len(cs)
           f == Contribution(cs, d)
           before == SumOver(f, S, n)
           after == SumOver(f, S \cup {c}, n)
           next == AddBound(sum, cs[c], pairAware)
           bit(i) == cs[i].id % WordBits
<1>1. /\ n \in Nat /\ NatsTo(f, n)
      /\ \A i \in 1..n : f[i] <= cs[i].max /\ (d \notin Posted(cs[i]) => f[i] = 0)
  BY ContributionNat DEF IsQuery
<1>2. /\ f[c] \in Nat /\ f[c] <= cs[c].max /\ (d \notin Posted(cs[c]) => f[c] = 0)
      /\ \A i \in 1..n : cs[i].max \in Nat /\ cs[i].low \in Nat
  BY <1>1 DEF NatsTo, IsQuery, IsCursor
<1> HIDE DEF f
<1>3. before \in Nat /\ after = before + f[c]
  BY <1>1, SumOverNat, SumOverAdd
<1>4. /\ sum = [bound |-> sum.bound, seen |-> sum.seen]
      /\ sum.bound \in Nat
      /\ \A b1, b2 \in sum.seen : b1 = b2
      /\ before <= sum.bound
      /\ \A i \in (1..n) \ S :
           pairAware /\ bit(i) \in sum.seen /\ d \in Posted(cs[i]) => before + cs[i].low <= sum.bound
  BY DEF BoundCovers, f
<1>5. SUFFICES /\ next = [bound |-> next.bound, seen |-> next.seen]
               /\ next.bound \in Nat
               /\ \A b1, b2 \in next.seen : b1 = b2
               /\ after <= next.bound
               /\ \A i \in (1..n) \ (S \cup {c}) :
                    pairAware /\ bit(i) \in next.seen /\ d \in Posted(cs[i])
                      => after + cs[i].low <= next.bound
  BY DEF BoundCovers, f
<1>6. ASSUME pairAware, NEW i \in 1..n, i # c, bit(i) = bit(c), d \in Posted(cs[i])
      PROVE  cs[i].low = cs[c].low /\ d \notin Posted(cs[c])
  BY <1>6 DEF PairBoundsHold
<1>7. pairAware => cs[c].low <= cs[c].max
  BY DEF PairBoundsHold
<1> HIDE DEF before, after
<1>8. CASE pairAware /\ bit(c) \in sum.seen
  <2>1. next = [sum EXCEPT !.bound = @ + cs[c].max - cs[c].low]
    BY <1>8 DEF AddBound
  <2>2. next = [bound |-> sum.bound + cs[c].max - cs[c].low, seen |-> sum.seen]
    BY <1>4, <2>1
  <2> HIDE DEF next
  <2>3. next.bound = sum.bound + cs[c].max - cs[c].low /\ next.seen = sum.seen
    BY <2>2
  <2>4. next.bound \in Nat /\ sum.bound <= next.bound
    BY <1>2, <1>4, <1>7, <1>8, <2>3
  <2>5. after <= next.bound
    <3>1. CASE d \in Posted(cs[c])
      <4>1. before + cs[c].low <= sum.bound
        BY <1>4, <1>8, <3>1
      <4> QED  BY <1>2, <1>3, <1>4, <2>3, <4>1
    <3>2. CASE d \notin Posted(cs[c])
      BY <1>2, <1>3, <1>4, <2>4, <3>2
    <3> QED  BY <3>1, <3>2
  <2>6. ASSUME NEW i \in (1..n) \ (S \cup {c}), bit(i) \in next.seen, d \in Posted(cs[i])
        PROVE  after + cs[i].low <= next.bound
    <3>1. bit(i) = bit(c)
      BY <1>4, <1>8, <2>3, <2>6
    <3>2. f[c] = 0
      BY <1>2, <1>6, <1>8, <2>6, <3>1
    <3>3. before + cs[i].low <= sum.bound
      BY <1>4, <1>8, <2>3, <2>6
    <3> QED  BY <1>2, <1>3, <1>4, <2>4, <3>2, <3>3
  <2> QED  BY <1>4, <2>2, <2>3, <2>4, <2>5, <2>6
<1>9. CASE ~ (pairAware /\ bit(c) \in sum.seen)
  <2>1. next = [bound |-> sum.bound + cs[c].max, seen |-> {bit(c)}]
    BY <1>9 DEF AddBound
  <2> HIDE DEF next
  <2>2. next.bound = sum.bound + cs[c].max /\ next.seen = {bit(c)}
    BY <2>1
  <2>3. next.bound \in Nat /\ after <= next.bound
    BY <1>2, <1>3, <1>4, <2>2
  <2>4. ASSUME pairAware, NEW i \in (1..n) \ (S \cup {c}), bit(i) \in next.seen, d \in Posted(cs[i])
        PROVE  after + cs[i].low <= next.bound
    <3>1. f[c] = 0 /\ cs[i].low = cs[c].low
      BY <1>2, <1>6, <2>2, <2>4
    <3> QED  BY <1>2, <1>3, <1>4, <1>7, <2>2, <2>4, <3>1
  <2> QED  BY <2>1, <2>2, <2>3, <2>4
<1> QED  BY <1>8, <1>9

\* The bound over the first lists of an order covers what a document scores in them.
LEMMA AccumulatedCoversPart ==
  ASSUME NEW cs, IsQuery(cs), NEW pairAware, pairAware => PairBoundsHold(cs),
         NEW m \in Nat, NEW o, \A j \in 1..m : o[j] \in 1..Len(cs),
         \A i, j \in 1..m : i # j => o[i] # o[j], NEW d
  PROVE  /\ Accumulated(cs, o, m, pairAware).bound \in Nat
         /\ SumOver(Contribution(cs, d), {o[j] : j \in 1..m}, Len(cs))
              <= Accumulated(cs, o, m, pairAware).bound
<1> DEFINE First(k) == {o[j] : j \in 1..k}
           A(k) == Accumulated(cs, o, k, pairAware)
           Bad == {k \in 0..m : ~ BoundCovers(cs, d, First(k), A(k), pairAware)}
<1>1. BoundCovers(cs, d, First(0), A(0), pairAware)
  <2>1. First(0) = {} /\ A(0) = [bound |-> 0, seen |-> {}]
    BY AccumulatedStep DEF NoBound
  <2>2. SumOver(Contribution(cs, d), {}, Len(cs)) = 0
    BY ContributionNat, SumOverEmpty DEF IsQuery
  <2>3. BoundCovers(cs, d, {}, [bound |-> 0, seen |-> {}], pairAware)
    BY <2>2 DEF BoundCovers
  <2> HIDE DEF First, A
  <2> QED  BY <2>1, <2>3
<1>2. ASSUME NEW k \in 0..m, k # m, BoundCovers(cs, d, First(k), A(k), pairAware)
      PROVE  BoundCovers(cs, d, First(k + 1), A(k + 1), pairAware)
  <2>1. k + 1 \in 1..m /\ k \in Nat
    BY <1>2
  <2>2. o[k + 1] \in 1..Len(cs) /\ o[k + 1] \notin First(k)
    BY <2>1
  <2>3. First(k + 1) = First(k) \cup {o[k + 1]}
    BY <2>1
  <2>4. A(k + 1) = AddBound(A(k), cs[o[k + 1]], pairAware)
    BY <2>1, AccumulatedStep
  <2> HIDE DEF First, A
  <2>5. BoundCovers(cs, d, First(k) \cup {o[k + 1]}, AddBound(A(k), cs[o[k + 1]], pairAware), pairAware)
    BY <1>2, <2>2, AddBoundCovers
  <2> QED  BY <2>3, <2>4, <2>5
<1>3. BoundCovers(cs, d, First(m), A(m), pairAware)
  <2> HIDE DEF First, A
  <2>1. SUFFICES ASSUME Bad # {} PROVE FALSE
    BY DEF Bad
  <2>2. Bad \subseteq Nat
    OBVIOUS
  <2>3. PICK k \in Bad : \A l \in Bad : k <= l
    BY <2>1, <2>2, LeastNat
  <2>4. k # 0
    BY <1>1, <2>3
  <2>5. k - 1 \in 0..m /\ k - 1 # m /\ k - 1 \notin Bad /\ (k - 1) + 1 = k
    BY <2>3, <2>4
  <2> QED  BY <1>2, <2>3, <2>5
<1> HIDE DEF First, A
<1>4. A(m).bound \in Nat /\ SumOver(Contribution(cs, d), First(m), Len(cs)) <= A(m).bound
  BY <1>3 DEF BoundCovers
<1> QED  BY <1>4 DEF A, First

\* It covers every document that has no posting in the others.
LEMMA AccumulatedCovers ==
  ASSUME NEW cs, IsQuery(cs), NEW pairAware, pairAware => PairBoundsHold(cs),
         NEW m \in Nat, NEW o, \A j \in 1..m : o[j] \in 1..Len(cs),
         \A i, j \in 1..m : i # j => o[i] # o[j],
         NEW d, \A c \in 1..Len(cs) : d \in Posted(cs[c]) => \E j \in 1..m : o[j] = c
  PROVE  /\ Accumulated(cs, o, m, pairAware).bound \in Nat
         /\ FullScore(cs, d) <= Accumulated(cs, o, m, pairAware).bound
<1> DEFINE S == {o[j] : j \in 1..m}
<1>1. \A i \in 1..Len(cs) : d \in Posted(cs[i]) => i \in S
  OBVIOUS
<1>2. /\ Accumulated(cs, o, m, pairAware).bound \in Nat
      /\ SumOver(Contribution(cs, d), S, Len(cs)) <= Accumulated(cs, o, m, pairAware).bound
  BY AccumulatedCoversPart
<1> HIDE DEF S
<1>3. SumOver(Contribution(cs, d), S, Len(cs)) = FullScore(cs, d)
  BY <1>1, FullScoreOver DEF IsQuery
<1> QED  BY <1>2, <1>3

-----------------------------------------------------------------------------
(* The threshold a heap is primed with.                                    *)

\* It is one of the thresholds the cursors promise, or zero.
LEMMA PrimedIsOffered ==
  ASSUME NEW cs, IsQuery(cs), NEW k
  PROVE  \/ PrimedThreshold(cs, k) = 0
         \/ \E i \in 1..Len(cs) : PrimedThreshold(cs, k) = SafeThreshold(cs[i], k)
<1> DEFINE offer(i) == SafeThreshold(cs[i], k)
           n == Len(cs)
           offers(m) == {offer(i) : i \in 1..m} \cup {0}
           HasBest(m) == \E t \in offers(m) : \A u \in offers(m) : u <= t
           Bad == {m \in 0..n : ~ HasBest(m)}
<1>1. n \in Nat /\ DOMAIN cs = 1..n /\ \A i \in 1..n : offer(i) \in Nat
  BY DEF IsQuery, IsCursor, SafeThreshold
<1> HIDE DEF offer, n
<1>2. Bad = {}
  <2>1. SUFFICES ASSUME Bad # {} PROVE FALSE
    OBVIOUS
  <2>2. Bad \subseteq Nat
    BY <1>1
  <2>3. PICK m \in Bad : \A l \in Bad : m <= l
    BY <2>1, <2>2, LeastNat
  <2>4. m # 0
    OBVIOUS
  <2>5. m - 1 \in 0..n /\ HasBest(m - 1)
    <3> HIDE DEF HasBest
    <3>1. m \in 0..n /\ m - 1 \in 0..n
      BY <1>1, <2>4
    <3> QED  BY <2>3, <3>1
  <2>6. PICK t \in offers(m - 1) : \A u \in offers(m - 1) : u <= t
    BY <2>5
  <2>7. t \in Nat /\ offer(m) \in Nat
    BY <1>1, <2>4, <2>5
  <2>8. offers(m) = offers(m - 1) \cup {offer(m)}
    BY <1>1, <2>4
  <2>9. CASE offer(m) <= t
    BY <2>6, <2>7, <2>8, <2>9
  <2>10. CASE t <= offer(m)
    <3>1. \A u \in offers(m - 1) : u \in Nat
      BY <1>1, <2>5
    <3> HIDE DEF offers
    <3>2. \A u \in offers(m) : u <= offer(m)
      BY <2>6, <2>7, <2>8, <2>10, <3>1
    <3> QED  BY <2>8, <3>2
  <2> QED  BY <2>7, <2>9, <2>10
<1>3. HasBest(n)
  <2> HIDE DEF HasBest
  <2> QED  BY <1>1, <1>2
<1>4. PrimedThreshold(cs, k) = CHOOSE t \in offers(n) : \A u \in offers(n) : u <= t
  BY <1>1 DEF PrimedThreshold, offer
<1>5. PrimedThreshold(cs, k) \in offers(n)
  BY <1>3, <1>4
<1> QED  BY <1>5 DEF offer, n

\* At least k documents beat it.
LEMMA PrimedThresholdSound ==
  ASSUME NEW cs, IsQuery(cs), PrimingHolds(cs), NEW k \in Nat \ {0}
  PROVE  /\ PrimedThreshold(cs, k) \in Nat
         /\ \/ PrimedThreshold(cs, k) = 0
            \/ Cardinality({d \in Docs : FullScore(cs, d) > PrimedThreshold(cs, k)}) >= k
<1> DEFINE t == PrimedThreshold(cs, k)
<1>1. SUFFICES ASSUME t # 0
               PROVE  t \in Nat /\ Cardinality({d \in Docs : FullScore(cs, d) > t}) >= k
  OBVIOUS
<1>2. PICK i \in 1..Len(cs) : t = SafeThreshold(cs[i], k)
  BY <1>1, PrimedIsOffered
<1>3. t = cs[i].low /\ k <= cs[i].short /\ cs[i].low \in Nat /\ cs[i].short \in Nat
  BY <1>1, <1>2 DEF SafeThreshold, IsQuery, IsCursor
<1>4. Cardinality({d \in Docs : FullScore(cs, d) > t}) >= cs[i].short
  BY <1>1, <1>3 DEF PrimingHolds
<1>5. Cardinality({d \in Docs : FullScore(cs, d) > t}) \in Nat
  <2>1. IsFiniteSet(Docs)
    BY NumDocsAssumption, FS_Interval DEF Docs
  <2> QED  BY <2>1, FS_Subset, FS_CardinalityType
<1> HIDE DEF t
<1> QED  BY <1>3, <1>4, <1>5

-----------------------------------------------------------------------------
(* Orders of the cursors, by the documents they stand on.                  *)

\* The values of v never fall from one place to the next.
Ascends(N, v) == \A i, k \in 1..N : i < k => v[i] <= v[k]

\* The value at place j moves up to place m, and those between move down by one.
MovesUp(N, v, w, j, m) ==
  \A i \in 1..N : w[i] = IF i < j \/ i > m THEN v[i]
                         ELSE IF i = m THEN v[j] ELSE v[i + 1]

\* The value at place j overtakes those up to place m, its equals as may be.
Overtakes(N, v, j, m) ==
  /\ \A i \in (j + 1)..m : v[i] <= v[j]
  /\ m < N => v[m + 1] >= v[j]

\* Only the value at place j differs, and it is not lower.
RaisedAt(N, u, v, j) ==
  /\ \A i \in 1..N : i # j => v[i] = u[i]
  /\ v[j] >= u[j]

\* The order o names each of the positions 1..N once.
IsOrder(N, o) ==
  /\ \A i \in 1..N : o[i] \in 1..N
  /\ \A i, k \in 1..N : i # k => o[i] # o[k]

\* It comes to a stop, before its equals or behind them.
LEMMA StopExists ==
  ASSUME NEW N \in Nat, NEW j \in 1..N, NEW v \in [1..N -> Nat]
  PROVE  /\ \E m \in j..N : /\ \A i \in (j + 1)..m : v[i] < v[j]
                            /\ m < N => v[m + 1] >= v[j]
         /\ \E m \in j..N : /\ \A i \in (j + 1)..m : v[i] <= v[j]
                            /\ m < N => v[m + 1] > v[j]
<1> DEFINE Before == {m \in j..N : m < N => v[m + 1] >= v[j]}
           Behind == {m \in j..N : m < N => v[m + 1] > v[j]}
<1>1. Before \subseteq Nat /\ N \in Before /\ Behind \subseteq Nat /\ N \in Behind
  OBVIOUS
<1>2. PICK m \in Before : \A k \in Before : m <= k
  BY <1>1, LeastNat
<1>3. ASSUME NEW i \in (j + 1)..m PROVE v[i] < v[j]
  <2>1. i - 1 \in j..N /\ i - 1 \notin Before
    BY <1>2
  <2>2. i - 1 < N /\ ~ (v[(i - 1) + 1] >= v[j]) /\ (i - 1) + 1 = i
    BY <2>1
  <2>3. v[i] \in Nat /\ v[j] \in Nat
    BY <2>1
  <2> QED  BY <2>2, <2>3
<1>4. PICK l \in Behind : \A k \in Behind : l <= k
  BY <1>1, LeastNat
<1>5. ASSUME NEW i \in (j + 1)..l PROVE v[i] <= v[j]
  <2>1. i - 1 \in j..N /\ i - 1 \notin Behind
    BY <1>4
  <2>2. i - 1 < N /\ ~ (v[(i - 1) + 1] > v[j]) /\ (i - 1) + 1 = i
    BY <2>1
  <2>3. v[i] \in Nat /\ v[j] \in Nat
    BY <2>1
  <2> QED  BY <2>2, <2>3
<1> QED  BY <1>2, <1>3, <1>4, <1>5

LEMMA MovedUpSorts ==
  ASSUME NEW N \in Nat, NEW u \in [1..N -> Nat], NEW v \in [1..N -> Nat], NEW w,
         NEW j \in 1..N, NEW m \in j..N,
         Ascends(N, u), RaisedAt(N, u, v, j), Overtakes(N, v, j, m), MovesUp(N, v, w, j, m)
  PROVE  Ascends(N, w)
<1> SUFFICES ASSUME NEW i \in 1..N, NEW k \in 1..N, i < k
             PROVE  w[i] <= w[k]
  BY DEF Ascends
<1> USE DEF Ascends, RaisedAt, Overtakes, MovesUp
<1>1. /\ j \in Nat /\ m \in Nat /\ j <= m /\ m <= N /\ 1 <= j
      /\ \A c \in 1..N : u[c] \in Nat /\ v[c] \in Nat
  OBVIOUS
<1>2. CASE i > m
  BY <1>1, <1>2
<1>3. CASE i = m
  <2>1. m + 1 \in 1..N /\ m < N /\ w[i] = v[j] /\ w[k] = v[k]
    BY SMTT(30), ZenonT(60), <1>1, <1>3
  <2>2. v[m + 1] <= v[k]
    BY SMTT(30), ZenonT(60), <1>1, <1>3, <2>1
  <2> QED  BY <1>1, <2>1, <2>2
<1>4. CASE i >= j /\ i < m
  <2>1. w[i] = v[i + 1] /\ i + 1 \in (j + 1)..m /\ i + 1 \in 1..N
    BY <1>1, <1>4
  <2>2. CASE k < m
    <3>1. w[k] = v[k + 1] /\ k + 1 \in 1..N
      BY <1>1, <1>4, <2>2
    <3>2. i + 1 # j /\ k + 1 # j /\ i + 1 < k + 1
      BY <1>1, <1>4
    <3>3. v[i + 1] = u[i + 1] /\ v[k + 1] = u[k + 1] /\ u[i + 1] <= u[k + 1]
      BY <2>1, <3>1, <3>2
    <3> QED  BY <2>1, <3>1, <3>3
  <2>3. CASE k = m
    <3>1. v[i + 1] <= v[j] /\ w[k] = v[j]
      BY <1>1, <2>1, <2>3
    <3> QED  BY <1>1, <2>1, <3>1
  <2>4. CASE k > m
    <3>1. w[k] = v[k] /\ i + 1 < k /\ i + 1 # j /\ k # j
      BY <1>1, <1>4, <2>4
    <3>2. v[i + 1] = u[i + 1] /\ v[k] = u[k] /\ u[i + 1] <= u[k]
      BY <2>1, <3>1
    <3> QED  BY <2>1, <3>1, <3>2
  <2> QED  BY <1>1, <2>2, <2>3, <2>4
<1>5. CASE i < j
  <2>1. w[i] = u[i]
    BY <1>1, <1>5
  <2>2. CASE k >= j /\ k < m
    <3>1. w[k] = v[k + 1] /\ k + 1 \in 1..N /\ k + 1 # j /\ i < k + 1
      BY <1>1, <1>5, <2>2
    <3>2. v[k + 1] = u[k + 1] /\ u[i] <= u[k + 1]
      BY <1>5, <3>1
    <3> QED  BY <2>1, <3>1, <3>2
  <2>3. CASE k < j \/ k >= m
    BY <1>1, <1>5, <2>1, <2>3
  <2> QED  BY <1>1, <2>2, <2>3
<1> QED  BY <1>1, <1>2, <1>3, <1>4, <1>5

LEMMA MovedUpIsOrder ==
  ASSUME NEW N \in Nat, NEW ord, IsOrder(N, ord), NEW o, NEW j \in 1..N, NEW m \in j..N,
         MovesUp(N, ord, o, j, m)
  PROVE  IsOrder(N, o)
<1> DEFINE from(i) == IF i < j \/ i > m THEN i ELSE IF i = m THEN j ELSE i + 1
<1>1. \A i \in 1..N : from(i) \in 1..N
  OBVIOUS
<1>2. \A i, k \in 1..N : i # k => from(i) # from(k)
  OBVIOUS
<1>3. \A i \in 1..N : o[i] = ord[from(i)]
  BY DEF MovesUp
<1> HIDE DEF from
<1> QED  BY <1>1, <1>2, <1>3 DEF IsOrder

\* The functions from places to what stands there.
LEMMA AtPlaces ==
  ASSUME NEW N \in Nat, NEW ord, \A i \in 1..N : ord[i] \in 1..N,
         NEW p \in [1..N -> 0..NumDocs]
  PROVE  [i \in 1..N |-> p[ord[i]]] \in [1..N -> Nat]
<1>1. \A x \in 0..NumDocs : x \in Nat
  BY NumDocsAssumption
<1>2. \A c \in 1..N : p[c] \in 0..NumDocs
  OBVIOUS
<1>3. \A i \in 1..N : p[ord[i]] \in Nat
  BY <1>1, <1>2
<1> QED  BY <1>3

LEMMA OvertakenAtPlaces ==
  ASSUME NEW N \in Nat, NEW ord, NEW p, NEW j \in 1..N, NEW m \in j..N
  PROVE  Overtakes(N, [i \in 1..N |-> p[ord[i]]], j, m)
         <=> /\ \A i \in (j + 1)..m : p[ord[i]] <= p[ord[j]]
             /\ m < N => p[ord[m + 1]] >= p[ord[j]]
<1> DEFINE v == [i \in 1..N |-> p[ord[i]]]
<1>1. \A i \in 1..N : v[i] = p[ord[i]]
  OBVIOUS
<1>2. \A i \in (j + 1)..m : i \in 1..N
  OBVIOUS
<1>3. m < N => m + 1 \in 1..N
  OBVIOUS
<1> HIDE DEF v
<1>4. Overtakes(N, v, j, m) 
      <=> /\ \A i \in (j + 1)..m : p[ord[i]] <= p[ord[j]]
          /\ m < N => p[ord[m + 1]] >= p[ord[j]]
  BY <1>1, <1>2, <1>3 DEF Overtakes
<1> QED  BY <1>4 DEF v

LEMMA StopAtPlaces ==
  ASSUME NEW N \in Nat, NEW ord, \A i \in 1..N : ord[i] \in 1..N,
         NEW p \in [1..N -> 0..NumDocs], NEW j \in 1..N
  PROVE  /\ \E m \in j..N : /\ \A i \in (j + 1)..m : p[ord[i]] < p[ord[j]]
                            /\ m < N => p[ord[m + 1]] >= p[ord[j]]
         /\ \E m \in j..N : /\ \A i \in (j + 1)..m : p[ord[i]] <= p[ord[j]]
                            /\ m < N => p[ord[m + 1]] > p[ord[j]]
<1> DEFINE v == [i \in 1..N |-> p[ord[i]]]
<1>1. \A i \in 1..N : v[i] = p[ord[i]]
  OBVIOUS
<1>2. v \in [1..N -> Nat]
  BY AtPlaces
<1> HIDE DEF v
<1>3. /\ \E m \in j..N : /\ \A i \in (j + 1)..m : v[i] < v[j]
                         /\ m < N => v[m + 1] >= v[j]
      /\ \E m \in j..N : /\ \A i \in (j + 1)..m : v[i] <= v[j]
                         /\ m < N => v[m + 1] > v[j]
  BY <1>2, StopExists
<1>4. \A m \in j..N : (\A i \in (j + 1)..m : i \in 1..N) /\ (m < N => m + 1 \in 1..N)
  OBVIOUS
<1> QED  BY <1>1, <1>3, <1>4

LEMMA MovedAtPlaces ==
  ASSUME NEW N \in Nat, NEW ord, NEW o, NEW p, NEW j \in 1..N, NEW m \in j..N,
         MovesUp(N, ord, o, j, m)
  PROVE  MovesUp(N, [i \in 1..N |-> p[ord[i]]], [i \in 1..N |-> p[o[i]]], j, m)
<1> SUFFICES ASSUME NEW i \in 1..N
             PROVE  p[o[i]] = IF i < j \/ i > m THEN p[ord[i]]
                              ELSE IF i = m THEN p[ord[j]] ELSE p[ord[i + 1]]
  <2>1. \A i \in 1..N : ~ (i < j \/ i > m) /\ i # m => i + 1 \in 1..N
    OBVIOUS
  <2> QED  BY <2>1 DEF MovesUp
<1> QED  BY DEF MovesUp

LEMMA BubbledSorts ==
  ASSUME NEW N \in Nat, NEW ord, NEW o,
         IsOrder(N, ord),
         NEW p \in [1..N -> 0..NumDocs], NEW q \in [1..N -> 0..NumDocs],
         NEW j \in 1..N, NEW m \in j..N,
         Ascends(N, [i \in 1..N |-> p[ord[i]]]),
         \A c \in 1..N : c # ord[j] => q[c] = p[c], q[ord[j]] >= p[ord[j]],
         Overtakes(N, [i \in 1..N |-> q[ord[i]]], j, m),
         MovesUp(N, ord, o, j, m)
  PROVE  Ascends(N, [i \in 1..N |-> q[o[i]]])
<1> DEFINE u == [i \in 1..N |-> p[ord[i]]]
           v == [i \in 1..N |-> q[ord[i]]]
           w == [i \in 1..N |-> q[o[i]]]
<1>0. \A i \in 1..N : ord[i] \in 1..N
  BY DEF IsOrder
<1>1. RaisedAt(N, u, v, j)
  BY DEF RaisedAt, IsOrder
<1>2. MovesUp(N, v, w, j, m)
  BY MovedAtPlaces
<1>3. u \in [1..N -> Nat] /\ v \in [1..N -> Nat]
  BY SMTT(30), ZenonT(60), <1>0, AtPlaces
<1>4. Ascends(N, u) /\ Overtakes(N, v, j, m)
  OBVIOUS
<1> HIDE DEF u, v, w
<1>5. Ascends(N, w)
  BY <1>1, <1>2, <1>3, <1>4, MovedUpSorts
<1> QED  BY <1>5 DEF w

LEMMA OrderIsOnto ==
  ASSUME NEW N \in Nat, NEW o, IsOrder(N, o)
  PROVE  \A c \in 1..N : \E i \in 1..N : o[i] = c
<1> DEFINE f == [i \in 1..N |-> o[i]]
<1>1. f \in Injection(1..N, 1..N)
  BY DEF IsOrder, Injection, IsInjective
<1>2. IsFiniteSet(1..N)
  BY FS_Interval
<1>3. f \in Surjection(1..N, 1..N)
  BY <1>1, <1>2, FS_Injection
<1>4. \A c \in 1..N : \E i \in 1..N : f[i] = c
  BY <1>3 DEF Surjection
<1> QED  BY <1>4

\* What the lists at some places of an order score is what those lists score.
LEMMA SumOverPlaces ==
  ASSUME NEW f, NEW n \in Nat, NatsTo(f, n), NEW o, IsOrder(n, o), NEW T, T \subseteq 1..n
  PROVE  SumOver([j \in 1..n |-> f[o[j]]], T, n) = SumOver(f, {o[j] : j \in T}, n)
<1> DEFINE g == [j \in 1..n |-> f[o[j]]]
           Image(k) == {o[j] : j \in Prefix(T, k)}
           Holds(k) == SumOver(g, Prefix(T, k), n) = SumOver(f, Image(k), n)
           Good == {k \in 0..n : Holds(k)}
<1>0. PrefixGrows(T, n)
  BY PrefixesGrow
<1>1. NatsTo(g, n)
  BY DEF NatsTo, IsOrder
<1>2. \A j \in 1..n : g[j] = f[o[j]]
  OBVIOUS
<1> HIDE DEF g
<1>3. SumOver(f, {}, n) = 0 /\ SumOver(g, {}, n) = 0
  BY <1>1, SumOverEmpty
<1>4. Prefix(T, 0) = {} /\ Prefix(T, n) = T
  BY <1>0 DEF PrefixGrows
<1>5. Image(0) = {} /\ Image(n) = {o[j] : j \in T}
  <2> QED  BY <1>4
<1>6. Holds(0)
  <2> HIDE DEF Image
  <2> QED  BY <1>3, <1>4, <1>5
<1>7. ASSUME NEW k \in (0..n) \ {n}, Holds(k) PROVE Holds(k + 1)
  <2>1. /\ Prefix(T, k) \subseteq 1..n /\ k + 1 \in 1..n /\ k + 1 \notin Prefix(T, k)
        /\ Prefix(T, k + 1) = IF k + 1 \in T THEN Prefix(T, k) \cup {k + 1} ELSE Prefix(T, k)
    BY <1>0 DEF PrefixGrows
  <2>2. CASE k + 1 \in T
    <3>1. Prefix(T, k + 1) = Prefix(T, k) \cup {k + 1}
      BY <2>1, <2>2
    <3>2. Image(k + 1) = Image(k) \cup {o[k + 1]} /\ o[k + 1] \notin Image(k) /\ o[k + 1] \in 1..n
      BY <2>1, <3>1 DEF IsOrder
    <3> HIDE DEF Image
    <3>3. SumOver(f, Image(k) \cup {o[k + 1]}, n) = SumOver(f, Image(k), n) + f[o[k + 1]]
      BY <3>2, SumOverAdd
    <3>4. SumOver(g, Prefix(T, k) \cup {k + 1}, n) = SumOver(g, Prefix(T, k), n) + g[k + 1]
      BY <1>1, <2>1, SumOverAdd
    <3> QED  BY <1>2, <1>7, <2>1, <3>1, <3>2, <3>3, <3>4
  <2>3. CASE k + 1 \notin T
    <3>1. Prefix(T, k + 1) = Prefix(T, k)
      BY <2>1, <2>3
    <3>2. Image(k + 1) = Image(k)
      BY <3>1
    <3> HIDE DEF Image
    <3> QED  BY <1>7, <3>1, <3>2
  <2> QED  BY <2>2, <2>3
<1> HIDE DEF Holds
<1>8. 0 \in Good /\ \A k \in (0..n) \ {n} : k \in Good => k + 1 \in Good
  BY <1>6, <1>7
<1> HIDE DEF Good
<1>9. n \in Good
  BY <1>8, UpTo
<1>10. Holds(n)
  BY <1>9 DEF Good
<1> HIDE DEF Image
<1> QED  BY <1>4, <1>5, <1>10 DEF Holds, g

\* The sum over the first positions.
LEMMA SumOverFirst ==
  ASSUME NEW f, NEW n \in Nat, NatsTo(f, n), NEW l \in 0..n
  PROVE  SumOver(f, 1..l, n) = SumTo(f, l)
<1> DEFINE Good == {k \in 0..n : SumOver(f, 1..k, n) = SumTo(f, k)}
<1>1. 0 \in Good
  <2>1. 1..0 = {} /\ 0 \in 0..n
    OBVIOUS
  <2>2. SumOver(f, {}, n) = 0 /\ SumTo(f, 0) = 0
    BY SumOverEmpty, SumToStep
  <2> QED  BY <2>1, <2>2
<1>2. ASSUME NEW k \in (0..n) \ {n}, k \in Good PROVE k + 1 \in Good
  <2>1. k \in Nat /\ k + 1 \in 0..n /\ k + 1 \in 1..n /\ k + 1 \notin 1..k
    OBVIOUS
  <2>2. 1..(k + 1) = (1..k) \cup {k + 1}
    BY <2>1
  <2>3. \A c \in 1..n : c \notin 1..k => SumOver(f, (1..k) \cup {c}, n) = SumOver(f, 1..k, n) + f[c]
    BY SumOverAdd
  <2>4. SumTo(f, k + 1) = SumTo(f, k) + f[k + 1]
    BY <2>1, SumToStep
  <2> QED  BY <1>2, <2>1, <2>2, <2>3, <2>4
<1> HIDE DEF Good
<1>3. \A k \in 0..n : k \in Good => SumOver(f, 1..k, n) = SumTo(f, k)
  BY DEF Good
<1>4. l \in Nat /\ \A k \in (0..l) \ {l} : k \in (0..n) \ {n}
  OBVIOUS
<1>5. l \in Good
  BY <1>1, <1>2, <1>4, UpTo
<1> QED  BY <1>3, <1>5

\* The sum over the first positions, cut in two.
LEMMA SumOverSplit ==
  ASSUME NEW f, NEW n \in Nat, NatsTo(f, n), NEW m \in 0..n, NEW l \in 0..m
  PROVE  SumOver(f, 1..m, n) = SumOver(f, 1..l, n) + SumOver(f, (l + 1)..m, n)
<1> DEFINE S == 1..l
           T == (l + 1)..m
<1>1. 1..m = S \cup T /\ T \subseteq 1..n /\ S \cap T = {}
  OBVIOUS
<1> HIDE DEF S, T
<1>2. SumOver(f, S \cup T, n) = SumOver(f, S, n) + SumOver(f, T, n)
  BY <1>1, SumOverUnion, ZenonT(60), SMTT(30)
<1>3. SumOver(f, 1..m, n) = SumOver(f, S, n) + SumOver(f, T, n)
  BY <1>1, <1>2
<1> QED  BY <1>3 DEF S, T
=============================================================================
