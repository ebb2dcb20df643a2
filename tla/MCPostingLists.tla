---------------------------- MODULE MCPostingLists ---------------------------
(* Every set of documents of a small universe in every type of index.      *)
EXTENDS PostingListCursor

MCParams == [ef0 |-> 2, ef1 |-> 2, rb0 |-> 2, rb1 |-> 2, part |-> 1]

InOrder(S) == [i \in 1..Cardinality(S) |-> Kth(S, i - 1)]

\* Frequencies that need one byte and two.
Frequencies == <<2, 1, 17, 1, 3, 1, 1, 12, 5>>
MCLists == {[docs |-> InOrder(D), freqs |-> [i \in 1..Cardinality(D) |-> Frequencies[i]]] :
              D \in {X \in SUBSET (0..(NumDocs - 1)) : X # {}}}
MCOther == [docs |-> <<1, 4>>, freqs |-> <<2, 1>>]

\* Groups of one and of several jobs; a sequence whose last value is a power of two.
MCCollections ==
  {<<<<1>>, <<0, 2, 3, 4>>, <<5>>, <<1, 2>>, <<0, 1, 4, 6>>>>,
   <<<<0, 1, 2, 3>>, <<2, 6>>, <<3, 4, 5>>>>}
=============================================================================
