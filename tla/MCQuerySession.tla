--------------------------- MODULE MCQuerySession ----------------------------
(* Every query of two or three lists over a small collection.              *)
EXTENDS PlainQueries

CONSTANTS BlockSize, RangeSizes

Lists(docs, impacts) == UNION {[D -> impacts] : D \in (SUBSET docs) \ {{}}}

\* Three lists are taken over fewer documents.
Few == 0..2

Call(algorithm, lists, range, high) ==
  [algorithm |-> algorithm, range |-> range, high |-> high, workers |-> 1,
   cursors |-> [i \in DOMAIN lists |->
                  [post |-> lists[i], max |-> Max({lists[i][d] : d \in DOMAIN lists[i]}),
                   low |-> 0, short |-> 0, id |-> 0]],
   blocks  |-> [i \in DOMAIN lists |-> StaticBlockPartition(lists[i], BlockSize)]]

Empty(algorithm) == Call(algorithm, << >>, 0, 0)

BooleanCalls ==
  {Call(a, <<x, y, z>>, 0, 0) : a \in Unranked, x, y, z \in Lists(Few, {1})} \cup
  {Empty(a) : a \in Unranked}

Ranked == {"ranked_or", "ranked_and", "block_max_ranked_and"}
RankedCalls ==
  {Call(a, <<x, y>>, r, 0) : a \in Ranked, r \in RangeSizes, x \in Lists(Docs, {1, 2}), y \in Lists(Docs, {1})}
  \cup {Empty(a) : a \in Ranked}

\* A wave over one HIGH list and two LOW ones.
WaveCalls ==
  {Call("wave", <<x, y, z>>, 0, 1) : x \in Lists(Few, {2}), y, z \in Lists(Few, {1})}

\* Queries that leave sums on the documents of later ones.
First  == [d \in {0, 1} |-> 1]
Second == [d \in {1, NumDocs - 1} |-> 2]
SharingCalls ==
  {Call(a, lists, r, 0) : a \in TermAtATime, r \in RangeSizes,
     lists \in {<< >>, <<First>>, <<Second>>, <<First, Second>>}}

\* Two threads, over one document and the empty query.
ParallelCalls ==
  {[Call(a, lists, r, 0) EXCEPT !.workers = 2] :
     a \in TermAtATime, r \in RangeSizes, lists \in {<< >>, <<[d \in {1} |-> 2]>>}}

MCWorkload == BooleanCalls \cup RankedCalls \cup WaveCalls \cup SharingCalls \cup ParallelCalls
=============================================================================
