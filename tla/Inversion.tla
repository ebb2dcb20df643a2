------------------------------ MODULE Inversion ------------------------------
(***************************************************************************)
(* The inversion of a forward index (invert.hpp, tools/invert.cpp): batch  *)
(* by batch its postings are sorted and reduced to lists in parallel       *)
(* (tbb::parallel_reduce), and the lists of all batches are concatenated.  *)
(*                                                                         *)
(* The reduction holds bodies from left to right.  A body has read the     *)
(* postings up to at of a range that ends at last; it may read on, give    *)
(* the right part of its range to a new body, and join the body on its     *)
(* right when both are done.  A list is a record of docs and freqs; a map  *)
(* from terms to lists is a function.                                      *)
(***************************************************************************)
EXTENDS ForwardIndexBuilder

CONSTANTS
  InvertBatch,    \* --batch-size
  InvertThreads,  \* --threads
  MaxBodies       \* bound on the bodies of a reduction at a time

ASSUME InversionAssumption ==
  InvertBatch \in Nat \ {0} /\ InvertThreads \in Nat \ {0} /\ MaxBodies \in Nat \ {0}

VARIABLES
  source,      \* the forward index
  processed,   \* documents_processed
  postings,    \* the sorted postings <<term, document>> of the batch
  bodies,      \* the bodies of the reduction
  batches,     \* the files of the batches: [lists, sizes]
  index        \* the inverted index: [lists, sizes]

inversionVars == <<source, processed, postings, bodies, batches, index>>

NoIndex == [lists |-> <<>>, sizes |-> <<>>]

\* At most size elements of a sequence from place first on.
Chunk(seq, first, size) == SubSeq(seq, first + 1, Min({Len(seq), first + size}))

InBatch(first) == Chunk(source.docs, first, InvertBatch)

\* map_to_postings
MapToPostings(docs, first) ==
  FlattenSeq([i \in DOMAIN docs |-> [j \in DOMAIN docs[i] |-> <<docs[i][j], first + i - 1>>]])

\* invert_range: the postings of each thread's documents, one after the other,
PostingsOf(docs, first) ==
  LET share == (Len(docs) + InvertThreads - 1) \div InvertThreads
      part(p) == Chunk(docs, (p - 1) * share, share)
  IN  FlattenSeq([p \in 1..InvertThreads |-> MapToPostings(part(p), first + (p - 1) * share)])

\* in order.
Precedes(p, q) == p[1] < q[1] \/ (p[1] = q[1] /\ p[2] < q[2])

Sorted(range) ==
  LET before(j, i) == Precedes(range[j], range[i]) \/ (range[j] = range[i] /\ j < i)
      place(i) == Cardinality({j \in DOMAIN range : before(j, i)}) + 1
  IN  [k \in DOMAIN range |-> range[CHOOSE i \in DOMAIN range : place(i) = k]]

\* A run of equal postings: where it ends.
RunEnd(range, i) ==
  CHOOSE e \in i..Len(range) :
    /\ \A k \in i..e : range[k] = range[i]
    /\ e = Len(range) \/ range[e + 1] # range[i]

\* For each run its document and its length are pushed back to the list of its term.
PushRuns(lists, range) ==
  LET starts(t) == Ascending({i \in DOMAIN range :
                     range[i][1] = t /\ (i = 1 \/ range[i] # range[i - 1])})
      old(t) == IF t \in DOMAIN lists THEN lists[t] ELSE [docs |-> <<>>, freqs |-> <<>>]
  IN  [t \in DOMAIN lists \cup {range[i][1] : i \in DOMAIN range} |->
         [docs  |-> old(t).docs \o [k \in DOMAIN starts(t) |-> range[starts(t)[k]][2]],
          freqs |-> old(t).freqs \o [k \in DOMAIN starts(t) |->
                                       RunEnd(range, starts(t)[k]) - starts(t)[k] + 1]]]

\* Mutant of Accumulated: a run that a body has begun starts a posting of its own.
AccumulatedApart(lists, range) == PushRuns(lists, range)

\* Inverted_Index::operator(): what continues the last posting of the first term is
\* added to it.
Accumulated(lists, range) ==
  LET t == range[1][1]
      continues == t \in DOMAIN lists /\ Last(lists[t].docs) = range[1][2]
      run == RunEnd(range, 1)
  IN  IF continues
      THEN PushRuns([lists EXCEPT ![t].freqs[Len(lists[t].freqs)] = @ + run],
                    SubSeq(range, run + 1, Len(range)))
      ELSE PushRuns(lists, range)

\* join_term
JoinTerm(lower, higher) ==
  IF Last(lower.docs) = Head(higher.docs)
  THEN [docs  |-> lower.docs \o Tail(higher.docs),
        freqs |-> Front(lower.freqs) \o <<Last(lower.freqs) + Head(higher.freqs)>>
                    \o Tail(higher.freqs)]
  ELSE [docs |-> lower.docs \o higher.docs, freqs |-> lower.freqs \o higher.freqs]

\* Inverted_Index::join
Joined(lists, rhs) ==
  [t \in DOMAIN lists \cup DOMAIN rhs |->
     IF t \notin DOMAIN lists THEN rhs[t]
     ELSE IF t \notin DOMAIN rhs THEN lists[t]
     ELSE IF Last(lists[t].docs) <= Head(rhs[t].docs) THEN JoinTerm(lists[t], rhs[t])
     ELSE JoinTerm(rhs[t], lists[t])]

\* write: the lists of all terms of the lexicon.
Written(lists) ==
  [i \in DOMAIN source.terms |->
     IF i - 1 \in DOMAIN lists THEN lists[i - 1] ELSE [docs |-> <<>>, freqs |-> <<>>]]

-----------------------------------------------------------------------------

StartInversion(collection) ==
  /\ source' = collection
  /\ processed' = 0 /\ postings' = <<>> /\ bodies' = <<>> /\ batches' = <<>>
  /\ index' = NoIndex

\* build_batches: the next documents.
NextBatch ==
  /\ processed < Len(source.docs)
  /\ bodies = <<>>
  /\ postings' = Sorted(PostingsOf(InBatch(processed), processed))
  /\ bodies' = <<[lists |-> <<>>, at |-> 0, last |-> Len(postings')]>>
  /\ UNCHANGED <<source, processed, batches, index>>

\* A body reads the next postings of its range.
Read(b) ==
  /\ \E to \in (bodies[b].at + 1)..bodies[b].last :
       bodies' = [bodies EXCEPT
         ![b].lists = Accumulated(@, SubSeq(postings, bodies[b].at + 1, to)),
         ![b].at = to]
  /\ UNCHANGED <<source, processed, postings, batches, index>>

\* The splitting constructor makes a body with no lists.
Split(b) ==
  /\ Len(bodies) < MaxBodies
  /\ \E middle \in (bodies[b].at + 1)..(bodies[b].last - 1) :
       bodies' = InsertAt([bodies EXCEPT ![b].last = middle], b + 1,
                          [lists |-> <<>>, at |-> middle, last |-> bodies[b].last])
  /\ UNCHANGED <<source, processed, postings, batches, index>>

Join(b) ==
  /\ b < Len(bodies)
  /\ bodies[b].at = bodies[b].last
  /\ bodies[b + 1].at = bodies[b + 1].last
  /\ bodies' = RemoveAt([bodies EXCEPT
                 ![b] = [lists |-> Joined(bodies[b].lists, bodies[b + 1].lists),
                         at |-> bodies[b + 1].at, last |-> bodies[b + 1].last]], b + 1)
  /\ UNCHANGED <<source, processed, postings, batches, index>>

WriteInverted ==
  /\ Len(bodies) = 1
  /\ bodies[1].at = bodies[1].last
  /\ LET docs == InBatch(processed)
     IN  /\ batches' = Append(batches, [lists |-> Written(bodies[1].lists),
                                        sizes |-> [i \in DOMAIN docs |-> Len(docs[i])]])
         /\ processed' = processed + Len(docs)
  /\ bodies' = <<>> /\ postings' = <<>>
  /\ UNCHANGED <<source, index>>

\* merge_batches: the lists of a term in the order of the batches.
MergedList(i) ==
  [docs  |-> FlattenSeq([b \in DOMAIN batches |-> batches[b].lists[i].docs]),
   freqs |-> FlattenSeq([b \in DOMAIN batches |-> batches[b].lists[i].freqs])]

\* merge_batches throws when a list is empty or has not as many frequencies.
CannotMerge ==
  \E i \in DOMAIN source.terms :
    MergedList(i).docs = <<>> \/ Len(MergedList(i).docs) # Len(MergedList(i).freqs)

\* The index is written, and the files of the batches are removed.
MergeInverted ==
  /\ processed = Len(source.docs)
  /\ bodies = <<>>
  /\ index' = IF CannotMerge THEN NoIndex
              ELSE [lists |-> [i \in DOMAIN source.terms |-> MergedList(i)],
                    sizes |-> FlattenSeq([b \in DOMAIN batches |-> batches[b].sizes])]
  /\ batches' = <<>>
  /\ UNCHANGED <<source, processed, postings, bodies>>

Reduce == \E b \in DOMAIN bodies : Read(b) \/ Split(b) \/ Join(b)

-----------------------------------------------------------------------------

\* The inverted index of the source: for each term the documents it occurs in, in
\* order, with how often; and the length of each document.
IsInversion(inverted) ==
  LET count(d, t) == Cardinality({j \in DOMAIN source.docs[d] : source.docs[d][j] = t - 1})
      has(t) == Ascending({d \in DOMAIN source.docs : count(d, t) > 0})
  IN  /\ inverted.sizes = [d \in DOMAIN source.docs |-> Len(source.docs[d])]
      /\ DOMAIN inverted.lists = DOMAIN source.terms
      /\ \A t \in DOMAIN source.terms :
           /\ inverted.lists[t].docs = [i \in DOMAIN has(t) |-> has(t)[i] - 1]
           /\ inverted.lists[t].freqs = [i \in DOMAIN has(t) |-> count(has(t)[i], t)]
=============================================================================
