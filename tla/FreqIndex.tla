------------------------------ MODULE FreqIndex ------------------------------
(***************************************************************************)
(* An index of bit sequences (freq_index.hpp): a sequence of documents and *)
(* one of frequencies for each list, found through the Elias-Fano sequence *)
(* of where each begins (bitvector_collection.hpp).  Frequencies are kept  *)
(* as their strictly increasing sums (sequence/positive_sequence.hpp).     *)
(*                                                                         *)
(* A type of sequence says how it is partitioned ("no", "uniform" or       *)
(* "optimal") and what its base is.                                        *)
(***************************************************************************)
EXTENDS PartitionedSequence

\* The sequences of documents and of frequencies of each type of index
\* (index_types.hpp).
SequenceTypes(type) ==
  CASE type = "ef"         -> [docs  |-> [part |-> "no", base |-> "ef"],
                               freqs |-> [part |-> "no", base |-> "strict_ef"]]
    [] type = "single"     -> [docs  |-> [part |-> "no", base |-> "indexed"],
                               freqs |-> [part |-> "no", base |-> "strict"]]
    [] type = "pefuniform" -> [docs  |-> [part |-> "uniform", base |-> "indexed"],
                               freqs |-> [part |-> "uniform", base |-> "strict"]]
    [] type = "pefopt"     -> [docs  |-> [part |-> "optimal", base |-> "indexed"],
                               freqs |-> [part |-> "optimal", base |-> "strict"]]

SeqWrite(t, b, s, universe, params) ==
  IF t.part = "no" THEN BaseWrite(t.base, b, s, universe, Len(s), params)
  ELSE PartitionedWrite(t.part, t.base, b, s, universe, params)

SeqEnumerator(t, b, offset, universe, n, params) ==
  IF t.part = "no" THEN BaseEnumerator(t.base, b, offset, universe, n, params)
  ELSE Open(t.part, t.base, b, offset, universe, n, params)

IsPartitioned(e)          == e.kind \in {"uniform", "optimal"}
SeqMove(b, e, position)   == IF IsPartitioned(e) THEN PartMove(e, b, position) ELSE BaseMove(b, e, position)
SeqNext(b, e)             == IF IsPartitioned(e) THEN PartNext(e, b) ELSE BaseNext(b, e)
SeqNextGeq(b, e, bound)   == IF IsPartitioned(e) THEN PartNextGeq(e, b, bound) ELSE BaseNextGeq(b, e, bound)
SeqPrevValue(b, e)        == IF IsPartitioned(e) THEN PartPrevValue(e, b) ELSE BasePrevValue(b, e)
SeqPosition(e)            == IF IsPartitioned(e) THEN e.pos ELSE BasePosition(e)
SeqValue(e)               == IF IsPartitioned(e) THEN e.val ELSE BaseValue(e)
SeqSize(e)                == IF IsPartitioned(e) THEN e.n ELSE BaseSize(e)

-----------------------------------------------------------------------------
(* positive_sequence: pos and cur cache the last position and its sum. *)

RECURSIVE Sum(_)
Sum(s) == IF s = << >> THEN 0 ELSE Head(s) + Sum(Tail(s))

PositiveWrite(t, b, s, universe, params) ==
  SeqWrite(t, b, [i \in DOMAIN s |-> Sum(SubSeq(s, 1, i))], universe, params)

PositiveAtEnd(e) == [base |-> e, pos |-> SeqSize(e), cur |-> 0]
PositiveEnumerator(t, b, offset, universe, n, params) ==
  PositiveAtEnd(SeqEnumerator(t, b, offset, universe, n, params))

\* <<the value at the position, the enumerator there>>: the sum there less
\* the sum before, which is remembered where the position before was read.
PositiveAt(e, position, before) ==
  <<SeqValue(e) - before, [base |-> e, pos |-> position, cur |-> SeqValue(e)]>>
PositiveNext(b, e, position, before) == PositiveAt(SeqNext(b, e), position, before)
PositiveAfter(b, e, position)        == PositiveNext(b, e, position, SeqValue(e))

PositiveMove(b, q, position) ==
  IF position = q.pos + 1 THEN PositiveNext(b, q.base, position, q.cur)
  ELSE IF position = 0 THEN PositiveAt(SeqMove(b, q.base, 0), 0, 0)
  ELSE PositiveAfter(b, SeqMove(b, q.base, position - 1), position)

-----------------------------------------------------------------------------
(* bitvector_collection: vectors one after the other, and where each begins. *)

RECURSIVE Concatenated(_)
Concatenated(vectors) ==
  IF vectors = << >> THEN EmptyBits
  ELSE AppendVector(Concatenated(SubSeq(vectors, 1, Len(vectors) - 1)), vectors[Len(vectors)])

CollectionOf(bits, begins, params) ==
  [size |-> Len(begins), bits |-> bits,
   endpoints |-> EFWrite(EmptyBits, begins, bits.size, Len(begins), params)]
Collection(vectors, params) ==
  CollectionOf(Concatenated(vectors),
               [i \in DOMAIN vectors |-> Concatenated(SubSeq(vectors, 1, i - 1)).size], params)

\* The bit enumerator at vector i, counting from zero.
GetVector(c, params, i) ==
  BitsAt(EFMove(c.endpoints, EFEnumerator(0, c.bits.size, c.size, params), i).val)

-----------------------------------------------------------------------------
(* The index.  A list is [docs, freqs]. *)

ListHead(n, occurrences) ==
  LET head == WriteGammaNonzero(EmptyBits, occurrences)
  IN  IF occurrences = 1 THEN head ELSE AppendBits(head, n, CeilLog2(occurrences + 1))

DocsBits(t, list, numDocs, params) ==
  SeqWrite(t, ListHead(Len(list.docs), Sum(list.freqs)), list.docs, numDocs, params)

FreqsBits(t, list, params) ==
  PositiveWrite(t, EmptyBits, list.freqs, Sum(list.freqs) + 1, params)

BuildWith(type, t, lists, numDocs, params) ==
  [type |-> type, numDocs |-> numDocs, params |-> params,
   docs  |-> Collection([i \in DOMAIN lists |-> DocsBits(t.docs, lists[i], numDocs, params)], params),
   freqs |-> Collection([i \in DOMAIN lists |-> FreqsBits(t.freqs, lists[i], params)], params)]
BuildFreqIndex(type, lists, numDocs, params) ==
  BuildWith(type, SequenceTypes(type), lists, numDocs, params)

\* document_enumerator: the two enumerators, and the position and document.
DocsAt(c, e) == [c EXCEPT !.docs = e, !.pos = SeqPosition(e), !.docid = SeqValue(e)]

ResetDocs(x, c)          == [DocsAt(c, SeqMove(x.docs.bits, c.docs, 0)) EXCEPT !.pos = 0]
NextDoc(x, c)            == DocsAt(c, SeqNext(x.docs.bits, c.docs))
NextGeqDoc(x, c, bound)  == DocsAt(c, SeqNextGeq(x.docs.bits, c.docs, bound))
MoveDoc(x, c, position)  == DocsAt(c, SeqMove(x.docs.bits, c.docs, position))
\* <<the frequency, the enumerator of the frequencies>>
FreqOf(x, c) == PositiveMove(x.freqs.bits, c.freqs, c.pos)

\* The list at index i, counting from zero: its number of occurrences, then,
\* unless that is one, its length, and the documents.
OpenAt(x, t, i, n, occurrences, from) ==
  ResetDocs(x,
    [docs  |-> SeqEnumerator(t.docs, x.docs.bits, from, x.numDocs, n, x.params),
     freqs |-> PositiveEnumerator(t.freqs, x.freqs.bits, GetVector(x.freqs, x.params, i).pos,
                                  occurrences + 1, n, x.params),
     pos |-> 0, docid |-> 0])

OpenSized(x, i, occurrences, size) ==
  OpenAt(x, SequenceTypes(x.type), i, size[1], occurrences, size[2].pos)
OpenCounted(x, i, occurrences) ==
  OpenSized(x, i, occurrences[1],
            IF occurrences[1] = 1 THEN <<1, occurrences[2]>>
            ELSE Take(x.docs.bits, occurrences[2], CeilLog2(occurrences[1] + 1)))
OpenFreqList(x, i) ==
  OpenCounted(x, i, ReadGammaNonzero(x.docs.bits, GetVector(x.docs, x.params, i)))
=============================================================================
