-------------------------- MODULE BlockPostingList ---------------------------
(***************************************************************************)
(* A posting list in blocks (block_posting_list.hpp) and the index of such *)
(* lists (block_freq_index.hpp).  A list is its length, the last document  *)
(* of each block, where each block but the first begins, and the blocks:   *)
(* the gaps of the documents and the frequencies less one.  A word of four *)
(* bytes is one symbol.  The enumerator decodes the documents of a block   *)
(* when it enters it, and the frequencies when the first is asked for.     *)
(***************************************************************************)
EXTENDS BlockCodecs, EliasFano

Blocks(n)          == CeilDiv(n, BlockSize)
SizeOfBlock(n, b)  == IF (b + 1) * BlockSize <= n THEN BlockSize ELSE n % BlockSize

\* The symbols of the blocks from block b on, and where each of them ends.
RECURSIVE WriteBlocks(_, _, _, _)
WriteBlocks(codec, list, b, acc) ==
  LET n     == Len(list.docs)
      first == b * BlockSize
      size  == SizeOfBlock(n, b)
      base  == IF b = 0 THEN 0 ELSE list.docs[first] + 1
      last  == list.docs[first + size]
      gaps  == [i \in 1..size |-> list.docs[first + i]
                                  - (IF first + i = 1 THEN -1 ELSE list.docs[first + i - 1]) - 1]
      freqs == [i \in 1..size |-> list.freqs[first + i] - 1]
      Written(data) == [data |-> data, maxs |-> Append(acc.maxs, last),
                        ends |-> Append(acc.ends, Len(data))]
  IN  IF b = Blocks(n) THEN acc
      ELSE WriteBlocks(codec, list, b + 1,
             Written(acc.data \o BlockEncode(codec, gaps, last - base - (size - 1))
                              \o BlockEncode(codec, freqs, SumIsWritten)))

Assembled(n, written) ==
  VByteEncode(n) \o written.maxs \o SubSeq(written.ends, 1, Blocks(n) - 1) \o written.data
WriteList(codec, list) ==
  Assembled(Len(list.docs),
            WriteBlocks(codec, list, 0, [data |-> << >>, maxs |-> << >>, ends |-> << >>]))

-----------------------------------------------------------------------------
(* The enumerator. *)

BlockMax(out, c, b) == out[c.maxs + b + 1]

\* Mutant of EnterBlock: the frequencies decoded for the last block are kept.
EnterKeepingFreqs(c, b, base, max, docs) ==
  [c EXCEPT !.block = b, !.at = 0, !.max = max, !.size = SizeOfBlock(c.n, b),
            !.docid = docs[1][1] + base, !.gaps = docs[1], !.freqsAt = docs[2]]

\* The gaps of block b were decoded, the first of them from base.
EnterBlock(c, b, base, max, docs) ==
  [c EXCEPT !.block = b, !.at = 0, !.max = max, !.size = SizeOfBlock(c.n, b),
            !.docid = docs[1][1] + base, !.gaps = docs[1], !.freqsAt = docs[2], !.decoded = FALSE]

DecodeDocsBlock(codec, out, c, b) ==
  LET endpoint == IF b = 0 THEN 0 ELSE out[c.ends + b]
      size     == SizeOfBlock(c.n, b)
      base     == IF b = 0 THEN 0 ELSE BlockMax(out, c, b - 1) + 1
      max      == BlockMax(out, c, b)
  IN  EnterBlock(c, b, base, max,
                 BlockDecode(codec, out, c.data + endpoint, max - base - (size - 1), size))

ResetBlock(codec, out, c) == DecodeDocsBlock(codec, out, c, 0)

\* One posting further in the block.
Step(c) == [c EXCEPT !.at = @ + 1, !.docid = @ + c.gaps[c.at + 2] + 1]

\* Behind the last posting the position goes on, and the document is the universe.
NextInBlocks(codec, out, c) ==
  IF c.at + 1 # c.size THEN Step(c)
  ELSE IF c.block + 1 = Blocks(c.n) THEN [c EXCEPT !.at = @ + 1, !.docid = c.universe]
  ELSE DecodeDocsBlock(codec, out, c, c.block + 1)

RECURSIVE StepToDoc(_, _)
StepToDoc(c, bound) == IF c.docid >= bound THEN c ELSE StepToDoc(Step(c), bound)

RECURSIVE BlockOf(_, _, _, _)
BlockOf(out, c, b, bound) == IF BlockMax(out, c, b) >= bound THEN b ELSE BlockOf(out, c, b + 1, bound)

\* Beyond the last document the position stays where it is.
NextGeqInBlocks(codec, out, c, bound) ==
  IF bound <= c.max THEN StepToDoc(c, bound)
  ELSE IF bound > BlockMax(out, c, Blocks(c.n) - 1) THEN [c EXCEPT !.docid = c.universe]
  ELSE StepToDoc(DecodeDocsBlock(codec, out, c, BlockOf(out, c, c.block + 1, bound)), bound)

BlockPosition(c) == c.block * BlockSize + c.at

RECURSIVE StepToPosition(_, _)
StepToPosition(c, pos) == IF BlockPosition(c) >= pos THEN c ELSE StepToPosition(Step(c), pos)

MoveInBlocks(codec, out, c, pos) ==
  LET b == pos \div BlockSize
  IN  StepToPosition(IF b = c.block THEN c ELSE DecodeDocsBlock(codec, out, c, b), pos)

\* freq decodes the frequencies first, unless it has.
DecodeFreqsBlock(codec, out, c) ==
  IF c.decoded THEN c
  ELSE [c EXCEPT !.freqs = BlockDecode(codec, out, c.freqsAt, SumIsWritten, c.size)[1],
                 !.decoded = TRUE]
FreqInBlock(c) == c.freqs[c.at + 1] + 1

-----------------------------------------------------------------------------
(* The index: the lists one after the other, and where each begins. *)

ListLayout(n, maxs, universe) ==
  [n |-> n, universe |-> universe, maxs |-> maxs, ends |-> maxs + Blocks(n),
   data |-> maxs + 2 * Blocks(n) - 1, block |-> 0, at |-> 0, max |-> 0, size |-> 0, docid |-> 0,
   gaps |-> << >>, freqs |-> << >>, freqsAt |-> 0, decoded |-> FALSE]
OpenAfterLength(codec, out, length, universe) ==
  ResetBlock(codec, out, ListLayout(length[1], length[2], universe))
OpenBlockList(codec, out, at, universe) ==
  OpenAfterLength(codec, out, VByteDecode(out, at, 0, 1), universe)

-----------------------------------------------------------------------------
(* The index (block_freq_index.hpp): the lists one after the other, and the
   Elias-Fano sequence of where each begins. *)
RECURSIVE AllLists(_, _)
AllLists(codec, lists) ==
  IF lists = << >> THEN << >>
  ELSE AllLists(codec, SubSeq(lists, 1, Len(lists) - 1)) \o WriteList(codec, lists[Len(lists)])

BlockIndexOf(codec, out, begins, numDocs, params) ==
  [type |-> codec, numDocs |-> numDocs, params |-> params, size |-> Len(begins), lists |-> out,
   endpoints |-> EFWrite(EmptyBits, begins, Len(out), Len(begins), params)]
BuildBlockIndex(codec, lists, numDocs, params) ==
  BlockIndexOf(codec, AllLists(codec, lists),
               [i \in DOMAIN lists |-> Len(AllLists(codec, SubSeq(lists, 1, i - 1)))],
               numDocs, params)

\* The list at index i, counting from zero.
OpenBlockIndex(x, i) ==
  LET endpoints == EFEnumerator(0, Len(x.lists), x.size, x.params)
  IN  OpenBlockList(x.type, x.lists, EFMove(x.endpoints, endpoints, i).val, x.numDocs)
=============================================================================
