-------------------------- MODULE PostingListCursor --------------------------
(***************************************************************************)
(* A cursor on a posting list of an index of any type (index_types.hpp),   *)
(* moved by the calls its callers may make in any order: reset, next,      *)
(* next_geq, move and freq.  The cursors of bit sequences may be moved     *)
(* backwards; the asserts of those of blocks demand that they go forward.  *)
(* Or on a sequence of a collection, after the queue has built it: it has  *)
(* no frequencies.                                                         *)
(***************************************************************************)
EXTENDS FreqIndex, SemiasyncQueue, BlockPostingList

CONSTANTS NumDocs,           \* the number of documents, which is the universe
          Types,             \* the types of index: those of SequenceTypes and block codecs
          Lists,             \* the posting lists an index can hold
          OtherList,         \* a list that every index holds before them
          Params             \* logarithms of the sampling rates

VARIABLES index,             \* the bits or bytes on disk, or what is to be built
          list,              \* the postings the cursor was opened on
          cursor,            \* the document_enumerator
          answer             \* the frequency asked for since the last move, or 0

listVars == <<index, list, cursor, answer>>
vars == <<listVars, queueVars>>

SequenceIndexes == {"ef", "single", "pefuniform", "pefopt"}
IsBlock(x)      == x.type \notin SequenceIndexes \cup {"collection"}
IsCollection    == index.type = "collection"
Building        == index.type = "building"
SequenceType    == SequenceTypes(kind).docs

Build(type, lists) ==
  IF type \in SequenceIndexes THEN BuildFreqIndex(type, lists, NumDocs, Params)
  ELSE BuildBlockIndex(type, lists, NumDocs, Params)

OpenCursor(x, i) == IF IsBlock(x) THEN OpenBlockIndex(x, i) ELSE OpenFreqList(x, i)

Size     == Len(list.docs)
Position == IF IsBlock(index) THEN BlockPosition(cursor) ELSE cursor.pos
AtTheEnd == cursor.docid = IF IsCollection THEN cursor.universe ELSE NumDocs

To(c) == cursor' = c /\ answer' = 0 /\ UNCHANGED <<index, list, queueVars>>

Reset ==
  To(IF IsBlock(index) THEN ResetBlock(index.type, index.lists, cursor) ELSE ResetDocs(index, cursor))

NextPosting ==
  /\ ~AtTheEnd
  /\ To(IF IsBlock(index) THEN NextInBlocks(index.type, index.lists, cursor) ELSE NextDoc(index, cursor))

NextGeq(bound) ==
  \/ IsBlock(index) /\ bound >= cursor.docid
     /\ To(NextGeqInBlocks(index.type, index.lists, cursor, bound))
  \/ ~IsBlock(index) /\ To(NextGeqDoc(index, cursor, bound))

\* A block cursor that is at the end keeps the position it came from.
Move(position) ==
  \/ IsBlock(index) /\ ~AtTheEnd /\ position \in Position..(Size - 1)
     /\ To(MoveInBlocks(index.type, index.lists, cursor, position))
  \/ ~IsBlock(index) /\ To(MoveDoc(index, cursor, position))

Answer(a, c) == answer' = a /\ cursor' = c /\ UNCHANGED <<index, list, queueVars>>

\* What is decoded to answer is kept.
FreqFromBits(f)   == Answer(f[1], [cursor EXCEPT !.freqs = f[2]])
FreqFromBlock(c)  == Answer(FreqInBlock(c), c)

Freq ==
  /\ ~AtTheEnd /\ ~IsCollection
  /\ \/ IsBlock(index) /\ FreqFromBlock(DecodeFreqsBlock(index.type, index.lists, cursor))
     \/ ~IsBlock(index) /\ FreqFromBits(FreqOf(index, cursor))

-----------------------------------------------------------------------------
(* A collection of sequences *)

\* The bits of a sequence: its universe is kept as a power of two.
SequenceBits(type, s) ==
  LET bits == CeilLog2(s[Len(s)])
  IN  SeqWrite(SequenceTypes(type).docs,
               WriteGammaNonzero(WriteGamma(EmptyBits, bits), Len(s)), s, 2^bits + 1, Params)

\* sequence_collection::operator[]: the universe and the length come before the sequence.
SequenceAt(c, i) ==
  LET universeBits == ReadGamma(c.bits, GetVector(c, Params, i))
      n == ReadGammaNonzero(c.bits, universeBits[2])
  IN  [universe |-> 2^universeBits[1] + 1,
       enumerator |-> SeqEnumerator(SequenceType, c.bits, n[2].pos, 2^universeBits[1] + 1, n[1],
                                    Params)]

BuildWithQueue ==
  /\ Building
  /\ QueueStep
  /\ UNCHANGED listVars

OpenSequence(c, at) ==
  cursor' = ResetDocs(c, [docs |-> at.enumerator, universe |-> at.universe, pos |-> 0, docid |-> 0])

\* builder::build, and a cursor on the sequence that was asked for
OpenCollection ==
  /\ Building
  /\ Close
  /\ index' = [type |-> "collection", docs |-> Collection(committed, Params)]
  /\ OpenSequence(index', SequenceAt(index'.docs, index.chosen))
  /\ UNCHANGED <<list, answer>>

-----------------------------------------------------------------------------

InitList ==
  \E type \in Types, l \in Lists, i \in 0..1 :
    /\ list = <<OtherList, l>>[i + 1]
    /\ index = Build(type, <<OtherList, l>>)
    /\ cursor = OpenCursor(index, i)
    /\ QueueUnused

InitCollection ==
  /\ QueueInit
  /\ \E i \in DOMAIN sequences :
       /\ list = [docs |-> sequences[i], freqs |-> <<>>]
       /\ index = [type |-> "building", chosen |-> i - 1]
  /\ cursor = [docid |-> 0]

Init == answer = 0 /\ (InitList \/ InitCollection)

Next ==
  \/ BuildWithQueue \/ OpenCollection
  \/ ~Building /\ Reset
  \/ ~Building /\ NextPosting
  \/ ~Building /\ Freq
  \/ ~Building /\ \E bound \in 0..NumDocs : NextGeq(bound)
  \/ ~Building /\ \E position \in 0..Size : Move(position)

Spec == Init /\ [][Next]_vars

-----------------------------------------------------------------------------
\* The posting the cursor stands at, by its document; -1 if the list has no such.
Posting == IF Building THEN 0
           ELSE IF AtTheEnd THEN Size
           ELSE IF \E i \in 1..Size : list.docs[i] = cursor.docid
                THEN CHOOSE i \in 0..(Size - 1) : list.docs[i + 1] = cursor.docid
                ELSE -1

\* Whatever calls were made before on whatever encoding, each call moves the
\* cursor to the posting it should, and a frequency is that of the posting:
\* no cached block, partition, high bits or sum of another posting is used.
Abstract == INSTANCE PostingList WITH at <- Posting
ReadsThePostings == Abstract!Spec

\* The position agrees with the document, but for a block cursor at the end;
\* and a cursor on bit sequences finds the value before its own, which the
\* partitions are located with, wherever it stands and however it got there.
PositionIsExact ==
  ~Building =>
    /\ ~(IsBlock(index) /\ AtTheEnd) => Position = Posting
    /\ ~IsBlock(index) => SeqPrevValue(index.docs.bits, cursor.docs)
                          = IF Posting = 0 THEN 0 ELSE list.docs[Posting]
=============================================================================
