-------------------------- MODULE BlockMaxMaxScore --------------------------
(***************************************************************************)
(* Block-max MaxScore (block_max_maxscore_query.hpp).  MaxScore with a     *)
(* second test: before the non-essential lists are looked up, their bounds *)
(* give way one by one to the bounds of their blocks at the document.  A   *)
(* step of the loop considers one document.                                *)
(***************************************************************************)
EXTENDS Cursors, TopKQueue

CONSTANTS
  Workload,    \* the calls: records with fields cursors and, as in BlockMaxWand, blocks
  Thresholds   \* initial thresholds a thresholds file may hold

ASSUME WorkloadAssumption ==
  \A w \in Workload :
    /\ IsQuery(w.cursors)
    /\ \A c \in 1..Len(w.cursors) : BlocksHold(w.cursors[c], w.blocks[c])
ASSUME ThresholdsAssumption == Thresholds \subseteq Nat

VARIABLES
  call,           \* the call being served, an element of Workload
  pos,            \* docid() of each cursor
  block,          \* the block each cursor's block enumerator stands on
  order,          \* ordered_cursors
  nonEssential,   \* non_essential_lists: the first so many lists of the order
  curDoc,         \* cur_doc
  pc,             \* "start", "loop" or "done"
  floor           \* the threshold the query started from (history)

vars == <<heap, threshold, call, pos, block, order, nonEssential, curDoc, pc, floor>>

cursors == call.cursors
n == Len(cursors)

-----------------------------------------------------------------------------

\* By increasing bound; std::sort leaves ties anyhow.
Sorted ==
  {o \in [1..n -> 1..n] :
     /\ \A i, j \in 1..n : i # j => o[i] # o[j]
     /\ \A i, j \in 1..n : i < j => cursors[o[i]].max <= cursors[o[j]].max}

\* upper_bounds: the bound of the first i lists.
UpperBound(i) == SumTo([j \in 1..n |-> cursors[order[j]].max], i)

\* Mutant of Surrendered: the lists give up their place while they could just enter.
SurrenderedBelow(t) == {i \in 1..n : UpperBound(i) <= t + 1}

\* The places that are non-essential once the threshold is t.
Surrendered(t) == {i \in 1..n : UpperBound(i) <= t}

\* After an insertion the lists that cannot enter any more are given up.
GiveUp(score) ==
  nonEssential' =
    IF ~WouldEnter(score) THEN nonEssential
    ELSE Cardinality(1..nonEssential \cup Surrendered(threshold'))

-----------------------------------------------------------------------------

\* The contributions to curDoc by place in the order, and their sum over the
\* essential lists.
Part == [i \in 1..n |-> Contribution(cursors, curDoc)[order[i]]]
EssentialScore ==
  SumOver(Part, {i \in (nonEssential + 1)..n : pos[order[i]] = curDoc}, n)

\* Mutant of BlockGeq: the block that ends with curDoc is passed.
BlockGeqBeyond(c) ==
  LET blocks == block[c]..Len(call.blocks[c])
  IN  Earliest({b \in blocks : b = Len(call.blocks[c]) \/ call.blocks[c][b].last > curDoc})

\* wand_data_raw::enumerator::next_geq, called when the block ends before curDoc.
BlockGeq(c) ==
  LET blocks == block[c]..Len(call.blocks[c])
  IN  Earliest({b \in blocks : b = Len(call.blocks[c]) \/ call.blocks[c][b].last >= curDoc})
BlockMaxAt(i) == call.blocks[order[i]][BlockGeq(order[i])].max

\* The bound on the non-essential lists when those from place i on count with
\* their blocks.
BlockBound(i) ==
  UpperBound(i - 1) + SumOver([j \in 1..n |-> BlockMaxAt(j)], i..nonEssential, n)

\* The bound when those from place i on count with their postings, and the ones
\* before it with their blocks.
LookupBound(i) ==
  SumOver([j \in 1..n |-> BlockMaxAt(j)], 1..(i - 1), n) + SumOver(Part, i..nonEssential, n)

\* The non-essential lists are refined from the last to the first, until curDoc
\* cannot enter.  The place where that ends:
Stopped(bound) ==
  LET hopeless == {i \in 1..nonEssential : ~WouldEnter(EssentialScore + bound[i])}
  IN  CHOOSE i \in hopeless \cup {1} : \A j \in hopeless : j <= i

BlocksStop == Stopped([i \in 1..nonEssential |-> BlockBound(i)])
LookupStop == Stopped([i \in 1..nonEssential |-> LookupBound(i)])

-----------------------------------------------------------------------------

Init ==
  /\ call \in Workload
  /\ threshold \in Thresholds
  /\ heap = {}
  /\ pos = [i \in 1..n |-> FirstGeq(cursors[i], 0)]
  /\ block = [i \in 1..n |-> 1]
  /\ order = [i \in 1..n |-> i]
  /\ nonEssential = 0
  /\ curDoc = 0
  /\ pc = "start"
  /\ floor = threshold

Start ==
  /\ pc = "start"
  /\ order' \in Sorted
  /\ IF cursors = <<>> THEN pc' = "done" /\ UNCHANGED curDoc
     ELSE pc' = "loop" /\ curDoc' = Earliest({pos[c] : c \in 1..n})
  /\ UNCHANGED <<heap, threshold, call, pos, block, nonEssential, floor>>

\* Mutant of MovePostings: the next document is looked for in all lists.
MovePostingsAllLists(looked) ==
  /\ pos' = [c \in 1..n |->
       IF \E i \in (nonEssential + 1)..n : order[i] = c
       THEN IF pos[c] = curDoc THEN NextFrom(cursors[c], pos[c]) ELSE pos[c]
       ELSE IF \E i \in looked : order[i] = c THEN NextGeq(cursors[c], pos[c], curDoc)
       ELSE pos[c]]
  /\ curDoc' = Earliest({pos'[c] : c \in 1..n} \cup {NumDocs})

\* The essential lists move past curDoc, the lists looked up move to it, and the
\* next document is the first one ahead in a list still essential in this turn.
MovePostings(looked) ==
  /\ pos' = [c \in 1..n |->
       IF \E i \in (nonEssential + 1)..n : order[i] = c
       THEN IF pos[c] = curDoc THEN NextFrom(cursors[c], pos[c]) ELSE pos[c]
       ELSE IF \E i \in looked : order[i] = c THEN NextGeq(cursors[c], pos[c], curDoc)
       ELSE pos[c]]
  /\ curDoc' = Earliest({pos'[order[i]] : i \in (nonEssential + 1)..n} \cup {NumDocs})

\* The enumerators of the lists from place i on reach their block.
MoveBlocks(i) ==
  block' = [c \in 1..n |->
    IF \E j \in i..nonEssential : order[j] = c THEN BlockGeq(c) ELSE block[c]]

InLoop == pc = "loop" /\ nonEssential < n /\ curDoc < NumDocs

\* The blocks show that curDoc cannot enter; what it scores in the essential lists
\* is offered nevertheless.
RejectByBlocks ==
  LET i == BlocksStop
  IN  /\ InLoop
      /\ ~WouldEnter(EssentialScore + BlockBound(i))
      /\ MoveBlocks(i)
      /\ MovePostings({})
      /\ Insert(EssentialScore, curDoc)
      /\ GiveUp(EssentialScore)
      /\ UNCHANGED <<call, order, pc, floor>>

\* The lists are looked up; what remains of the bound is offered as score.
LookUp ==
  LET i == LookupStop
      score == EssentialScore + LookupBound(i)
  IN  /\ InLoop
      /\ WouldEnter(EssentialScore + BlockBound(BlocksStop))
      /\ MoveBlocks(1)
      /\ MovePostings(i..nonEssential)
      /\ Insert(score, curDoc)
      /\ GiveUp(score)
      /\ UNCHANGED <<call, order, pc, floor>>

Stop ==
  /\ pc = "loop"
  /\ ~InLoop
  /\ pc' = "done"
  /\ UNCHANGED <<heap, threshold, call, pos, block, order, nonEssential, curDoc, floor>>

Next == Start \/ RejectByBlocks \/ LookUp \/ Stop

\* The loop is sequential code that never waits.
Spec == Init /\ [][Next]_vars /\ WF_vars(Next)

-----------------------------------------------------------------------------

\* Type invariant of the block-max MaxScore loop.
TypeOK ==
  /\ heap \subseteq Nat \X Docs
  /\ threshold \in Nat
  /\ pos \in [1..n -> 0..NumDocs]
  /\ order \in [1..n -> 1..n]
  /\ block \in [1..n -> Nat] /\ \A c \in 1..n : block[c] \in 1..Len(call.blocks[c])
  /\ nonEssential \in 0..n
  /\ curDoc \in 0..NumDocs
  /\ pc \in {"start", "loop", "done"}

\* Documents are considered in order, and those only in lists given up are
\* passed over.
Retrieval ==
  INSTANCE RankedRetrieval WITH
    Scores <- Nat,
    relevance <- [d \in Docs |-> FullScore(cursors, d)],
    settled <- IF pc = "done" THEN Docs ELSE {d \in Docs : d < curDoc}

\* Every step of block-max MaxScore is a step of a ranked retrieval: a document
\* enters with its full score, although what is offered of others is a bound.
IsRankedRetrieval == Retrieval!Spec

\* When the query returns the queue holds the exact result above the threshold
\* it started from.
ExactResult == pc = "done" => Retrieval!BestAbove(floor)

\* The query returns.
QueryEnds == <>(pc = "done")
=============================================================================
