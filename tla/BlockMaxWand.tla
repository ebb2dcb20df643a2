---------------------------- MODULE BlockMaxWand ----------------------------
(***************************************************************************)
(* Block-max WAND (block_max_wand_query.hpp): operator() and its variant   *)
(* pair_aware_bmw.  WAND with a second test: the bounds of the blocks that *)
(* the lists up to the pivot reach there; if they cannot enter, a list     *)
(* jumps beyond the blocks.  A call has a further field, blocks: for each  *)
(* cursor the sequence of its blocks, records with fields                  *)
(*   last   the last document of the block      block_max_docid()          *)
(*   max    the largest score in it, weighted   block_max_score() *        *)
(*                                              query_weight()             *)
(***************************************************************************)
EXTENDS Wand

\* The blocks of a call are those of its lists.
BlocksOfLists ==
  \A w \in Workload : \A c \in 1..Len(w.cursors) : BlocksHold(w.cursors[c], w.blocks[c])

VARIABLE block    \* the block each cursor's block enumerator stands on

blockVars == <<vars, block>>

BlockLast(c, b) == call.blocks[c][b].last
BlockMax(c, b) == call.blocks[c][b].max

-----------------------------------------------------------------------------

\* The pivot is extended over all cursors that stand on its document.
IsBlockPivot(p) ==
  \E i \in 1..p :
    /\ IsPivot(i)
    /\ \A j \in i..p : pos[order[j]] = pos[order[i]]
    /\ p < n => pos[order[p + 1]] # pos[order[i]]

PivotLists(p) == {order[i] : i \in 1..p}

\* Mutant of BlockGeq: the block that ends with d is passed.
BlockGeqBeyond(c, d) ==
  LET blocks == block[c]..Len(call.blocks[c])
  IN  Earliest({b \in blocks : b = Len(call.blocks[c]) \/ BlockLast(c, b) > d})

\* wand_data_raw::enumerator::next_geq, which stops on the last block.
BlockGeq(c, d) ==
  LET blocks == block[c]..Len(call.blocks[c])
  IN  Earliest({b \in blocks : b = Len(call.blocks[c]) \/ BlockLast(c, b) >= d})

\* The lists up to the pivot bring their blocks up to its document.
MoveBlocks(p) ==
  block' = [c \in 1..n |-> IF c \in PivotLists(p) THEN BlockGeq(c, pos[order[p]]) ELSE block[c]]

\* block_upper_bound, from blocks b.
BlockBound(p, b) == SumOver([c \in 1..n |-> BlockMax(c, b[c])], PivotLists(p), n)

-----------------------------------------------------------------------------

BlockInit == Init /\ block = [i \in 1..n |-> 1]

\* The score of the first k lists, and the bound when the blocks of those lists
\* give way to their scores (in the mutant, to nothing).
PartScore(k, d) == SumOver(Contribution(cursors, d), PivotLists(k), n)
RefinedBoundWithoutScores(k, p, d, b) == BlockBound(p, b) - BlockBound(k, b)
RefinedBound(k, p, d, b) == BlockBound(p, b) - BlockBound(k, b) + PartScore(k, d)

\* All lists up to the pivot stand on its document.  They are scored until the
\* refined bound cannot enter, and all of them move on.
BlockEvaluate(p) ==
  LET d == pos[order[p]]
      hopeless == {k \in 1..p : ~WouldEnter(RefinedBound(k, p, d, block'))}
      scored == Earliest(hopeless \cup {p})
  IN  /\ pc = "loop"
      /\ IsBlockPivot(p)
      /\ MoveBlocks(p)
      /\ WouldEnter(BlockBound(p, block'))
      /\ pos[order[1]] = d
      /\ Insert(PartScore(scored, d), d)
      /\ pos' = [c \in 1..n |-> IF pos[c] = d THEN NextFrom(cursors[c], d) ELSE pos[c]]
      /\ order' \in Sorted(pos')
      /\ UNCHANGED <<call, pc, floor>>

\* Here the advanced cursor bubbles down past its equals as well.
BubbleDownPastEqual(j, p) ==
  MovedTo(j, CHOOSE m \in j..n :
               /\ \A i \in (j + 1)..m : p[order[i]] <= p[order[j]]
               /\ m < n => p[order[m + 1]] > p[order[j]])

BlockAdvance(p) ==
  LET d == pos[order[p]]
      j == LastBehind(p, d)
      moved == order[j]
  IN  /\ pc = "loop"
      /\ IsBlockPivot(p)
      /\ MoveBlocks(p)
      /\ WouldEnter(BlockBound(p, block'))
      /\ pos[order[1]] # d
      /\ pos' = [pos EXCEPT ![moved] = NextGeq(cursors[moved], @, d)]
      /\ order' = BubbleDownPastEqual(j, pos')
      /\ UNCHANGED <<heap, threshold, call, pc, floor>>

\* The place of the list that jumps: one of the largest bound, the pivot's if it
\* is among them, else the first.
Jumper(p) ==
  LET bound(i) == cursors[order[i]].max
      largest == {i \in 1..p : \A j \in 1..p : bound(j) <= bound(i)}
  IN  IF p \in largest THEN p ELSE Earliest(largest)

\* The first document behind a block among those the lists up to the pivot are on.
BlocksEnd(p, b) == Earliest({BlockLast(c, b[c]) : c \in PivotLists(p)} \cup {NumDocs}) + 1

\* Mutants of JumpTarget: the list after the pivot does not limit the jump, or a
\* jump that ends before the pivot is not lengthened.
JumpTargetUnlimited(p, b) ==
  LET d == pos[order[p]]
  IN  IF BlocksEnd(p, b) <= d THEN d + 1 ELSE BlocksEnd(p, b)
JumpTargetShort(p, b) ==
  IF p < n THEN Earliest({BlocksEnd(p, b), pos[order[p + 1]]}) ELSE BlocksEnd(p, b)

\* Where it jumps to: behind the first block that ends, but not past the list
\* after the pivot, and always past the pivot.
JumpTarget(p, b) ==
  LET ends == BlocksEnd(p, b)
      limit == IF p < n THEN Earliest({ends, pos[order[p + 1]]}) ELSE ends
      d == pos[order[p]]
  IN  IF limit <= d THEN d + 1 ELSE limit

\* The blocks at the pivot cannot enter.
BlockSkip(p) ==
  LET j == Jumper(p)
      moved == order[j]
  IN  /\ pc = "loop"
      /\ IsBlockPivot(p)
      /\ MoveBlocks(p)
      /\ ~WouldEnter(BlockBound(p, block'))
      /\ pos' = [pos EXCEPT ![moved] = NextGeq(cursors[moved], @, JumpTarget(p, block'))]
      /\ order' = BubbleDown(j, pos')
      /\ UNCHANGED <<heap, threshold, call, pc, floor>>

BlockNext ==
  \/ (ReturnEmpty \/ Start \/ Stop) /\ UNCHANGED block
  \/ \E p \in 1..n : BlockEvaluate(p) \/ BlockAdvance(p) \/ BlockSkip(p)

\* The loop is sequential code that never waits.
BlockSpec == BlockInit /\ [][BlockNext]_blockVars /\ WF_blockVars(BlockNext)

-----------------------------------------------------------------------------

\* Type invariant of the block-max WAND loop.
BlockTypeOK == TypeOK /\ block \in [1..n -> Nat] /\ \A c \in 1..n : block[c] \in 1..Len(call.blocks[c])

\* The block enumerators never run ahead of the search: a document that can still
\* enter is not behind the block of any of its lists, so no block test leaves out
\* what the document scores there.
NoBlockMissed ==
  pc = "loop" =>
    \A d \in Docs :
      WouldEnter(FullScore(cursors, d)) /\ ~Passed(d)
        => \A c \in 1..n : d \in Posted(cursors[c]) =>
             \A b \in 1..(block[c] - 1) : BlockLast(c, b) < d
=============================================================================
