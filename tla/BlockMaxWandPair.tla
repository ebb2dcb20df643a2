-------------------------- MODULE BlockMaxWandPair ---------------------------
(***************************************************************************)
(* Block-max WAND over paired cursors (block_max_wand_pair_query.hpp).     *)
(* WandPair with a second test, on the blocks of the current lists, and    *)
(* cursors whose next_geq moves both lists.  A call has a further field,   *)
(* blocks: for each pair the blocks of its LOW and of its HIGH list, as in *)
(* BlockMaxWand.                                                           *)
(***************************************************************************)
EXTENDS WandPair

VARIABLE block    \* the block each list's block enumerator stands on

blockVars == <<vars, block>>

BlocksOf(c) == call.blocks[c][pos[c].cur]

\* block_max_next_geq of the current list, when its block ends before d.
BlockFrom(c, d) ==
  LET blocks == BlocksOf(c)
  IN  Earliest({b \in block[c][pos[c].cur]..Len(blocks) : b = Len(blocks) \/ blocks[b].last >= d})

\* The pivot is extended over all pairs that stand on its document.
IsBlockPivot(p) ==
  \E i \in 1..p :
    /\ IsPivot(i)
    /\ \A j \in i..p : docids[order[j]] = docids[order[i]]
    /\ p < n => docids[order[p + 1]] # docids[order[i]]

\* min_high_non_considered is not extended with it.
BlockMinHigh(p) == MinHigh({i \in 1..p : \A j \in 1..(i - 1) : ~IsPivot(j)})

PivotPairs(p) == {order[i] : i \in 1..p}

MoveBlocks(p) ==
  block' = [c \in 1..n |-> IF c \in PivotPairs(p)
                           THEN [block[c] EXCEPT ![pos[c].cur] = BlockFrom(c, docids[order[p]])]
                           ELSE block[c]]

BlockOf(c, b) == BlocksOf(c)[b[c][pos[c].cur]]

\* block_upper_bound, and what is left of it when the first k pairs are scored.
BlockBound(p, b)      == SumOver([c \in 1..n |-> BlockOf(c, b).max], PivotPairs(p), n)
PartScore(k)          == SumOver([c \in 1..n |-> Score(pairs[c], pos[c])], PivotPairs(k), n)
RefinedBound(k, p, b) == BlockBound(p, b) - BlockBound(k, b) + PartScore(k)

-----------------------------------------------------------------------------

BlockInit == Init /\ block = [i \in 1..n |-> <<1, 1>>]

\* The pivot is taken: no HIGH list has a document before it.
AtPivot(p, enters) ==
  /\ pc = "loop"
  /\ IsBlockPivot(p)
  /\ docids[order[p]] <= BlockMinHigh(p)
  /\ MoveBlocks(p)
  /\ WouldEnter(BlockBound(p, block')) <=> enters

BlockHighBefore(p) ==
  /\ pc = "loop"
  /\ IsBlockPivot(p)
  /\ docids[order[p]] > BlockMinHigh(p)
  /\ LET high == BlockMinHigh(p)
     IN  pos' = [c \in 1..n |-> IF docids[c] < high /\ \E i \in 1..(p - 1) : order[i] = c
                                THEN PairBothGeq(pairs[c], pos[c], high) ELSE pos[c]]
  /\ UNCHANGED <<heap, threshold, call, pc, floor, block>>
  /\ order' \in W!Sorted(DocidsOf(pos'))

BlockLookAtHigh ==
  /\ pc = "loop"
  /\ NoPivot
  /\ MinHigh(Unfinished) < NumDocs
  /\ LET high == MinHigh(Unfinished)
     IN  pos' = [c \in 1..n |-> IF docids[c] < high THEN PairBothGeq(pairs[c], pos[c], high)
                                ELSE pos[c]]
  /\ UNCHANGED <<heap, threshold, call, pc, floor, block>>
  /\ order' \in W!Sorted(DocidsOf(pos'))

\* Pairs are scored until the refined bound cannot enter, and all move on.
BlockEvaluate(p) ==
  LET d == docids[order[p]]
      scored == Earliest({k \in 1..p : ~WouldEnter(RefinedBound(k, p, block'))} \cup {p})
  IN  /\ AtPivot(p, TRUE)
      /\ docids[order[1]] = d
      /\ Insert(PartScore(scored), d)
      /\ pos' = [c \in 1..n |-> IF docids[c] = d THEN PairNext(pairs[c], pos[c]) ELSE pos[c]]
      /\ UNCHANGED <<call, pc, floor>>
      /\ order' \in W!Sorted(DocidsOf(pos'))

\* The pair at place j moves up to document d.
MovesUp(j, d) ==
  /\ pos' = [pos EXCEPT ![order[j]] = PairBothGeq(pairs[order[j]], @, d)]
  /\ UNCHANGED <<heap, threshold, call, pc, floor>>

B == INSTANCE BlockMaxWand WITH pos <- docids

BlockAdvance(p) ==
  LET j == W!LastBehind(p, docids[order[p]])
  IN  /\ AtPivot(p, TRUE)
      /\ docids[order[1]] # docids[order[p]]
      /\ MovesUp(j, docids[order[p]])
      /\ order' = B!BubbleDownPastEqual(j, DocidsOf(pos'))

\* The pair that jumps: one of the largest bound, the pivot's if it is among them.
Jumper(p) ==
  LET bound(i) == MaxScore(pairs[order[i]], pos[order[i]])
      largest == {i \in 1..p : \A j \in 1..p : bound(j) <= bound(i)}
  IN  IF p \in largest THEN p ELSE Earliest(largest)

\* Behind the first block that ends among those of the current lists; the
\* documents of the HIGH lists are not looked at.
JumpTarget(p, b) ==
  LET ends  == Earliest({BlockOf(c, b).last : c \in PivotPairs(p)} \cup {NumDocs}) + 1
      limit == IF p < n THEN Earliest({ends, docids[order[p + 1]]}) ELSE ends
  IN  IF limit <= docids[order[p]] THEN docids[order[p]] + 1 ELSE limit

BlockSkip(p) ==
  /\ AtPivot(p, FALSE)
  /\ MovesUp(Jumper(p), JumpTarget(p, block'))
  /\ order' = W!BubbleDown(Jumper(p), DocidsOf(pos'))

BlockNext ==
  \/ (ReturnEmpty \/ Start \/ Stop) /\ UNCHANGED block
  \/ BlockLookAtHigh
  \/ \E p \in 1..n : BlockHighBefore(p) \/ BlockEvaluate(p) \/ BlockAdvance(p) \/ BlockSkip(p)

BlockSpec == BlockInit /\ [][BlockNext]_blockVars /\ WF_blockVars(BlockNext)
=============================================================================
