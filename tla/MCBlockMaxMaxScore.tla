------------------------- MODULE MCBlockMaxMaxScore -------------------------
(* Block-max MaxScore over every query of SmallIndexes.                    *)
EXTENDS BlockMaxMaxScore, SmallIndexes

CONSTANT BlockSizes

MCWorkload ==
  {[cursors |-> q,
    blocks |-> [c \in 1..Len(q) |-> StaticBlockPartition(q[c].post, size)]] :
     q \in SplitQueries \cup ClippedQueries \cup {<<>>}, size \in BlockSizes}
=============================================================================
