------------------------- MODULE MCBlockMaxWandPair --------------------------
(* Block-max WAND over the pairs of every split index of two terms.        *)
EXTENDS BlockMaxWandPair, SmallIndexes

CONSTANT BlockSize

MCCall(pairing) ==
  [cursors |-> pairing,
   blocks  |-> [c \in DOMAIN pairing |-> [l \in 1..2 |->
                  StaticBlockPartition(pairing[c].lists[l].post, BlockSize)]]]

MCWorkload ==
  {MCCall(MakePairs(<<one, two>>, <<1, 1>>, <<1, 2>>)) :
     one \in TermIndexes(FirstImpacts, SplitTerm), two \in TermIndexes(SecondImpacts, SplitTerm)}
=============================================================================
