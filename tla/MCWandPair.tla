----------------------------- MODULE MCWandPair -----------------------------
(* WAND over the pairs of every split index of two terms.                  *)
EXTENDS WandPair, SmallIndexes

MCWorkload ==
  {[cursors |-> MakePairs(<<one, two>>, <<1, weight>>, <<1, 2>>)] :
     one \in TermIndexes(FirstImpacts, SplitTerm), two \in TermIndexes(SecondImpacts, SplitTerm),
     weight \in Weights} \cup {[cursors |-> << >>]}
=============================================================================
