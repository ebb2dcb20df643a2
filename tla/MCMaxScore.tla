----------------------------- MODULE MCMaxScore -----------------------------
(* MaxScore over every query of SmallIndexes.                              *)
EXTENDS MaxScore, SmallIndexes

Calls(queries, algorithms) ==
  [cursors : queries, algorithm : algorithms, prime : BOOLEAN]

\* Pair-aware bounds on split indexes, plain ones on both kinds.
MCWorkload ==
  Calls(SplitQueries, {"maxscore", "ls_maxscore", "pair_aware_maxscore"})
    \cup Calls(ClippedQueries \cup {<<>>}, {"maxscore", "ls_maxscore"})
=============================================================================
