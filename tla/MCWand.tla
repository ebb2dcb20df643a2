------------------------------- MODULE MCWand -------------------------------
(* WAND over every query of SmallIndexes.                                  *)
EXTENDS Wand, SmallIndexes

Calls(queries, pairAware) ==
  [cursors : queries, pairAware : pairAware, prime : BOOLEAN]

\* Pair-aware bounds on split indexes, plain ones on both kinds.
MCWorkload ==
  Calls(SplitQueries, BOOLEAN) \cup Calls(ClippedQueries \cup {<<>>}, {FALSE})

\* Pair-aware bounds on clipped indexes, as example/run-improvement-sequence.sh
\* runs them.
ClippedWorkload == Calls(ClippedQueries, {TRUE})
=============================================================================
