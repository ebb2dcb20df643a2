--------------------------- MODULE MCBlockMaxWand ---------------------------
(* Block-max WAND over every query of SmallIndexes.                        *)
EXTENDS BlockMaxWand, SmallIndexes

CONSTANT BlockSizes

Calls(queries, pairAware) ==
  {[cursors |-> q, pairAware |-> aware, prime |-> prime,
    blocks |-> [c \in 1..Len(q) |-> StaticBlockPartition(q[c].post, size)]] :
     q \in queries, aware \in pairAware, prime \in BOOLEAN, size \in BlockSizes}

MCWorkload ==
  Calls(SplitQueries, BOOLEAN) \cup Calls(ClippedQueries \cup {<<>>}, {FALSE})

ASSUME BlocksAssumption == BlocksOfLists
=============================================================================
