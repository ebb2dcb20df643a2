--------------------------- MODULE MCIndexPipeline ---------------------------
(* Small collections from their records to a compressed index.             *)
EXTENDS IndexPipeline

CONSTANTS MaxDocuments, Documents, BatchSizes

SmallDocuments == {<<2, 1, 2>>, <<1>>}

\* Records without a token are in the smaller collections.
Collections ==
  UNION {[1..k -> Documents] : k \in 0..MaxDocuments}
  \cup UNION {[1..k -> Documents \cup {<<>>}] : k \in 0..2}

MCWorkload == [documents : Collections, batchSize : BatchSizes]

\* Two levels: the halves first, then the whole.
MCConfig(n) ==
  IF n < 4 THEN <<>>
  ELSE <<{ConfiguredNode(<<0, 1>>, <<1, 2>>), ConfiguredNode(<<2, 3>>, <<3, 4>>)},
         {ConfiguredNode(<<0, 2>>, <<2, 4>>)}>>
=============================================================================
