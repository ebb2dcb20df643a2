---------------------------- MODULE IndexPipeline ----------------------------
(***************************************************************************)
(* From the forward index to the compressed index: the collection that     *)
(* parse_collection has written, or a shard of it, is inverted, may get    *)
(* other identifiers, and is compressed (compress.hpp).  The tools run one *)
(* after the other and hand files on.                                      *)
(***************************************************************************)
EXTENDS Sharding, Inversion, Reordering

CONSTANTS
  QuantizationBits,       \* configuration::quantization_bits
  Config(_)               \* a node configuration for a number of documents

\* Levels of nodes for the whole collection and for any shard of it, as they must be in
\* the file: it is read without a check.
ASSUME ConfigAssumption ==
  \A w \in Workload : \A n \in 0..Len(w.documents) : Config(n) \in Seq(SUBSET NodesFor(n))

ASSUME QuantizationAssumption == 2^QuantizationBits \in Nat \ {0}

VARIABLES
  stage,         \* the tool that runs, or the last that has
  compressed     \* the compressed index: lists of docs and freqs with a sum; quantized

builderVars == vars
pipelineVars == <<builderVars, shardingVars, inversionVars, reorderingVars, stage, compressed>>

NotCompressed == [lists |-> <<>>, quantized |-> FALSE]

-----------------------------------------------------------------------------
(* compress.hpp *)

\* LinearQuantizer; the scores are those of an external scorer that grows with the
\* frequency.
Quantized(score, max) == (score * 2^QuantizationBits + max - 1) \div max

\* index_max_term_weight of the wand data
MaxTermWeight(lists) ==
  CHOOSE w \in UNION {Range(lists[t].freqs) : t \in DOMAIN lists} :
    \A t \in DOMAIN lists : \A i \in DOMAIN lists[t].freqs : lists[t].freqs[i] <= w

Payloads(list, quantize, max) ==
  [i \in DOMAIN list.freqs |-> IF quantize THEN Quantized(list.freqs[i], max) ELSE list.freqs[i]]

Accumulate(payloads) == FoldLeft(LAMBDA a, b : a + b, 0, payloads)

\* add_posting_list: a list with the sum of what it stores beside the documents.
PostingListOf(docs, payloads) ==
  [docs |-> docs, freqs |-> payloads, sum |-> Accumulate(payloads)]

\* compress_index and compress_index_streaming
CompressedLists(lists, quantize) ==
  LET max == MaxTermWeight(lists)
  IN  [t \in DOMAIN lists |-> PostingListOf(lists[t].docs, Payloads(lists[t], quantize, max))]

\* verify_collection, which a quantized index is not put to.
Verified(lists, written) ==
  \A t \in DOMAIN lists : lists[t].docs = written[t].docs /\ lists[t].freqs = written[t].freqs

-----------------------------------------------------------------------------

PipelineInit ==
  /\ Init
  /\ shardOf = <<>> /\ shards = <<>>
  /\ source = NoOutput /\ processed = 0 /\ postings = <<>> /\ bodies = <<>> /\ batches = <<>>
  /\ index = NoIndex
  /\ fwd = NoForwardIndex /\ order = <<>> /\ nodes = {} /\ levels = <<>>
  /\ reordered = NotReordered
  /\ stage = "parse" /\ compressed = NotCompressed

\* The next tools run on a complete and unharmed forward index that is not empty.
Parsed == stage = "parse" /\ pc = "done" /\ ~torn /\ documents # <<>>

ParseStep ==
  /\ stage = "parse"
  /\ Next
  /\ UNCHANGED <<shardingVars, inversionVars, reorderingVars, stage, compressed>>

PartitionStep ==
  /\ Parsed
  /\ PartitionRandomly(output) \/ PartitionByTitles(output)
  /\ stage' = "shard"
  /\ UNCHANGED <<builderVars, inversionVars, reorderingVars, compressed>>

ShardStep ==
  /\ stage = "shard"
  /\ \E s \in DOMAIN shards : ProcessShard(output, s)
  /\ UNCHANGED <<builderVars, inversionVars, reorderingVars, stage, compressed>>

\* The whole collection is inverted, or a shard of it.
InvertStep ==
  /\ \/ Parsed /\ StartInversion(output)
     \/ /\ stage = "shard"
        /\ AllProcessed
        /\ \E s \in DOMAIN shards : shards[s].docs # <<>> /\ StartInversion(shards[s])
  /\ stage' = "invert"
  /\ UNCHANGED <<builderVars, shardingVars, reorderingVars, compressed>>

ReduceStep ==
  /\ stage = "invert"
  /\ NextBatch \/ Reduce \/ WriteInverted
  /\ UNCHANGED <<builderVars, shardingVars, reorderingVars, stage, compressed>>

MergeStep ==
  /\ stage = "invert"
  /\ MergeInverted
  /\ stage' = IF CannotMerge THEN "failed" ELSE "inverted"
  /\ UNCHANGED <<builderVars, shardingVars, reorderingVars, compressed>>

ReorderStep ==
  /\ stage = "inverted"
  /\ \/ ReorderRandomly(index, source.titles)
     \/ ReorderByFeature(index, source.titles)
     \/ ReorderFromMapping(index, source.titles)
  /\ stage' = "reordered"
  /\ UNCHANGED <<builderVars, shardingVars, inversionVars, compressed>>

\* The identifiers stay as they are.
KeepOrder ==
  /\ stage = "inverted"
  /\ reordered' = [lists |-> index.lists, sizes |-> index.sizes, lexicon |-> source.titles]
  /\ stage' = "reordered"
  /\ UNCHANGED <<builderVars, shardingVars, inversionVars, fwd, order, nodes, levels, compressed>>

StoreForwardStep ==
  /\ stage = "inverted"
  /\ StoreForwardIndex(index)
  /\ stage' = "stored"
  /\ UNCHANGED <<builderVars, shardingVars, inversionVars, compressed>>

BisectionStep ==
  /\ stage = "inverted"
  /\ \/ StartBisection(index)
     \/ Config(Len(index.sizes)) # <<>> /\ StartConfigured(index, Config(Len(index.sizes)))
  /\ stage' = "bisect"
  /\ UNCHANGED <<builderVars, shardingVars, inversionVars, compressed>>

BisectStep ==
  /\ stage = "bisect"
  /\ \/ Bisect /\ UNCHANGED stage
     \/ EndBisection(index, source.titles) /\ stage' = "reordered"
  /\ UNCHANGED <<builderVars, shardingVars, inversionVars, compressed>>

CompressStep ==
  /\ stage = "reordered"
  /\ \E quantize \in BOOLEAN :
       LET written == CompressedLists(reordered.lists, quantize)
       IN  /\ compressed' = [lists |-> written, quantized |-> quantize]
           /\ stage' = IF quantize \/ Verified(reordered.lists, written) THEN "compressed"
                       ELSE "failed"
  /\ UNCHANGED <<builderVars, shardingVars, inversionVars, reorderingVars>>

PipelineNext ==
  \/ ParseStep \/ PartitionStep \/ ShardStep \/ InvertStep \/ ReduceStep \/ MergeStep
  \/ KeepOrder \/ ReorderStep \/ StoreForwardStep \/ BisectionStep \/ BisectStep \/ CompressStep

PipelineSpec ==
  /\ PipelineInit
  /\ [][PipelineNext]_pipelineVars
  /\ WF_builderVars(Main) /\ WF_builderVars(\E b \in Batches : Work(b))

-----------------------------------------------------------------------------

\* A shard holds its documents with the words they had, under identifiers of its own,
\* and no document is lost or in two shards (sharding.hpp, process_shard).
ShardsHoldTheCollection ==
  stage = "shard" =>
    /\ \A s \in DOMAIN shards : shards[s].processed => HoldsItsDocuments(output, shards[s], s - 1)
    /\ FlattenSeq([s \in DOMAIN shards |-> shards[s].titles]) \in
         {[i \in DOMAIN p |-> output.titles[p[i]]] :
            p \in Bijection(DOMAIN output.titles, DOMAIN output.titles)}

\* However parallel_reduce splits the postings of a batch and joins what it has read,
\* the lists are those of the inverted index; and the forward index made from them
\* has the terms of each document, when it is compressed.
InversionIsExact ==
  /\ stage = "inverted" => IsInversion(index)
  /\ stage = "stored" /\ fwd.compressed => HoldsTerms(fwd, index)

\* The postings of term t with the words of the documents under their titles.
PostingsAreRight(t) ==
  LET list == compressed.lists[t]
      word == source.terms[t]
      times(d) == LET record == documents[reordered.lexicon[d + 1]]
                  IN  Cardinality({j \in DOMAIN record : record[j] = word})
  IN  /\ \A i \in 1..(Len(list.docs) - 1) : list.docs[i] < list.docs[i + 1]
      /\ Range(list.docs) = {d \in 0..(Len(reordered.lexicon) - 1) : times(d) > 0}
      /\ list.sum = Accumulate(list.freqs)
      /\ \A i, j \in DOMAIN list.docs :
           IF compressed.quantized
           THEN /\ list.freqs[i] > 0
                /\ times(list.docs[i]) <= times(list.docs[j]) => list.freqs[i] <= list.freqs[j]
           ELSE list.freqs[i] = times(list.docs[i])

\* Whatever shard, splits, permutation and tasks it went through, the compressed index
\* with its document lexicon and sizes says of each document what was parsed: no
\* step gives the postings, the titles and the sizes different identifiers
\* (reorder_docids.hpp, reorder_from_mapping; compress.hpp).
CompressedIndexIsTheCollection ==
  stage = "compressed" =>
    /\ Range(reordered.lexicon) = Range(source.titles)
    /\ Len(reordered.lexicon) = Len(source.titles)
    /\ \A d \in DOMAIN reordered.lexicon :
         reordered.sizes[d] = Len(documents[reordered.lexicon[d]])
    /\ DOMAIN compressed.lists = DOMAIN source.terms
    /\ \A t \in DOMAIN compressed.lists : PostingsAreRight(t)
=============================================================================
