# A TLA+ model of postings-clipping

Term impact decomposition splits each posting list of a learned sparse index into
a HIGH and a LOW list, or clips it into two lists whose impacts add up, and makes
the dynamic-pruning algorithms of PISA aware of the pairs.  What has to be right
is that skipping loses nothing: whatever a query algorithm does not score cannot
belong to the result.  This directory models the algorithms and the structures
they rest on, checks them with TLC over every small index, and proves with TLAPS
the facts that do not depend on an instance.

Paths below are relative to `src/pisa-decomposition` unless they start with
`tools/split_index.cpp`, `tools/clip_index.cpp`, `tools/compute_splits.py`,
`tools/modify_queries.py` or `example/`, which are in `src/`.

## 1. The system

| component | state it keeps | operations | what makes it hard |
|---|---|---|---|
| parsing a collection (`forward_index_builder.hpp`) | batches in flight, slots, batch files | read, run a batch, merge, resume a merge | blocked reader, a batch that throws, a merge killed half way |
| sharding (`sharding.hpp`) | mapping of documents to shards | map, copy, give each shard its terms | terms numbered by a prefix sum, copies in step |
| inversion (`invert.hpp`) | lists of a batch | invert ranges in parallel, merge batches | order of documents across ranges and batches |
| reordering (`reorder_docids.hpp`, `recursive_graph_bisection.hpp`) | a mapping, or an array under bisection | random, by feature, from a file, bisection | one mapping for postings, sizes and titles; parallel nodes |
| compression (`compress.hpp`) | none | add each list, verify | quantized payloads |
| split and clip tools | none between runs | choose a bound per list, write HIGH and LOW lists | loop that ends at end of file, numbering of the new lists |
| posting lists on disk (`freq_index.hpp`, `block_freq_index.hpp` and all they use) | bits or bytes; what an enumerator has decoded | next, next_geq, move, reset, freq | block and partition boundaries, cached state, the end of a list |
| sequence collections (`sequence_collection.hpp`, `util/semiasync_queue.hpp`) | groups of jobs that threads prepare | add_sequence, build | order of the commits, waiting for threads |
| query parsing (`src/query/queries.cpp`) | none | tokens to list ids, pairs of lists, frequencies | order of a hash map numbers the pairs, lists that do not exist |
| cursors (`include/pisa/cursor`) | position, bound and pair data | docid, next, next_geq, reset, safe_threshold | bounds keyed by two kinds of identifiers |
| top-k queue (`topk_queue.hpp`) | heap, threshold | insert, set_threshold, clear, finalize | threshold set from outside, ties, capacity |
| WAND, MaxScore (`include/pisa/query/algorithm`) | order of cursors, essential lists, next document | one pass over the lists | a bound that is stale or too low loses documents silently |
| block-max variants | the same, and block cursors | the same, skipping whole blocks | two levels of bounds, block boundaries |
| paired cursors and their queries | two cursors and which is current | the same as a cursor | one of the two lists is left behind |
| Boolean, ranked and, ranked or, wave, range and term-at-a-time queries | candidate, blocks, accumulators kept across queries and shared by threads | one pass, ranges one after the other | blocks that lag, cursors left at the end of a range, epochs that wrap, threads that race on one accumulator |
| query benchmark (`tools/queries.cpp`) | rerun counter, thresholds | run each query, rerun with `--safe` | thresholds that are wrong, parallel workers |
| wand data, thresholds tools, mapping, text processing, scoring | - | data transformations | floating point, layout |

An index goes through the parts in this order: `parse_collection` writes a forward
index; it may be cut into shards; `invert` makes an inverted index of it, documents
may get other identifiers, the lists may be split or clipped, and
`compress_inverted_index` writes the index that queries read.  A query goes through
the parts in this order: `parse_query_terms` pairs the lists of each term;
`make_max_scored_cursors` opens one cursor per list and attaches the list's bound,
the bound of the LOW list of its pair and the length of the shorter list; the
algorithm walks the cursors and offers documents to the queue, whose threshold
decides what it may skip; the benchmark finalizes the queue and may run the query
again.

`PROJECT.json` lists every component with its status and every hazard with its
line and the properties that would catch it.

## 2. The modules

Ranked queries:

| module | models | notes |
|---|---|---|
| `TopKQueue` | `topk_queue.hpp` | the vector in heap order is a set of entries; which of several lowest entries `pop_heap` removes is left open |
| `RankedRetrieval` | the promise of every ranked query | abstract: documents are offered with their full score or passed over because they cannot enter, in any order |
| `SafeQuery` | `op_perftest`, the lambdas of `queries.cpp` | any thresholds file, `--safe` rerun, finalize |
| `Cursors` | `max_scored_cursor.hpp`, `bit_vec_64`, `prime_heap`, `static_block_partition` (`wand_utils.hpp`) | a list is a function document -> score; the accumulation of pair-aware bounds; the blocks of a list: where each ends and its largest score |
| `PairedIndex` | the tools, `parse_query_terms`, `make_max_scored_cursors` | from a plain index to the cursors of a query, including what happens to bounds keyed by the wrong identifier |
| `Wand` | `wand_query.hpp` | `operator()` and `pair_aware_wand`; a step is one turn of the loop |
| `MaxScore` | `maxscore_query.hpp` | `operator()`, `length_sorted_maxscore`, `pair_aware_maxscore`; a step considers one document |
| `BlockMaxWand` | `block_max_wand_query.hpp` | extends `Wand` with the block enumerators, scoring cut short and the jump behind blocks; `operator()` and `pair_aware_bmw` |
| `BlockMaxMaxScore` | `block_max_maxscore_query.hpp` | a step considers one document: rejected by blocks, or looked up |
| `WandPair`, `BlockMaxWandPair` | `max_scored_paired_cursor.hpp`, `block_max_scored_paired_cursor.hpp`, `wand_pair_query.hpp`, `block_max_wand_pair_query.hpp` | the two lists of a term read as one, a position being the current list and where each list stands; the main loops, with the search for HIGH documents that no bound covers; the orders and moves are those of `Wand` |
| `QueryRun`, `PlainQueries` | the queries that use no list bound, both accumulators, both range queries, the first phase of `high_then_low` | the state of a query and what other threads do to a shared accumulator; the disjunctive and the conjunctive ones, and what a session promises |

From a collection to an index:

| module | models | notes |
|---|---|---|
| `ForwardIndexBuilder` | `forward_index_builder.hpp`, `tools/parse_collection.cpp` | reader, task group, bounded queue, merge, removal of the batches, the subcommand `merge`; exceptions of batches, kills of the merge |
| `Sharding` | `sharding.hpp`, `partition_fwd_index.cpp` | the mapping of documents, the copying, the terms of each shard; extends `ForwardIndexBuilder` |
| `Inversion` | `invert.hpp` | sorted postings of a batch, every split, read and join of `parallel_reduce`, the merge of batches |
| `Reordering` | `reorder_docids.hpp`, `recursive_graph_bisection.hpp`, `forward_index.hpp` | mappings and what is rewritten with them; the nodes of a bisection side by side, with any gains |
| `IndexPipeline` | `compress.hpp`, and the order of the tools | composes the four |

Posting lists bit by bit:

| module | models | notes |
|---|---|---|
| `PostingList` | the promise of every cursor on a posting list | abstract: a place in the list, and the frequency that was asked for |
| `BitVector` | `bit_vector.hpp`, `util/broadword.hpp`, `codec/integer_codes.hpp` | bits appended, buffered and unary enumerators |
| `EliasFano`, `IndexedSequence` | `compact_elias_fano.hpp`, `strict_elias_fano.hpp`, `compact_ranked_bitvector.hpp`, `all_ones_sequence.hpp`, `indexed_sequence.hpp`, `strict_sequence.hpp` | what is written, pointers and samples included, and the enumerators with their cached high bits |
| `PartitionedSequence` | `partitioned_sequence.hpp`, `uniform_partitioned_sequence.hpp`, `optimal_partition.hpp` | the approximate shortest path, the headers; the enumerator of an enumerator |
| `FreqIndex` | `positive_sequence.hpp`, `bitvector_collection.hpp`, `freq_index.hpp` | an index of the types ef, single, pefuniform and pefopt |
| `BlockCodecs`, `BlockPostingList` | `block_codecs.hpp`, `interpolative_coding.hpp`, `varintgb.hpp`, `VarIntG8IU.h`; `block_posting_list.hpp`, `block_freq_index.hpp` | blocks of bytes and the cursor that decodes them when it must |
| `SemiasyncQueue` | `util/semiasync_queue.hpp`, `sequence_collection.hpp` | the caller, the groups and their threads; what a job's bits are is a parameter |
| `PostingListCursor` | the indexes of `index_types.hpp`, `benchmarks/scan_perftest.cpp` | a cursor on a list of any of them, moved by any calls |

`SmallIndexes` and the modules `MC*` are the instances TLC runs on (`safe_query` runs on
`SafeQuery` itself).  A module `X_proofs` holds the theorems about `X` and their proofs:
`RankedRetrieval_proofs` (`SafeQuery` too, which extends `RankedRetrieval`),
`Cursors_proofs` (lemmas the query algorithms share), `Wand_proofs` (`BlockMaxWand` too,
which extends `Wand`), `MaxScore_proofs`, `BlockMaxMaxScore_proofs` and
`PlainQueries_proofs`.  `ConcurrentBuilds_proofs` holds those about `ForwardIndexBuilder`,
about the shards of `IndexPipeline` and about `SemiasyncQueue`; `IndexPipeline_proofs`,
which extends it, those about the inverted and the compressed index.

State and code.  `heap` and `threshold` are `m_q` and `m_threshold`; `pos` holds
`docid()` of every cursor; `order` is `ordered_cursors` in WAND and the sorted
vector in MaxScore; `lookup` and `nextDoc` are `first_lookup` and `next_docid`;
`nonEssential` and `curDoc` are `non_essential_lists` and `cur_doc` of block-max
MaxScore; `block` is `cur_pos` of each cursor's `wand_data_raw::enumerator`;
`pc` is the place in the function.  In `QueryRun` `candidate` is `candidate` or
`cur_doc`, `limit` the `max_docid` an algorithm is called with, `acc` the accumulator
that the queries of a batch share.  `evaluate_queries.cpp:283` answers the queries of a
batch with `tbb::parallel_for`; all threads call one function object, and the one of the
term-at-a-time queries owns a single accumulator (`:257`, `:266`) that nothing guards.
The state is that of one thread, which serves one call after another (`NextQuery`), and
`Interfere` is what the others do: at any time, between any two steps, the sum and the
counter of a document of the batch and the counter of the query become any of the values
that racing writes may leave (`Leftovers`).  `workers` of a call is how many threads there
are; one only with `--threads 0`, for `max_allowed_parallelism` is one more than that.
The other algorithms share nothing between queries, so that one query stands for all.
`floor` is a history variable: the threshold in
force once the heap has been primed.  The call a run serves and, through it, the
index are chosen in `Init` and never change (but for a session, which serves one call
after another), so TLC tries every one of them.
An operator whose name and comment say it is a mutant is not part of the model:
it is the form a definition would have with a plausible bug, kept to show that the
properties notice it.

In `ForwardIndexBuilder` `read`, `recordBatch`, `batchNumber` and `firstDocument` are
the reader's local variables; `slots` is the size of the bounded queue and `tasks` the
task group, where a batch that is `written` has only its `try_pop` to do; `cancelled` is
the state an exception leaves the group in; `files` are the files of the batches,
`nextBatch` and `spans` the loops of `merge` and the stack of `collect_terms`, `output`
the files of the index.  The steps of the merge that another process can see, or a kill
can separate, are actions of their own: writing the titles, each batch's terms, the
dictionary, rewriting each batch, writing the documents.  `kills` bounds the kills and
`torn` remembers that one hit a merge that had begun to rewrite.

In the pipeline `bodies` are the bodies of `parallel_reduce` from left to right, each
with the range it has left and the lists it has; `batches` are the files of `invert`;
`order` is the array a bisection permutes and `nodes` its nodes that run; `stage` is
the tool.  The tools after the parser start from a complete, unharmed forward index
that is not empty (`Parsed`): sharding takes the largest element of a mapping, which
an empty collection does not have.

In the posting lists an enumerator is a record of the fields it has in the code.  A
vector of bits is its length and the set of its ones.  What is written and what is
read are separate definitions, translated from the writer and from the reader, and
agree only because the code does.

Abstractions.  A score is a natural number (impacts are quantized integers and so
are their sums; the floating-point bounds of other scorers are not covered).  A
document identifier at or beyond `max_docid` is `NumDocs`.  `std::sort` leaves
ties in any order.  A term is a number in the order of the strings, and a title the
place of its record in the input; what is read beyond the end of a mapping is one of
the values of `Garbage`.  A query offers a document at most once, so entries are a set.
Gains of a bisection are arbitrary: they are floating-point numbers from the degrees
that each thread keeps, and a thread that waits for its sorts may take up another node
and overwrite them, so any order of a part may come out.  How TBB splits a range is
external: any split is possible.  Four bytes of a block list, a key or a descriptor
are one symbol each.

## 3. What the runs check

| run | instance | shows |
|---|---|---|
| `safe_query` | 3 documents, scores 0..3, K = 2 | the queue ends exact above the starting threshold for every order of offering and skipping; `--safe` makes it exact; the threshold never falls while documents are settled; the query returns |
| `wand` | K = 1, every index of two terms over 3 documents, split or clipped at every balanced bound, both numberings of the pairs, file thresholds 0 and 2 | WAND implements `RankedRetrieval`, its result is exact, its bounds cover what is left, the search ends |
| `maxscore` | K = 2, 4 documents, one term that may be split and one that is not | the same for MaxScore, and that a list is given up only when its documents cannot enter |
| `block_max_wand` | K = 1, 3 documents, blocks of one and of two postings, file thresholds 2 and 3 (a primed call without a known bound starts from 0) | jumping behind blocks and scoring in part are rank safe; the block enumerators never run ahead of the search; every turn moves a cursor |
| `block_max_maxscore` | K = 1, 4 documents, blocks of two postings, file thresholds 0 and 2 | offering a bound in place of a score, and refining the bounds of lagging lists block by block, are rank safe |
| `wand_pair` | K = 1, 4 documents, every split index of two terms | bounding a pair by one of its lists at a time, and looking at the HIGH documents in between, is rank safe; the search ends |
| `query_session` | K = 1, up to three lists over 3 or 4 documents, ranges of one document and none, blocks of two; sessions of three term-at-a-time queries with a counter of two values; such sessions over one document beside other threads | Boolean and ranked answers are exact, in ranges too, but for waves; those of term-at-a-time queries are if one thread runs, and sums of earlier queries never show; every query is answered, whatever other threads do to its accumulator |
| `forward_index` | up to 4 documents of two kinds or none, batches of one, of two or of all documents, 2 threads (2 slots), one kill; two shards; inversion in batches of two by 2 threads and at most two bodies; one iteration of each bisection node | the forward index is the collection whatever the order in which batches end; batches in memory are bounded; a batch that throws leaves no index; otherwise the build ends; shards keep their documents; every splitting of the inversion gives the inverted index; the compressed index says what was parsed |
| `posting_lists` | every list of documents below 7, in an index of two lists; blocks of three; 8-bit words; collections of four types of sequence, built with 0, 1 and 2 threads | cursors of every type implement `PostingList` under any calls; positions and the value before the current one are exact; sequences are committed in order and complete |
| `killed_merge` (violation) | as `forward_index` | a merge killed after it began to rewrite cannot be finished |
| `wand_clipped` (violation) | as `wand`, pair-aware over clipped indexes | the pair-aware bound does not cover a document in both lists of a pair |
| `block_max_wand_pair` (violation) | as `wand_pair`, blocks of two | a document of a HIGH list is passed over |

`IsRankedRetrieval` is the refinement `Retrieval!Spec`: WAND has settled a document
once a cursor over one of its lists is past it; MaxScore has settled the documents
before `nextDoc`, and block-max MaxScore those before `curDoc`; all have settled everything when they stop.  `ExactResult` says
what a caller sees.  `BoundCoversDocuments` and `NonEssentialCannotEnter` are the
facts about bounds that make skipping sound.  `NoBlockMissed` is a question the code
raises and does not answer: a block enumerator cannot go back, the pivot is computed
anew each turn, and the pair-aware bound of some lists depends on the order they
are met in.  It holds because a turn moves a list to the pivot or beyond it.

`ReadsThePostings` is the refinement `Abstract!Spec`: a cursor of any encoding, after
any calls, is at the posting `PostingList` says, so no block, partition, high bits or
running sum of a posting it has left is used for another.  `PositionIsExact` also asks
for the value before the current one, which partitions are located with.
`CompressedIndexIsTheCollection` goes from the records that were parsed to the bytes
that are compressed: each document has, under its new identifier, its title, its
length and its words.  `InversionIsExact` states what the inversion alone must give,
at the point where it is done.

Bounds.  Two terms give up to four cursors: two pairs that interleave, one pair
and a single list, lists of one document.  Three documents let a cursor be behind,
at and beyond the pivot; with K = 1 every insertion raises the threshold; with
K = 2 and four documents the queue is filled, then evicts, and both K documents of a
HIGH list can prime it.  Impacts 1..3 give documents below, at and above each
bound.  `MinSplitLength` is 2 where the code has 256, so that short lists stay
whole and longer ones are split.  Bounds are those that leave the HIGH list no
longer than the LOW one; `SplitPointIsBalanced`, an assumption TLC evaluates, checks
that the bounds `compute_splits.py` chooses are among them.

Four documents in batches of one make five batches, the last of them empty: more than
the two slots, so that the reader blocks, and a number that is no power of two, so that
runs of different levels are left on the stack.  The two kinds of document share a term
and order it differently in their batches.  `MaxShards`, `MaxBodies`, `Iterations` and
`Depths` bound the pipeline: two bodies split, read and join in every order; the depth 3
reaches past ranges of two documents, where the recursion ends by size, and 1 ends it by
depth; four documents make a configuration of two levels.

A `Cycle` of two values wraps in the second query of a session, so the third reads what
the first has left; `PerBlock` is 3 so that the last block is not full.  Beside other
threads the sums they leave are 0 and 1, on one document: enough for every step of a query
to find any counter, and sums that it did not add itself.  Blocks of three
postings, groups of four bytes and words of eight bits make every list of up to seven
documents cross block, group and word boundaries; `LinearScan` is 1 and the samples are
every second or fourth one, so that scans and jumps both occur; `FixCost` and
`SuperblockBound` are small enough for lists of several partitions and of one.
Collections have groups of one job and of several, and as many groups as to wait for room.

Fairness.  Each algorithm is one thread's loop that never waits: weak fairness of
the whole next-state relation; in `PlainQueries` of the thread's own steps (`Step`), and of
nothing that other threads do.  In `SafeQuery` the scan and the return are separate
parts of that loop, each weakly fair.  In `ForwardIndexBuilder` the reader is a thread,
so the main thread's steps are weakly fair, and so are the tasks' together: the task
group has at least one worker.  No fairness is assumed of exceptions, of the discarding
of cancelled tasks or of kills.  `BuildEnds` excludes a build in which a batch throws:
its slot is never given back, and the reader may wait for one for ever.  `CHECK_DEADLOCK FALSE` is set because a query
that has ended, or a pipeline that is through, does nothing more; in `posting_lists` it is
not set, so that a caller waiting for a group that nobody prepares would be found.

### Findings

`wand_clipped`: `pair_aware_wand` takes the LOW bound off when the second list of a
pair joins the sum.  That is right on a split index, where a document is in one of
the two lists, and wrong on a clipped one, where it may be in both and scores their
sum.  `example/run-improvement-sequence.sh` runs the pair-aware algorithms on both.

`block_max_wand_pair`: the block test sums the blocks of the current lists only.  When
the LOW list is current and the pivot, or a document its block reaches over, is in the
HIGH list, the jump passes a document that could enter.

`killed_merge`: `merge` rewrites the identifiers in each batch file in place, while the
file with the batch's terms stays as it is.  `parse_collection merge` is meant to finish
a merge that was killed (`tools/parse_collection.cpp:52`, `docs/source/parsing.md:22`);
run after a kill in or after the rewriting it maps identifiers that are mapped already,
and documents get other terms.  A kill before the rewriting is harmless
(`BuildIsCorrect`).

### Remarks met while modelling

Each of these is in the model as the code has it, or excluded where named; none has a
run of its own.

- Over clipped indexes `wand_pair_query` does not end when the LOW list stands exactly on
  the next HIGH document and there is no pivot: the turn moves nothing.  `wand_pair` runs
  over split indexes, where one of the lists is always behind.
- The benchmark calls these queries `wand_pair_fixed` and `block_max_wand_pair_fixed`; its
  `wand_pair` and `block_max_wand_pair` give paired cursors to the ordinary queries.
- `get_low_query` copies no pairs, so the bounds of the LOW lists of a wave are 0 and its
  second phase returns at once: a wave finds documents of HIGH lists only, while the
  comments have it search the LOW lists next (`maxscore_query.hpp:211-219`).
  `AnswersAreExact` therefore leaves waves out; `WavesAnswer` proves what they do answer.
- The threads of `evaluate_queries.cpp` write to one accumulator at once
  (`tools/evaluate_queries.cpp:283`), so that with more than one thread a term-at-a-time
  answer can be anything: `AnswersAreExact` claims such an answer for one thread only
  (`Alone`).
- `make_scored_cursors` ignores the weight of a term; `range_query` clears the queue and
  with it the threshold, `range_taat_query` does not; no tool calls either.
- The term-at-a-time lambdas of `tools/queries.cpp` hold a queue by reference that has
  gone with its block (`tools/queries.cpp:486`): batches are modelled as in
  `evaluate_queries.cpp`, a queue for each query.
- `reorder_by_feature` takes the sorted positions for a mapping of old to new identifiers
  (`SortedByFeature`), the inverse of what would put documents in feature order
  (`docs/source/document_reordering.md:47`); postings, sizes and titles agree all the same.
- The uncompressed `forward_index` gives gaps where the compressed one gives terms; only
  gains suffer, and `InversionIsExact` claims the compressed one.
- The default depth of a bisection is a conversion of a negative number for less than 32
  documents: any depth.  A mapping file is not checked to be a permutation: only
  permutations are modelled.
- `create_random_mapping` may give fewer shards than asked for.  The linear quantizer maps
  the largest score to `2^bits`.
- A batch that throws never gives its slot back.
- `seen_term` has 64 bits, and identifiers of pairs are taken modulo 64: in a query of more
  terms a list can pass for the second one of another pair.  `WordBits` is in the model;
  the instances have two terms.

## 4. What is proved

What `RankedRetrieval_proofs` says holds for every set of documents, every set of natural
scores with 0 and every capacity K > 0 (`DocsAssumption`, `ScoresAssumption`, `KAssumption`).

The property `ExactAboveFloor` speaks only of the moment when everything is settled
and is not inductive.  `RetrievalInv` strengthens it: an entry of the heap is a
settled document above the floor (`HeapInv`); the threshold is the floor until the
heap is full and from then on bounds every entry from below (`ThresholdInv`); a
settled document is in the heap or scores no more than the threshold
(`SettledInv`).  A push below capacity needs that the threshold is still the floor;
a push at capacity needs that the evicted entry is a lowest one, so that what has
left scores at most the new threshold.  `Exactness`, `TypeCorrect` and
`ThresholdMonotone` follow.

For `SafeQuery` the invariant adds that a rerun starts from a threshold K documents
beat, and that `finalize` drops nothing.  `SafeExact` then needs a counting
argument: a heap exact above a threshold that K documents beat is full
(`SoundFloorFillsHeap`).

### The forward index

What `ConcurrentBuilds_proofs` says of it holds for every input, every size of a batch
(with none, or a negative one, all records are one batch), every number of kills and every
number of threads the program accepts (`ThreadsAssumption`, `WorkloadAssumption`).
`BatchesBounded` alone is not inductive: that a batch may start only below the capacity
bounds the slots, not the batches. `SlotsInv` adds that the batches in the task group are
no more than the slots taken; every step that takes a batch out gives back at most one
slot. `NoIndexAfterFailure` needs `FailureInv`: nothing is written before the merge, the
merge starts with an empty task group (so nothing can throw any more) and never after an
exception.

`IndexIsInOrder` says that the concurrent build writes what a build of one batch after
the other would: the batches are as many as it takes for all records (`AllBatched`), the
titles are those of the records in the order in which they were read, and the documents
those of the batches in their order, each batch rewritten once with the terms of the
index; also when a merge was killed before it rewrote a batch and was run again.  It
follows from `BuildInv`, which tracks a batch on its way:

- the reader holds the records after those of the batches before, and hands over a full
  batch or the rest (`ReadInv`, `BatchedInv`), so that a batch is a function of its
  number (`BatchRecords`) whatever happens to it then;
- a batch is in the task group with those records until its files are written, and no
  batch is missing from both unless the group was cancelled (`TasksInv`);
- the files are as the task wrote them, or rewritten exactly when the merge that runs has
  come to them (`FilesInv`).  This is what a kill in the middle of the rewriting
  breaks, after which `torn` holds and `killed_merge` shows what comes of it;
- what is on its way to the index is that of the batches in their order (`OutputInv`).

`TypeOK` follows too.

`BuildGivesTheCollection` says what this amounts to, for every input and whatever
`Garbage` may be read beyond an array: `BuildIsCorrect`, the index is the collection, each
term under its place among the sorted terms.  Beside `BuildInv` it needs

- `TermsInv`: while terms are collected the stack holds sorted runs (`Runs`) with exactly
  the terms of the batches so far, however many of them a new run is merged with
  (`PushedRuns`), so that the run left in the end is that of all terms;
- `BatchesHaveEnds` and `BatchesMakeWhole`: batch after batch the records are all records,
  in order, so that what is written per batch and put one after the other is what is
  written for the whole, for titles, terms and documents alike;
- `WrittenHolds`, `MappedHolds`: an identifier of a batch is the place of its term in the
  batch's dictionary, so the rewriting never reads beyond it.

Runs and dictionaries are built with `Ascending`, which `AscendingSorts` shows to sort.
What `FlattenSeq` of the library and `PushSpan` compute is defined by recursion on one
number, for which induction by a least counterexample (`HoldsUpTo`) is enough.

### The shards

The pipeline implements the builder's specification (`PipelineBuilds`), fairness
included: the other tools leave the builder's variables alone.  So what is proved of every
build holds in it, and `ShardsAreTheCollection` says what becomes of the index when it is
cut: `ShardsHoldTheCollection`, for every input and every number of shards, random or by
lists of titles, in whatever order the shards are processed.  The invariant `ShardsInv`
says of each shard that it is as it was copied or as it was processed from that copy, and
that no document is given to a shard that does not exist (`RandomMaps`, `FilesMap`,
`ShardsAreCounted`).  The rest is about the data:

- `RemappedIsRank`, `FinishedHolds`: the prefix sum over the terms that occur, the first of
  which was reset, counts those below a term, which is the term's place among those that
  are kept;
- `FlattenIsInjective`, `ShardsPermute`: one after the other the shards hold each
  document once.

### The inversion

In `IndexPipeline_proofs` `InversionIsRight` shows `InversionIsExact` for the collection
and for any shard that is inverted, for every size of a batch (`InvertBatch`), every number of threads that map
documents to postings, any number of bodies, and every order in which `parallel_reduce`
splits, reads and joins.  What is inverted has terms numbered without gaps and documents
of terms because the build and the shards do (`DoneIsTyped`, `FinishedIsTyped`), so the
invariant `InversionInv` stands on those of the sections above.  Its parts:

- `PostingsOfBatch`: the shares of the threads are parts of a batch that meet
  (`PlacesAreShared`), so a posting is there as often as the term in the document, and
  sorting changes that for none (`SortedIsInOrder`).
- `Covering`, in `BatchInv`: from left to right each body begins where the one before it
  ends, has read its postings up to some place, and its lists `Represents` what it has
  read: for each term the documents in ascending order, each with its count.  `ReadCovers`,
  `SplitCovers` and `JoinCovers` keep this.  A run of equal postings may be cut anywhere.
  In a body that reads on, the rest of a run is added to the last frequency
  (`AccumulatedKeeps`); between two bodies, `join_term` adds the first frequency of the
  right one to the last of the left one (`JoinedListing`).  Both are right only because
  the postings are in order, which leaves a document in both parts only at the cut.
- `AreCounted`: the files of the batches, one after the other, hold the lists of the
  documents processed, since documents of a later batch are greater (`OneMoreCounted`).
- There is one ascending list of the documents that have a term (`AscendingIsUnique`), so
  the lists of all batches are those that the index should have (`MergeInverts`).
- The forward index keeps the gaps of the terms, and prefix sums of them are the terms
  (`SumsOfGaps`, `ForwardHoldsTerms`).

`Sorted`, `PushRuns` and `KeptTerms` give the outcome of a sort and of two loops in closed
form, in which they can be reasoned about.

### The reordered and the compressed index

`CompressionIsRight` shows `CompressedIndexIsTheCollection`, the last word of the pipeline,
for the collection and for any shard of it: whatever order the documents are given, the
compressed lists with the document lexicon and the sizes say of each document what was
parsed.  `ReorderInv` follows the words through the tools, each of which has its own idea
of them:

- `HoldsWords`, of what is inverted: its documents have the words of their records, under
  the numbers of its dictionary.  The collection has them by what is proved of the build
  (`CompleteHolds`); a shard has them although its terms were renumbered, because the
  words keep their order and those no document has are dropped (`ShardHolds`,
  `RenamedOccurs`).
- `IsTallied`, of the inverted index, which `InversionIsRight` gives: a list is ascending
  and has each document with the count of the term (`SourceCounts`, `CountsOfWord`).
- `Bisects`: the array that bisection permutes is an order of all documents (`IsOrder`)
  and the ranges of its nodes are inside it.  Gains are arbitrary, so a sort may put a part
  in any order and an exchange may take any places (`SortedIsOrder`, `ShuffledIsOrder`,
  `SwappedIsOrder`); each is a permutation of the places of one node (`Permutes`,
  `StaysOrder`), and the parts of a node are a node (`NodesFit`, `NodeKeeps`), whichever
  order nodes run in.  The array is the inverse of the mapping, and again an order
  (`InverseIsOrder`, `GotMapping`); so are the mapping by features and the one that lines
  of a file give, in whatever order they stand (`FeaturesGiveMapping`, `LinesGiveMapping`).
- `HoldsCollection`, of the reordered index (`ReorderedHolds`): titles, sizes and lists
  are moved by the same mapping.  A list is sorted again after its documents were renamed,
  and each frequency must go where its document went: `ReorderedTallies`, for which the
  new identifiers of a list are as many as its documents.
- The compressed lists (`PostingsHold`): a list that is not quantized keeps its counts;
  quantizing needs the largest of all frequencies, which exists if there is a list
  (`GreatestExists`), and then gives no posting 0 and puts none before a smaller one
  (`QuantizedKeepsOrder`).

Assumed are `IterationsAssumption` (features are numbers, in the order of the strings),
`QuantizationAssumption` and `ConfigAssumption`: a configuration gives nodes with two
ranges of the documents that have nothing in common.  The program reads the file of a
configuration without a check; for one with other ranges nothing is claimed.

### The queue of sequence collections

What `ConcurrentBuilds_proofs` says of it holds for every collection, every number of
threads the hardware may report, 0 included, every share of work for which a thread is
started, and every way of writing the bits of a sequence (`Prepared`). It is about
`QueueSpec`; `PostingListCursor` takes the queue's initial states and steps from the same
definitions, with `SequenceBits` for `Prepared`, and otherwise leaves its variables alone,
so that TLC checks `SequencesInOrder` there on the real bits.

`SequencesInOrder` is not inductive: it says which sequences the jobs of a group are of,
not that the bits written into a job are those of its own sequence.  `QueueInv` adds this
(`HoldTheirs`).  That a commit cannot append a job too early is the join of the thread,
which leaves no job unprepared (`BitsArePrepared`); the groups fit together at their
`ends`, which each step shifts: a job added moves the last one, a group started adds one,
a group committed drops the first.  Without a thread nothing may be gathered
(`ThreadsInv`), or what is committed at once would overtake it.

### The query algorithms

`Wand_proofs`, `MaxScore_proofs` and `BlockMaxMaxScore_proofs` hold for every number of documents, every set of calls with any number of lists, every
initial threshold, every capacity and every partition of the lists into blocks.  Each
proves that the algorithm implements `RankedRetrieval` step by step
(`IsRankedRetrieval`), that its result is exact, and its type invariant; `Wand_proofs`
also the bound over the first lists (`BoundCoversDocuments`) and, for block-max WAND, that
no block is missed (`NoBlockMissed`), `MaxScore_proofs` that no posting of an essential
list is jumped and that lists are given up only when their documents cannot enter.

What they assume of the calls is what the code that builds the cursors provides, and
TLC evaluates it on the calls of every run:

- `NumDocsAssumption`, `KAssumption`, `ThresholdsAssumption`: a document at least, a
  capacity of at least one, thresholds that are numbers.
- `WorkloadAssumption`: the bound of a list is not below the score of any posting
  (`IsQuery`; wand data takes the maximum of the list), and a primed threshold counts
  documents that exist (`PrimingHolds`).
- `BlocksHold`: the first block that reaches a posting bounds its score, which is what
  `static_block_partition` computes; any partition with that property will do.  For
  block-max WAND it is a hypothesis of the theorems (`BlocksOfLists`), so that those about
  WAND do without it.
- `PairAwareOnSplit`, a hypothesis of the theorems and no assumption of the modules:
  pair-aware calls are over split indexes of pairs that the query's bit vector can tell
  apart (`PairBoundsHold`).  `SplitPairBounds` in `SmallIndexes`, which TLC evaluates,
  says that every split index of the instances is one.  It excludes clipped indexes, for
  which `wand_clipped` shows the conclusion false, and queries of more than 64 terms,
  whose identifiers share bits.

The argument has the same parts each time.

- Sums and bounds (`Cursors_proofs`).  Sums over sets of lists are split, compared and
  accumulated by descent from a least counterexample (`LeastNat`), as the induction
  theorems of the library are out of reach.  `AccumulatedCovers` is the heart
  of the pair-aware bound: while the bit of a pair is set, a document of the list still
  to come is not in the list that was met, so at least the LOW bound of what that list
  added is unused and may be taken off.  The word holds only the identifier set last, so
  the lemma needs no order in which lists are met: what is forgotten makes the bound
  larger.
- Places.  `PlacesInv` says where cursors may stand: on a posting of their list or at the
  end, in sorted order (WAND), each essential cursor at its first posting from the next
  document on (MaxScore), block enumerators not ahead of the document the loop is at
  (block-max MaxScore); and that an entry of the queue is behind every cursor, so that
  no document is offered twice.
- Progress.  The queue satisfies the invariant of the abstract retrieval
  (`Promise!RetrievalInv`) for the settled documents, and those a cursor has passed are
  settled or cannot enter (`SkippedCannotEnter`); the lists given up cannot beat the
  threshold together (`GivenUp`).
- Steps.  A turn of WAND or block-max WAND is one of two: it scores a document
  (`ScoresAt`), in full or, if the document cannot enter, in part; or it moves a cursor
  over documents that cannot enter (`Jumps`).  `ScoredStep` and `JumpStep` show once that
  these are an `Offer` and a `Skip`.  That a block test may skip a document needs
  `NoBlockMissed`: the block a list stands on is the one the document is in only if the
  enumerator has not run ahead.  It is part of the inductive invariant, and holds because
  the blocks are moved to the pivot and no document before the pivot can enter.

`Exactness` of the abstract retrieval then carries over through the mapping.  For
block-max MaxScore, which has no priming, `ExactResult` speaks of the threshold the
query started from.

### The plain queries

`PlainQueries_proofs` shows `AnswersAreExact` for every collection, every workload of
Boolean and ranked queries, conjunctive and disjunctive, every range size, and every
session of term-at-a-time queries that no other thread interferes with.  That last
condition is `Alone`; it is a fact of the batch, which no step changes (`StepKeepsAlone`),
and a step of another thread contradicts it (`InterfereIsNotAlone`), so that the invariant
is `Alone => SessionInv` and its steps are those of the thread itself.  Of waves
`WavesAnswer` shows that they answer with the best documents of HIGH lists and with no
other, which is less than the comments promise.  These queries use no bound of a list and settle documents in an
order of their own, so they are not steps of `RankedRetrieval`; what the answer holds
(`Held`), and what is done with (`Answered`), is defined for the list of a Boolean query
and the queue of a ranked one alike.  `RunInv` and `OutputInv` (`ListInv`: the rows are of
matches, in increasing order; `BestInv`: the queue and its threshold, as in `RetrievalInv`)
give the exact answer once all documents are done with (`AnswerGivesMatches`); that they are
when the query is answered needs an account of how far each kind of algorithm has come:

- A document at a time (`DisjunctionInv`): all documents before some frontier are done with,
  no other is held, and the cursors that documents are taken from stand on their first
  postings from it on.  At the end of a range the candidate is the limit, and says no more
  where they stand.  The LOW cursors of a wave may lag behind.
- A term at a time (`RangeInv`, `AccumulatorInv`): while lists are added the accumulator
  holds, for each document of the range, the sum over the lists that have passed it
  (`Summed`), and 0 for any other; when it is aggregated, the full scores (`Aggregated`).
  That sums of earlier queries never show is `AccumulatorInv`: between queries no
  accumulator carries the counter of the next one, unless that is 0, when all are cleared.
- Conjunctions (`ConjunctionInv`, `BlocksInv`): a match not yet done with is behind no
  cursor, in the range not behind the candidate, and not in a block that was left; what is
  held is behind some cursor.  This holds whatever the candidate does, which may go back
  when blocks end before it (`JumpInv`), and for any order of lists of one length.

Its assumptions are again of the data and evaluated by TLC: cursors with natural scores
(`IsQuery`), blocks that bound their postings and end with the last one
(`WorkloadAssumption`), an accumulator for every document (`AccumulatorsAssumption`).
That a query is answered at all (`SessionEnds`) stays with TLC.

### Model-checked only

Liveness (`SearchEnds` and the other properties with fairness) and `ENABLED` are out of
the prover's reach.  So is induction over data, and with it what is recursive over its
input: the codecs, the sequences, the tools that build a split index (`PairedIndex`).  The
paired queries and the cursors on posting lists (`PositionIsExact`) are model-checked.

## 5. Plan

1. Proofs: `WandPair` implements `RankedRetrieval` on split indexes.
2. The ordinary queries over paired cursors; queries by term identifier.
3. Variable-size blocks as any partition of a list; the compressed form of the wand data.

## 6. Not modelled

- The parallel benchmark: what its workers share they race for, so that no outcome is
  more right than another.  Of `evaluate_queries`, which races for the accumulators,
  `PlainQueries` has one thread and what the others may do to it.
- A collection without terms, whose inversion ends in an exception for the empty file of
  frequencies, and a kill in the middle of rewriting one batch of the merge: batches are
  rewritten in one step.
- OptPFor, Simple8b, Simple16, QMX, StreamVByte, MaskedVByte and SIMD-BP: libraries of
  submodules, or SIMD instructions.
- Memory mapping, binary collections and payload vectors: layout without control.
- Tokenising, stemming, HTML and topic files: text processing.
- Scorers, Taily, the cost that chooses variable-size blocks: floating point.
- Command-line tools: argument handling around the components above.
