------------------------------- MODULE Sharding -------------------------------
(***************************************************************************)
(* A forward index cut into shards (sharding.hpp, partition_fwd_index.cpp): *)
(* each document is copied to the shard a mapping gives it, and the shards *)
(* are processed in parallel: each gets the terms that occur in it, and    *)
(* its identifiers are rewritten in place.  It is given what               *)
(* ForwardIndexBuilder has written.                                        *)
(*                                                                         *)
(* A collection is a record of titles, terms and docs; identifiers count   *)
(* from 0.  A title stands for its URL too.                                *)
(***************************************************************************)
EXTENDS ForwardIndexBuilder

CONSTANT MaxShards    \* bound on the number of shards asked for

ASSUME MaxShardsAssumption == MaxShards \in Nat \ {0}

VARIABLES
  shardOf,     \* mapping: the shard of each document
  shards       \* the files of the shards, with a flag: processed

shardingVars == <<shardOf, shards>>

\* create_random_mapping: the shuffled documents in chunks.  Where the chunks are few
\* there are fewer shards than asked for.
RandomMapping(shuffled, count) ==
  LET size == (Len(shuffled) + count - 1) \div count
      place(d) == CHOOSE p \in DOMAIN shuffled : shuffled[p] = d
  IN  [d \in DOMAIN shuffled |-> (place(d) - 1) \div size]

\* mapping_from_files: the first shard that lists the title, shard 0 when none does.
MappingFromFiles(titles, lists) ==
  LET listing(t) == {s \in DOMAIN lists : t \in lists[s]}
      first(S) == CHOOSE s \in S : \A r \in S : s <= r
  IN  [d \in DOMAIN titles |->
         IF listing(titles[d]) = {} THEN 0 ELSE first(listing(titles[d])) - 1]

ShardCount(mapping) == 1 + CHOOSE s \in Range(mapping) : \A r \in Range(mapping) : r <= s

\* rearrange_sequences: sequences and titles are copied in step.
Rearranged(collection, mapping, shard) ==
  LET members == Ascending({d \in DOMAIN mapping : mapping[d] = shard})
  IN  [titles |-> [i \in DOMAIN members |-> collection.titles[members[i]]],
       docs   |-> [i \in DOMAIN members |-> collection.docs[members[i]]],
       terms  |-> <<>>, processed |-> FALSE]

\* partition_fwd_index; the largest element of a mapping must exist.
Partition(collection, mapping) ==
  /\ mapping # <<>>
  /\ shardOf' = mapping
  /\ shards' = [s \in 1..ShardCount(mapping) |-> Rearranged(collection, mapping, s - 1)]

PartitionRandomly(collection) ==
  \E count \in 1..MaxShards, shuffled \in Bijection(DOMAIN collection.docs, DOMAIN collection.docs) :
    Partition(collection, RandomMapping(shuffled, count))

PartitionByTitles(collection) ==
  \E lists \in [1..MaxShards -> SUBSET Range(collection.titles)] :
    Partition(collection, MappingFromFiles(collection.titles, lists))

HasTerm(docs) == UNION {Range(docs[i]) : i \in DOMAIN docs}

\* Mutant of RemappedTermId: the first term that occurs counts.
RemappedFromOne(has, id) == Cardinality({t \in has : t <= id})

\* The prefix sum of has_term after the first term that occurs has been reset.
RemappedTermId(has, id) ==
  Cardinality({t \in has : t <= id /\ \E u \in has : u < t})

\* process_shard
ProcessShard(collection, s) ==
  /\ ~shards[s].processed
  /\ LET has == HasTerm(shards[s].docs)
         kept == Ascending({t \in 0..(Len(collection.terms) - 1) : t \in has})
     IN  shards' = [shards EXCEPT
           ![s].terms = [i \in DOMAIN kept |-> collection.terms[kept[i] + 1]],
           ![s].docs = [i \in DOMAIN @ |-> [j \in DOMAIN @[i] |-> RemappedTermId(has, @[i][j])]],
           ![s].processed = TRUE]
  /\ UNCHANGED shardOf

AllProcessed == shards # <<>> /\ \A s \in DOMAIN shards : shards[s].processed

-----------------------------------------------------------------------------

\* What a shard should hold: its documents in the order of the collection, with the
\* same words under identifiers of its own.
HoldsItsDocuments(collection, shard, s) ==
  LET mine == Ascending({d \in DOMAIN shardOf : shardOf[d] = s})
  IN  /\ shard.titles = [i \in DOMAIN mine |-> collection.titles[mine[i]]]
      /\ Range(shard.terms) = {collection.terms[t + 1] : t \in
                                 UNION {Range(collection.docs[mine[i]]) : i \in DOMAIN mine}}
      /\ \A i \in 1..(Len(shard.terms) - 1) : shard.terms[i] < shard.terms[i + 1]
      /\ DOMAIN shard.docs = DOMAIN mine
      /\ \A i \in DOMAIN mine :
           LET copy == shard.docs[i]
               original == collection.docs[mine[i]]
           IN  /\ DOMAIN copy = DOMAIN original
               /\ \A j \in DOMAIN copy :
                    copy[j] < Len(shard.terms)
                    /\ shard.terms[copy[j] + 1] = collection.terms[original[j] + 1]
=============================================================================
