----------------------------- MODULE Reordering ------------------------------
(***************************************************************************)
(* New identifiers for the documents of an inverted index                  *)
(* (reorder_docids.hpp, tools/reorder_docids.hpp): a random permutation,   *)
(* the order of a feature, a mapping from a file, or recursive graph       *)
(* bisection (recursive_graph_bisection.hpp).                              *)
(*                                                                         *)
(* Bisection permutes an array of documents.  A node has two adjacent      *)
(* parts of it; an iteration sorts each part by gain and exchanges their   *)
(* first documents, pair by pair, as long as it pays.  Gains are floating- *)
(* point numbers from degrees of terms that are kept for each thread and   *)
(* may be those of another node, for a thread that waits for its sorts may *)
(* process one: any order of a part and any number of exchanges may come   *)
(* out.  The nodes of a level run in parallel.                             *)
(***************************************************************************)
EXTENDS ForwardIndexBuilder

CONSTANTS
  Iterations,   \* iterations of a node: 20
  Depths,       \* values of --depth
  Features      \* features of documents, in the order of the strings

ASSUME IterationsAssumption ==
  Iterations \in Nat /\ Depths \subseteq Nat \ {0} /\ Features \subseteq Int

VARIABLES
  fwd,        \* the forward_index: entries and whether they are compressed
  order,      \* documents, the array that is permuted
  nodes,      \* the nodes that run
  levels,     \* the levels of a node configuration that have not run
  reordered   \* the index under its new identifiers: [lists, sizes, lexicon]

reorderingVars == <<fwd, order, nodes, levels, reordered>>

NoForwardIndex == [entries |-> <<>>, compressed |-> TRUE, minLength |-> 0]
NotReordered == [lists |-> <<>>, sizes |-> <<>>, lexicon |-> <<>>]

-----------------------------------------------------------------------------
(* forward_index *)

\* The identifiers of a document's terms in order, without those of short lists.
KeptTerms(inverted, d, minLength) ==
  LET lists == inverted.lists
  IN  Ascending({t - 1 : t \in {u \in DOMAIN lists : /\ d \in Range(lists[u].docs)
                                                     /\ Len(lists[u].docs) >= minLength}})

\* from_inverted_index: the identifiers as gaps.
FromInvertedIndex(inverted, minLength, compressed) ==
  LET gaps(ids) == [i \in DOMAIN ids |-> IF i = 1 THEN ids[1] ELSE ids[i] - ids[i - 1]]
  IN  [entries |-> [i \in DOMAIN inverted.sizes |-> gaps(KeptTerms(inverted, i - 1, minLength))],
       compressed |-> compressed, minLength |-> minLength]

\* terms: the codec of compressed entries adds the gaps up, the other does not.
TermsOf(index, d) ==
  LET gaps == index.entries[d + 1]
      sum[i \in 0..Len(gaps)] == IF i = 0 THEN 0 ELSE sum[i - 1] + gaps[i]
  IN  IF index.compressed THEN [i \in DOMAIN gaps |-> sum[i]] ELSE gaps

-----------------------------------------------------------------------------
(* Applying a mapping from old to new identifiers *)

\* Each element moves to where the mapping puts it.
Moved(seq, mapping) ==
  [i \in DOMAIN seq |-> seq[CHOOSE d \in DOMAIN seq : mapping[d] = i - 1]]

\* Mutant of ReorderSizes: the sizes are taken from where the mapping points.
ReorderSizesBack(sizes, mapping) == [i \in DOMAIN sizes |-> sizes[mapping[i] + 1]]

\* reorder_sizes
ReorderSizes(sizes, mapping) == Moved(sizes, mapping)

\* reorder_postings: mapped and sorted again, the frequencies with their documents.
ReorderPostings(list, mapping) ==
  LET new(i) == mapping[list.docs[i] + 1]
      docs == Ascending({new(i) : i \in DOMAIN list.docs})
  IN  [docs  |-> docs,
       freqs |-> [k \in DOMAIN docs |->
                    list.freqs[CHOOSE i \in DOMAIN list.docs : new(i) = docs[k]]]]

\* reorder_from_mapping and reorder_inverted_index
ReorderWith(inverted, titles, mapping) ==
  reordered' = [sizes |-> ReorderSizes(inverted.sizes, mapping),
                lists |-> [t \in DOMAIN inverted.lists |->
                             ReorderPostings(inverted.lists[t], mapping)],
                lexicon |-> Moved(titles, mapping)]

Mappings(inverted) ==
  {[i \in DOMAIN p |-> p[i] - 1] : p \in Bijection(DOMAIN inverted.sizes, DOMAIN inverted.sizes)}

ReorderRandomly(inverted, titles) ==
  /\ \E mapping \in Mappings(inverted) : ReorderWith(inverted, titles, mapping)
  /\ UNCHANGED <<fwd, order, nodes, levels>>

\* reorder_by_feature: the places of the features in their order are taken for the
\* mapping, which is its inverse.  A file with another number of lines is refused.
SortedByFeature(features) ==
  LET before(e, d) == features[e] < features[d] \/ (features[e] = features[d] /\ e < d)
      place(d) == Cardinality({e \in DOMAIN features : before(e, d)}) + 1
  IN  [i \in DOMAIN features |-> (CHOOSE d \in DOMAIN features : place(d) = i) - 1]

ReorderByFeature(inverted, titles) ==
  /\ \E features \in [DOMAIN inverted.sizes -> Features] :
       ReorderWith(inverted, titles, SortedByFeature(features))
  /\ UNCHANGED <<fwd, order, nodes, levels>>

\* reorder_from_mapping, with a file: each line sets the entry of an old identifier.
\* The lines need not be in their order.
FromLines(lines) ==
  [i \in DOMAIN lines |-> lines[CHOOSE l \in DOMAIN lines : lines[l][1] = i - 1][2]]

ReorderFromMapping(inverted, titles) ==
  /\ \E mapping \in Mappings(inverted) :
       LET lines == [l \in DOMAIN mapping |-> <<l - 1, mapping[l]>>]
       IN  \/ ReorderWith(inverted, titles, FromLines(lines))
           \/ ReorderWith(inverted, titles, FromLines(Reverse(lines)))
  /\ UNCHANGED <<fwd, order, nodes, levels>>

-----------------------------------------------------------------------------
(* Recursive graph bisection; [first, last) is a range of the array *)

Places(r) == (r[1] + 1)..r[2]
Length(r) == r[2] - r[1]

\* The array with the documents at some places in ascending order.
SortedAt(a, places) ==
  LET at == Ascending(places)
      sorted == Ascending({a[i] : i \in places})
  IN  [i \in DOMAIN a |->
         IF i \in places THEN sorted[CHOOSE k \in DOMAIN at : at[k] = i] ELSE a[i]]

\* The array with the documents at some places in another order.
ShuffledAt(a, places) ==
  {[i \in DOMAIN a |-> IF i \in places THEN a[p[i]] ELSE a[i]] : p \in Bijection(places, places)}

\* swap: the first k documents of the parts are exchanged.
Swapped(a, left, right, k) ==
  [i \in DOMAIN a |->
     IF i \in (left[1] + 1)..(left[1] + k) THEN a[i - left[1] + right[1]]
     ELSE IF i \in (right[1] + 1)..(right[1] + k) THEN a[i - right[1] + left[1]]
     ELSE a[i]]

\* document_range::split
NodeOf(r, depth) ==
  LET middle == r[1] + Length(r) \div 2
  IN  [left |-> <<r[1], middle>>, right |-> <<middle, r[2]>>, depth |-> depth,
       iteration |-> 0, phase |-> "sort"]

\* The forward index is stored, and nothing else is asked for (--store-fwdidx).
StoreForwardIndex(inverted) ==
  /\ \E compressed \in BOOLEAN, minLength \in 0..2 :
       fwd' = FromInvertedIndex(inverted, minLength, compressed)
  /\ UNCHANGED <<order, nodes, levels, reordered>>

\* The entry of bisection; without --depth it is computed from the number of documents,
\* and for less than 32 is a conversion of a negative number: any depth.  Which terms
\* the forward index leaves out only changes gains.
StartBisection(inverted) ==
  /\ fwd' = FromInvertedIndex(inverted, 0, TRUE)
  /\ order' = [i \in DOMAIN inverted.sizes |-> i - 1]
  /\ \E depth \in Depths : nodes' = {NodeOf(<<0, Len(inverted.sizes)>>, depth)}
  /\ levels' = <<>>
  /\ UNCHANGED reordered

\* The nodes that n documents can have: two ranges with nothing in common.
Ranges(n) == {r \in (0..n) \X (0..n) : r[1] <= r[2]}
NodesFor(n) ==
  {node \in [left : Ranges(n), right : Ranges(n), depth : Nat, iteration : Nat,
             phase : {"sort", "iterate"}] : Places(node.left) \cap Places(node.right) = {}}

\* run_with_config: a level is a set of nodes.
ConfiguredNode(left, right) ==
  [left |-> left, right |-> right, depth |-> 0, iteration |-> 0, phase |-> "sort"]

StartConfigured(inverted, config) ==
  /\ fwd' = FromInvertedIndex(inverted, 0, TRUE)
  /\ order' = [i \in DOMAIN inverted.sizes |-> i - 1]
  /\ nodes' = config[1]
  /\ levels' = Tail(config)
  /\ UNCHANGED reordered

\* A node of the tree sorts its range, a configured one each of its parts.
SortNode(node) ==
  /\ node.phase = "sort"
  /\ order' = IF node.depth > 0 THEN SortedAt(order, Places(node.left) \cup Places(node.right))
              ELSE SortedAt(SortedAt(order, Places(node.left)), Places(node.right))
  /\ nodes' = (nodes \ {node}) \cup {[node EXCEPT !.phase = "iterate"]}
  /\ UNCHANGED <<fwd, levels, reordered>>

\* An iteration of process_partition.
Iterate(node) ==
  /\ node.phase = "iterate"
  /\ node.iteration < Iterations
  /\ \E a \in ShuffledAt(order, Places(node.left)) :
       \E b \in ShuffledAt(a, Places(node.right)),
          k \in 0..Min({Length(node.left), Length(node.right)}) :
         order' = Swapped(b, node.left, node.right, k)
  /\ nodes' = (nodes \ {node}) \cup {[node EXCEPT !.iteration = @ + 1]}
  /\ UNCHANGED <<fwd, levels, reordered>>

Recurses(node) == node.depth > 1 /\ Length(node.left) + Length(node.right) > 2

\* The parts are bisected in parallel, or sorted in the end.
EndNode(node) ==
  /\ node.phase = "iterate"
  /\ node.iteration = Iterations
  /\ nodes' = (nodes \ {node}) \cup
       IF Recurses(node) THEN {NodeOf(node.left, node.depth - 1), NodeOf(node.right, node.depth - 1)}
       ELSE {}
  /\ order' = IF Recurses(node) \/ (node.depth = 0 /\ levels # <<>>) THEN order
              ELSE SortedAt(SortedAt(order, Places(node.left)), Places(node.right))
  /\ UNCHANGED <<fwd, levels, reordered>>

\* The next level begins when all nodes of the level have ended.
NextLevel ==
  /\ nodes = {}
  /\ levels # <<>>
  /\ nodes' = Head(levels)
  /\ levels' = Tail(levels)
  /\ UNCHANGED <<fwd, order, reordered>>

\* get_mapping: the place of each document.
GetMapping(array) ==
  [i \in DOMAIN array |-> (CHOOSE p \in DOMAIN array : array[p] = i - 1) - 1]

EndBisection(inverted, titles) ==
  /\ order # <<>>
  /\ nodes = {}
  /\ levels = <<>>
  /\ ReorderWith(inverted, titles, GetMapping(order))
  /\ order' = <<>>
  /\ UNCHANGED <<fwd, nodes, levels>>

Bisect ==
  \/ \E node \in nodes : SortNode(node) \/ Iterate(node) \/ EndNode(node)
  \/ NextLevel

-----------------------------------------------------------------------------

\* What the forward index should hold: the terms of each document.
HoldsTerms(index, inverted) ==
  \A d \in DOMAIN index.entries :
    TermsOf(index, d - 1) = KeptTerms(inverted, d - 1, index.minLength)
=============================================================================
