------------------------- MODULE ForwardIndexBuilder -------------------------
(***************************************************************************)
(* The construction of a forward index (forward_index_builder.hpp, run by  *)
(* tools/parse_collection.cpp).  The main thread reads records into        *)
(* batches, a task group turns each batch into files of its own, and the   *)
(* files are merged.  A bounded queue holds one slot for every batch under *)
(* way.  The merge may be killed, and finished by the subcommand "merge".  *)
(* Terms are numbers in the order of the strings; the title of a record is *)
(* its place in the input.                                                 *)
(***************************************************************************)
EXTENDS Integers, Sequences, SequencesExt, FiniteSets

CONSTANTS
  Workload,    \* the inputs: records with fields documents (sequences of terms) and batchSize
  Threads,     \* the option --threads
  MaxKills,    \* bound on the number of times a merge is killed
  Garbage      \* what reading an array beyond its end may yield

ASSUME ThreadsAssumption == Threads \in Nat /\ Threads >= 2

\* With a batch size of zero or less all records are one batch.
ASSUME WorkloadAssumption ==
  /\ MaxKills \in Nat
  /\ \A w \in Workload : w.documents \in Seq(Seq(Nat)) /\ w.batchSize \in Int

VARIABLES
  call,            \* the input, an element of Workload
  pc,              \* where the main thread is
  read,            \* records read so far
  recordBatch,     \* record_batch
  batchNumber,     \* batch_number
  firstDocument,   \* first_document
  slots,           \* the size of the bounded queue
  tasks,           \* the batches in the task group: number |-> [records, written]
  cancelled,       \* a batch threw, which cancels the task group
  files,           \* the files of each batch: number |-> [titles, terms, docs]
  nextBatch,       \* the batch that a loop of merge() has come to
  spans,           \* the stack of collect_terms(): runs of terms with their levels
  output,          \* the files of the index: [titles, terms, docs, count]
  kills,           \* merges killed
  torn             \* one was killed after it had begun to rewrite (history)

reader == <<read, recordBatch, batchNumber, firstDocument>>
pool == <<slots, tasks, cancelled>>
disk == <<files, nextBatch, spans, output, torn>>
vars == <<call, pc, reader, pool, disk, kills>>

documents == call.documents
Capacity == (Threads - 1) * 2
NoOutput == [titles |-> <<>>, terms |-> <<>>, docs |-> <<>>, count |-> 0]

-----------------------------------------------------------------------------
\* The data of a batch and of the merge.

\* A set of numbers as the sorted sequence of them: the k-th is above k - 1 others.
Ascending(S) ==
  [k \in 1..Cardinality(S) |-> CHOOSE x \in S : Cardinality({y \in S : y < x}) = k - 1]

\* The terms of a batch in the order of their first occurrence.
Dictionary(words) ==
  LET places == Ascending({i \in DOMAIN words : \A j \in 1..(i - 1) : words[j] # words[i]})
  IN  [k \in DOMAIN places |-> words[places[k]]]

\* The files that run() writes for a batch; identifiers count from 0.
BatchFiles(records) ==
  LET docs == [i \in DOMAIN records |-> documents[records[i]]]
      terms == Dictionary(FlattenSeq(docs))
      id(w) == (CHOOSE i \in DOMAIN terms : terms[i] = w) - 1
  IN  [titles |-> records, terms |-> terms,
       docs |-> [i \in DOMAIN docs |-> [j \in DOMAIN docs[i] |-> id(docs[i][j])]]]

\* Mutant of MergeSpans: the terms common to both are kept twice.
MergeSpansTwice(lhs, rhs) ==
  [terms |-> SortSeq(lhs.terms \o rhs.terms, <), lvl |-> lhs.lvl + 1]

\* merge_spans: a sorted run of the terms in two adjacent runs.
MergeSpans(lhs, rhs) ==
  [terms |-> Ascending(Range(lhs.terms) \cup Range(rhs.terms)), lvl |-> lhs.lvl + 1]

\* push_span: the run is merged with those on the stack, from the top down, while
\* their level is its own, which each merge raises.
PushSpan(s) ==
  LET height == Len(spans)
      merging[k \in 0..height] ==
        IF k = 0 THEN s ELSE MergeSpans(spans[height - k + 1], merging[k - 1])
      stops(k) == k = height \/ spans[height - k].lvl # s.lvl + k
      last == CHOOSE k \in 0..height : stops(k) /\ \A i \in 0..(k - 1) : ~stops(i)
  IN  spans' = Append(SubSeq(spans, 1, height - last), merging[last])

\* The identifiers of a batch rewritten from its own terms to those of the index;
\* one beyond the batch's terms reads the garbage g.
Remapped(batch, terms, g) ==
  LET global(w) == (CHOOSE i \in DOMAIN terms : terms[i] = w) - 1
      new(id) == IF id + 1 \in DOMAIN batch.terms THEN global(batch.terms[id + 1]) ELSE g
  IN  [titles |-> batch.titles, terms |-> batch.terms,
       docs |-> [i \in DOMAIN batch.docs |->
                   [j \in DOMAIN batch.docs[i] |-> new(batch.docs[i][j])]]]

\* The files of a batch; one that does not exist reads as an empty one.
FilesOf(b) ==
  IF b \in DOMAIN files THEN files[b] ELSE [titles |-> <<>>, terms |-> <<>>, docs |-> <<>>]

\* What is on disk once the files of a batch are written, over any that it had.
WithFiles(b, f) == [c \in DOMAIN files \cup {b} |-> IF c = b THEN f ELSE files[c]]

\* One of the files of all batches, in the order of their numbers.
Concatenated(file) == FlattenSeq([i \in 1..batchNumber |-> FilesOf(i - 1)[file]])

-----------------------------------------------------------------------------

Init ==
  /\ call \in Workload
  /\ pc = "read"
  /\ read = 0 /\ recordBatch = <<>> /\ batchNumber = 0 /\ firstDocument = 0
  /\ slots = 0 /\ tasks = <<>> /\ cancelled = FALSE
  /\ files = <<>> /\ nextBatch = 0 /\ spans = <<>> /\ output = NoOutput /\ torn = FALSE
  /\ kills = 0

ReadRecord ==
  /\ pc = "read"
  /\ read < Len(documents)
  /\ read' = read + 1
  /\ recordBatch' = Append(recordBatch, read')
  /\ pc' = IF Len(recordBatch') = call.batchSize THEN "submit" ELSE "read"
  /\ UNCHANGED <<call, batchNumber, firstDocument, pool, disk, kills>>

EndOfInput ==
  /\ pc = "read"
  /\ read = Len(documents)
  /\ pc' = "submit last"
  /\ UNCHANGED <<call, reader, pool, disk, kills>>

\* Mutant of HasRoom: one slot too many.
HasRoomForOneMore == slots <= Capacity

HasRoom == slots < Capacity

\* The batch waits for a slot and is handed to the task group; the last one, which
\* may be empty, too.
Submit ==
  /\ pc \in {"submit", "submit last"}
  /\ HasRoom
  /\ slots' = slots + 1
  /\ tasks' = [b \in DOMAIN tasks \cup {batchNumber} |->
                 IF b = batchNumber THEN [records |-> recordBatch, written |-> FALSE]
                 ELSE tasks[b]]
  /\ batchNumber' = batchNumber + 1
  /\ firstDocument' = firstDocument + Len(recordBatch)
  /\ recordBatch' = <<>>
  /\ pc' = IF pc = "submit" THEN "read" ELSE "wait"
  /\ UNCHANGED <<call, read, cancelled, disk, kills>>

\* Mutant of RunBatch: the slot is given back before the batch is run.
RunBatchWithoutSlot(b) ==
  /\ ~tasks[b].written
  /\ files' = WithFiles(b, BatchFiles(tasks[b].records))
  /\ tasks' = [tasks EXCEPT ![b] = [records |-> @.records, written |-> TRUE]]
  /\ slots' = slots - 1
  /\ UNCHANGED <<call, pc, reader, cancelled, nextBatch, spans, output, torn, kills>>

RunBatch(b) ==
  /\ ~tasks[b].written
  /\ files' = WithFiles(b, BatchFiles(tasks[b].records))
  /\ tasks' = [tasks EXCEPT ![b] = [records |-> @.records, written |-> TRUE]]
  /\ UNCHANGED <<call, pc, reader, slots, cancelled, nextBatch, spans, output, torn, kills>>

Without(b) == [c \in DOMAIN tasks \ {b} |-> tasks[c]]

\* Mutant of Pop: the slot is kept.
PopNothing(b) ==
  /\ tasks[b].written
  /\ tasks' = Without(b)
  /\ UNCHANGED <<call, pc, reader, slots, cancelled, disk, kills>>

\* try_pop, which does not mind an empty queue.
Pop(b) ==
  /\ tasks[b].written
  /\ slots' = IF slots > 0 THEN slots - 1 ELSE 0
  /\ tasks' = Without(b)
  /\ UNCHANGED <<call, pc, reader, cancelled, disk, kills>>

\* A batch throws: its slot is never given back, and the task group is cancelled.
Throw(b) ==
  /\ ~tasks[b].written
  /\ tasks' = Without(b)
  /\ cancelled' = TRUE
  /\ UNCHANGED <<call, pc, reader, slots, disk, kills>>

\* A task of a cancelled group that has not started never does.
Discard(b) ==
  /\ cancelled
  /\ ~tasks[b].written
  /\ tasks' = Without(b)
  /\ UNCHANGED <<call, pc, reader, slots, cancelled, disk, kills>>

\* Mutant of Wait: an exception of a batch is lost.
WaitIgnoringExceptions ==
  /\ pc = "wait"
  /\ DOMAIN tasks = {}
  /\ pc' = "merge"
  /\ UNCHANGED <<call, reader, pool, disk, kills>>

\* wait() throws what a batch threw, and the program ends.
Wait ==
  /\ pc = "wait"
  /\ DOMAIN tasks = {}
  /\ pc' = IF cancelled THEN "failed" ELSE "merge"
  /\ UNCHANGED <<call, reader, pool, disk, kills>>

-----------------------------------------------------------------------------

\* The titles of all batches are written.
MergeTitles ==
  /\ pc = "merge"
  /\ output' = [titles |-> Concatenated("titles"), terms |-> output.terms,
                docs |-> output.docs, count |-> output.count]
  /\ nextBatch' = 0
  /\ spans' = <<>>
  /\ pc' = "collect"
  /\ UNCHANGED <<call, reader, pool, files, torn, kills>>

\* collect_terms: the terms of each batch, none of which it has twice, are sorted and
\* pushed,
CollectTerms ==
  /\ pc = "collect"
  /\ nextBatch < batchNumber
  /\ PushSpan([terms |-> Ascending(Range(FilesOf(nextBatch).terms)), lvl |-> 0])
  /\ nextBatch' = nextBatch + 1
  /\ UNCHANGED <<call, pc, reader, pool, files, output, torn, kills>>

\* and in the end the two topmost runs are merged until one is left,
MergeRest ==
  /\ pc = "collect"
  /\ nextBatch = batchNumber
  /\ Len(spans) > 1
  /\ LET two == Len(spans) - 1
     IN  spans' = Append(SubSeq(spans, 1, two - 1), MergeSpans(spans[two], spans[two + 1]))
  /\ UNCHANGED <<call, pc, reader, pool, files, nextBatch, output, torn, kills>>

\* which are the terms of the index.
WriteTerms ==
  /\ pc = "collect"
  /\ nextBatch = batchNumber
  /\ Len(spans) = 1
  /\ output' = [titles |-> output.titles, terms |-> spans[1].terms,
                docs |-> output.docs, count |-> output.count]
  /\ nextBatch' = 0
  /\ pc' = "remap"
  /\ UNCHANGED <<call, reader, pool, files, spans, torn, kills>>

\* The next batch file is rewritten in place, through a writable memory map.
Remap ==
  /\ pc = "remap"
  /\ nextBatch < batchNumber
  /\ \E g \in Garbage : files' = WithFiles(nextBatch, Remapped(FilesOf(nextBatch), output.terms, g))
  /\ nextBatch' = nextBatch + 1
  /\ UNCHANGED <<call, pc, reader, pool, spans, output, torn, kills>>

\* The subcommand "merge" leaves the batch files where they are.
Concatenate ==
  /\ pc = "remap"
  /\ nextBatch = batchNumber
  /\ output' = [titles |-> output.titles, terms |-> output.terms,
                docs |-> Concatenated("docs"), count |-> firstDocument]
  /\ pc' = IF kills = 0 THEN "remove" ELSE "done"
  /\ UNCHANGED <<call, reader, pool, files, nextBatch, spans, torn, kills>>

RemoveBatches ==
  /\ pc = "remove"
  /\ files' = <<>>
  /\ pc' = "done"
  /\ UNCHANGED <<call, reader, pool, nextBatch, spans, output, torn, kills>>

\* The process is killed during the merge; the files stay as they are.
Kill ==
  /\ pc \in {"merge", "collect", "remap"}
  /\ kills < MaxKills
  /\ kills' = kills + 1
  /\ torn' = (torn \/ (pc = "remap" /\ nextBatch > 0))
  /\ pc' = "killed"
  /\ UNCHANGED <<call, reader, pool, files, nextBatch, spans, output>>

\* parse_collection merge, with the numbers of batches and documents.
ResumeMerge ==
  /\ pc = "killed"
  /\ pc' = "merge"
  /\ UNCHANGED <<call, reader, pool, disk, kills>>

Main ==
  \/ ReadRecord \/ EndOfInput \/ Submit \/ Wait
  \/ MergeTitles \/ CollectTerms \/ MergeRest \/ WriteTerms \/ Remap \/ Concatenate \/ RemoveBatches

Work(b) == b \in DOMAIN tasks /\ (RunBatch(b) \/ Pop(b))
Fail(b) == b \in DOMAIN tasks /\ (Throw(b) \/ Discard(b))

Batches == 0..Len(documents)

Next ==
  \/ Main
  \/ \E b \in Batches : Work(b) \/ Fail(b)
  \/ Kill \/ ResumeMerge

\* The main thread runs whenever it is not blocked, and every task gets a thread.
Spec == Init /\ [][Next]_vars /\ WF_vars(Main) /\ WF_vars(\E b \in Batches : Work(b))

-----------------------------------------------------------------------------

\* Type invariant of the construction.
TypeOK ==
  /\ read \in 0..Len(documents)
  /\ call.batchSize > 0 => Len(recordBatch) <= call.batchSize
  /\ slots \in 0..Capacity
  /\ DOMAIN tasks \subseteq 0..(batchNumber - 1)
  /\ DOMAIN files \subseteq 0..(batchNumber - 1)
  /\ nextBatch \in 0..batchNumber
  /\ kills \in 0..MaxKills

\* Whatever the batches and the order in which they end, the index is the
\* collection: the documents in their order under their titles, each term under its
\* place among the sorted terms.
IndexIsComplete ==
  /\ output.titles = [i \in DOMAIN documents |-> i]
  /\ output.terms = Ascending(UNION {Range(documents[i]) : i \in DOMAIN documents})
  /\ output.count = Len(documents)
  /\ DOMAIN output.docs = DOMAIN documents
  /\ \A i \in DOMAIN documents :
       output.docs[i] =
         [j \in DOMAIN documents[i] |->
            (CHOOSE t \in DOMAIN output.terms : output.terms[t] = documents[i][j]) - 1]

\* A build gives the complete index, also when its merge was killed before it began
\* to rewrite a batch and was run again.
BuildIsCorrect == pc = "done" /\ ~torn => IndexIsComplete

\* The slots bound what is in memory: no more batches are in the task group than
\* the queue has slots, whether they succeed or throw (forward_index_builder.hpp,
\* queue.set_capacity).
BatchesBounded == Cardinality(DOMAIN tasks) <= Capacity

\* When a batch has thrown no index is written.
NoIndexAfterFailure == cancelled => output = NoOutput

\* The construction ends unless a batch throws or the merge is killed: the reader
\* always gets a slot in the end.
BuildEnds == <>(pc = "done" \/ cancelled \/ pc = "killed")

\* A merge that was killed can be finished (parse_collection.cpp, subcommand merge).
KilledMergeCanBeFinished == pc = "done" => IndexIsComplete
=============================================================================
