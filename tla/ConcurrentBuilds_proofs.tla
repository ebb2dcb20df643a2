----------------------- MODULE ConcurrentBuilds_proofs -----------------------
(***************************************************************************)
(* Proofs about the two builds that run concurrently: that of a forward    *)
(* index with the shards it is cut into (ForwardIndexBuilder and Sharding, *)
(* in IndexPipeline), and that of a collection of sequences                *)
(* (SemiasyncQueue).  They share nothing but this module.                  *)
(*                                                                         *)
(* The forward index, for every input, size of a batch, number of threads  *)
(* and number of kills: the slots of the bounded queue bound the batches   *)
(* in memory, and an exception leaves no index.  What the concurrent tasks *)
(* write and the merge rewrites is what a build of one batch after the     *)
(* other would write, and that is the collection.  Its shards, however     *)
(* many and in whatever order they are processed, hold the collection.     *)
(*                                                                         *)
(* The queue, for every collection, number of threads, share of work and   *)
(* way of preparing a job: a collection gets its sequences in the order    *)
(* they were added.                                                        *)
(*                                                                         *)
(* What is made of the forward index next, the inverted, reordered and     *)
(* compressed index, is in IndexPipeline_proofs.                           *)
(***************************************************************************)
EXTENDS IndexPipeline, SemiasyncQueue, FiniteSetTheorems, SequenceTheorems,
        WellFoundedInduction, TLAPS

\* While batches are being built; and until something is written to the index.
Building == {"read", "submit", "submit last", "wait"}
Unwritten == Building \cup {"failed"}

\* Every batch in the task group holds a slot.
SlotsInv ==
  /\ slots \in 0..Capacity
  /\ IsFiniteSet(DOMAIN tasks)
  /\ Cardinality(DOMAIN tasks) <= slots

\* The merge begins when the task group is empty, and not after an exception.
FailureInv ==
  /\ pc \in Unwritten => output = NoOutput
  /\ pc \notin Building => DOMAIN tasks = {}
  /\ cancelled => pc \in Unwritten

\* The queue has room for at least two batches, and its capacity is a number.
LEMMA CapacityIsPositive == Capacity \in Nat /\ Capacity >= 2
  BY ThreadsAssumption DEF Capacity

\* A slot accounts for the batch it is taken for.
LEMMA SubmitAddsOneTask ==
  ASSUME SlotsInv, Submit
  PROVE  SlotsInv'
<1>1. DOMAIN tasks' = DOMAIN tasks \cup {batchNumber}
  BY DEF Submit
<1>2. /\ IsFiniteSet(DOMAIN tasks \cup {batchNumber})
      /\ Cardinality(DOMAIN tasks \cup {batchNumber}) <= Cardinality(DOMAIN tasks) + 1
  <2>1. /\ IsFiniteSet(DOMAIN tasks \cup {batchNumber})
        /\ Cardinality(DOMAIN tasks \cup {batchNumber}) =
             IF batchNumber \in DOMAIN tasks THEN Cardinality(DOMAIN tasks)
             ELSE Cardinality(DOMAIN tasks) + 1
    BY FS_AddElement DEF SlotsInv
  <2>2. Cardinality(DOMAIN tasks) \in Nat
    BY FS_CardinalityType DEF SlotsInv
  <2> QED BY <2>1, <2>2
<1>3. Cardinality(DOMAIN tasks) \in Nat /\ Cardinality(DOMAIN tasks \cup {batchNumber}) \in Nat
  BY <1>2, FS_CardinalityType DEF SlotsInv
<1>4. slots' = slots + 1 /\ slots < Capacity
  BY DEF Submit, HasRoom
<1> QED BY <1>1, <1>2, <1>3, <1>4, CapacityIsPositive DEF SlotsInv

\* Taking a batch out of the task group leaves one fewer.
LEMMA WithoutRemovesOneTask ==
  ASSUME SlotsInv, NEW b \in DOMAIN tasks, tasks' = Without(b)
  PROVE  /\ IsFiniteSet(DOMAIN tasks')
         /\ Cardinality(DOMAIN tasks') \in Nat
         /\ Cardinality(DOMAIN tasks) \in Nat
         /\ Cardinality(DOMAIN tasks') = Cardinality(DOMAIN tasks) - 1
<1>1. DOMAIN tasks' = DOMAIN tasks \ {b}
  BY DEF Without
<1>2. /\ IsFiniteSet(DOMAIN tasks \ {b})
      /\ Cardinality(DOMAIN tasks \ {b}) = Cardinality(DOMAIN tasks) - 1
  BY FS_RemoveElement DEF SlotsInv
<1>3. Cardinality(DOMAIN tasks) \in Nat /\ Cardinality(DOMAIN tasks \ {b}) \in Nat
  BY <1>2, FS_CardinalityType DEF SlotsInv
<1> QED BY <1>1, <1>2, <1>3

-----------------------------------------------------------------------------

\* At first no batch is in the task group.
LEMMA SlotsInit == Init => SlotsInv
<1> SUFFICES ASSUME Init PROVE SlotsInv
  OBVIOUS
<1>1. DOMAIN tasks = {}
  BY DEF Init
<1>2. IsFiniteSet({}) /\ Cardinality({}) = 0
  BY FS_EmptySet
<1> QED BY <1>1, <1>2, CapacityIsPositive DEF Init, SlotsInv

\* Every step keeps a slot for each batch in the task group.
LEMMA SlotsNext == SlotsInv /\ [Next]_vars => SlotsInv'
<1> SUFFICES ASSUME SlotsInv, [Next]_vars PROVE SlotsInv'
  OBVIOUS
<1>1. CASE UNCHANGED pool
  BY <1>1 DEF pool, SlotsInv
<1>2. CASE Submit
  BY <1>2, SubmitAddsOneTask
<1>3. ASSUME NEW b \in DOMAIN tasks, RunBatch(b) PROVE SlotsInv'
  <2>1. DOMAIN tasks' = DOMAIN tasks /\ slots' = slots
    BY <1>3 DEF RunBatch
  <2> QED BY <2>1 DEF SlotsInv
<1>4. ASSUME NEW b \in DOMAIN tasks, Pop(b) PROVE SlotsInv'
  <2>1. tasks' = Without(b)
    BY <1>4 DEF Pop
  <2>2. slots' = IF slots > 0 THEN slots - 1 ELSE 0
    BY <1>4 DEF Pop
  <2> QED BY <2>1, <2>2, WithoutRemovesOneTask, CapacityIsPositive DEF SlotsInv
<1>5. ASSUME NEW b \in DOMAIN tasks, Throw(b) \/ Discard(b) PROVE SlotsInv'
  <2>1. tasks' = Without(b) /\ slots' = slots
    BY <1>5 DEF Throw, Discard
  <2> QED BY <2>1, WithoutRemovesOneTask, CapacityIsPositive DEF SlotsInv
<1>6. CASE Main
  <2>1. CASE Submit
    BY <2>1, <1>2
  <2>2. CASE ~Submit
    <3>1. UNCHANGED pool
      BY <1>6, <2>2 DEF Main, ReadRecord, EndOfInput, Wait, MergeTitles, CollectTerms, MergeRest,
        WriteTerms, Remap, Concatenate, RemoveBatches
    <3> QED BY <3>1, <1>1
  <2> QED BY <2>1, <2>2
<1>7. CASE Kill \/ ResumeMerge
  BY <1>7, <1>1 DEF Kill, ResumeMerge
<1>8. CASE UNCHANGED vars
  BY <1>8, <1>1 DEF vars
<1> QED BY <1>3, <1>4, <1>5, <1>6, <1>7, <1>8 DEF Next, Work, Fail

\* However the batches end, no more of them are in memory than the bounded queue
\* has slots (forward_index_builder.hpp, queue.set_capacity).
THEOREM BatchesAreBounded == Spec => []BatchesBounded
<1>1. SlotsInv => BatchesBounded
  <2> SUFFICES ASSUME SlotsInv PROVE BatchesBounded
    OBVIOUS
  <2>1. Cardinality(DOMAIN tasks) \in Nat
    BY FS_CardinalityType DEF SlotsInv
  <2> QED BY <2>1, CapacityIsPositive DEF SlotsInv, BatchesBounded
<1> QED BY <1>1, SlotsInit, SlotsNext, PTL DEF Spec

-----------------------------------------------------------------------------

\* At first nothing is written.
LEMMA FailureInit == Init => FailureInv
  BY DEF Init, FailureInv, Building, Unwritten

\* Steps of the tasks do not change the phase, and there are none once the merge
\* has begun.
LEMMA FailureTasks ==
  ASSUME FailureInv, NEW b \in DOMAIN tasks, RunBatch(b) \/ Pop(b) \/ Throw(b) \/ Discard(b)
  PROVE  FailureInv'
<1>1. pc' = pc /\ output' = output
  BY DEF RunBatch, Pop, Throw, Discard, disk
<1>2. pc \in Building
  BY DEF FailureInv
<1> QED BY <1>1, <1>2 DEF FailureInv, Building, Unwritten

\* Steps of the main thread while batches are built write nothing.
LEMMA FailureBuild ==
  ASSUME FailureInv, ReadRecord \/ EndOfInput \/ Submit \/ Wait
  PROVE  FailureInv'
<1>1. output' = output /\ cancelled' = cancelled
  BY DEF ReadRecord, EndOfInput, Submit, Wait, disk, pool
<1>2. CASE ReadRecord
  BY <1>1, <1>2 DEF ReadRecord, FailureInv, Building, Unwritten, pool
<1>3. CASE EndOfInput
  BY <1>1, <1>3 DEF EndOfInput, FailureInv, Building, Unwritten, pool
<1>4. CASE Submit
  BY <1>1, <1>4 DEF Submit, FailureInv, Building, Unwritten
<1>5. CASE Wait
  BY <1>1, <1>5 DEF Wait, FailureInv, Building, Unwritten, pool
<1> QED BY <1>2, <1>3, <1>4, <1>5

\* The steps of the merge are not taken after an exception.
LEMMA FailureMerge ==
  ASSUME FailureInv,
         \/ MergeTitles \/ CollectTerms \/ MergeRest \/ WriteTerms
         \/ Remap \/ Concatenate \/ RemoveBatches \/ Kill \/ ResumeMerge
  PROVE  FailureInv'
<1>1. /\ pc \in {"merge", "collect", "remap", "remove", "killed"}
      /\ pc' \in {"merge", "collect", "remap", "remove", "killed", "done"}
  BY DEF MergeTitles, CollectTerms, MergeRest, WriteTerms, Remap, Concatenate, RemoveBatches,
    Kill, ResumeMerge
<1>2. tasks' = tasks /\ cancelled' = cancelled
  BY DEF MergeTitles, CollectTerms, MergeRest, WriteTerms, Remap, Concatenate, RemoveBatches,
    Kill, ResumeMerge, pool
<1> QED BY <1>1, <1>2 DEF FailureInv, Building, Unwritten

\* When a batch has thrown nothing is written to the index, in every run.
THEOREM FailureLeavesNoIndex == Spec => []NoIndexAfterFailure
<1>1. FailureInv => NoIndexAfterFailure
  BY DEF FailureInv, NoIndexAfterFailure
<1>2. FailureInv /\ [Next]_vars => FailureInv'
  <2> SUFFICES ASSUME FailureInv, [Next]_vars PROVE FailureInv'
    OBVIOUS
  <2>1. CASE Main
    BY <2>1, FailureBuild, FailureMerge DEF Main
  <2>2. ASSUME NEW b \in Batches, Work(b) \/ Fail(b) PROVE FailureInv'
    BY <2>2, FailureTasks DEF Work, Fail
  <2>3. CASE Kill \/ ResumeMerge
    BY <2>3, FailureMerge
  <2>4. CASE UNCHANGED vars
    BY <2>4 DEF vars, pool, disk, FailureInv
  <2> QED BY <2>1, <2>2, <2>3, <2>4 DEF Next
<1> QED BY <1>1, <1>2, FailureInit, PTL DEF Spec

-----------------------------------------------------------------------------
(* What the batches hold.                                                  *)

\* The records that are batch b, counted from the first: as many as a batch takes,
\* or those that are left.
BatchRecords(b) ==
  LET first == b * call.batchSize
      full == call.batchSize > 0 /\ first + call.batchSize <= Len(documents)
  IN  [i \in 1..(IF full THEN call.batchSize ELSE Len(documents) - first) |-> first + i]

\* The files of batch b as its task writes them.
BatchWritten(b) == BatchFiles(BatchRecords(b))

\* Those files with the identifiers of the index; g is what is read beyond the terms.
Mapped(b, g) == Remapped(BatchWritten(b), output.terms, g)

\* While records are read; and from the merge on.
Reading == {"read", "submit", "submit last"}
Merging == {"merge", "collect", "remap", "remove", "killed", "done"}

\* The batch that is being read holds the records that follow those of the batches
\* before it, and is full when it is submitted unless it is the last.
ReadInv ==
  /\ call \in Workload
  /\ read \in 0..Len(documents) /\ batchNumber \in Nat /\ firstDocument \in 0..read
  /\ recordBatch = [i \in 1..(read - firstDocument) |-> firstDocument + i]
  /\ pc \in Reading => firstDocument = batchNumber * call.batchSize
  /\ pc \in Reading /\ call.batchSize <= 0 => batchNumber = 0
  /\ pc \in {"read", "submit last"} /\ call.batchSize > 0 => read - firstDocument < call.batchSize
  /\ pc = "submit" => call.batchSize > 0 /\ read - firstDocument = call.batchSize
  /\ pc = "submit last" => read = Len(documents)
  /\ pc \notin Reading => firstDocument = Len(documents)

\* The batches are as many as it takes to hold all records, and the last of them is
\* not full, maybe empty.
AllBatched ==
  IF call.batchSize > 0
  THEN /\ (batchNumber - 1) * call.batchSize <= Len(documents)
       /\ Len(documents) < batchNumber * call.batchSize
  ELSE batchNumber = 1
BatchedInv == pc \notin Reading => AllBatched

\* The loops of the merge stay among the batches, and go through all of them.
NextInv ==
  /\ nextBatch \in 0..batchNumber
  /\ pc \in Reading => nextBatch = 0
  /\ pc \in {"remove", "done"} => nextBatch = batchNumber

\* A batch is in the task group with its own records until its files are written.
TasksInv ==
  /\ \A b \in DOMAIN tasks :
       /\ b \in 0..(batchNumber - 1)
       /\ tasks[b].records = BatchRecords(b)
       /\ tasks[b].written => b \in DOMAIN files
  /\ ~cancelled /\ pc # "done" =>
       \A b \in 0..(batchNumber - 1) : b \in DOMAIN tasks \/ b \in DOMAIN files
  /\ pc \in Merging => ~cancelled /\ DOMAIN tasks = {}

\* Batch b has been rewritten by the merge that runs, or the last that has.
Rewritten(b) == pc \in {"remap", "remove", "done"} /\ b < nextBatch

\* The files of a batch are those its task wrote, rewritten once by a merge that
\* has come to them and not before.
FilesInv ==
  /\ \A b \in DOMAIN files : b \in 0..(batchNumber - 1)
  /\ ~torn => \A b \in DOMAIN files :
       IF Rewritten(b)
       THEN \E g \in Garbage : files[b] = Mapped(b, g)
       ELSE files[b] = BatchWritten(b)

\* The titles of the batches in their order, and their documents with the terms
\* of the index.
MergedTitles == output.titles = FlattenSeq([i \in 1..batchNumber |-> BatchRecords(i - 1)])
MergedDocuments ==
  \E g \in [0..(batchNumber - 1) -> Garbage] :
    output.docs = FlattenSeq([i \in 1..batchNumber |-> Mapped(i - 1, g[i - 1]).docs])

\* What is written to the index is that of the batches.
OutputInv ==
  /\ pc \in {"collect", "remap", "remove", "done"} /\ ~torn => MergedTitles
  /\ pc \in {"remove", "done"} => output.count = Len(documents)
  /\ pc \in {"remove", "done"} /\ ~torn => MergedDocuments

\* The workload is of numbers.
LEMMA WorkloadIsTyped ==
  ASSUME call \in Workload
  PROVE  Len(documents) \in Nat /\ call.batchSize \in Int
  BY WorkloadAssumption DEF documents

\* The records of a batch depend on the input alone.
LEMMA InputStays ==
  ASSUME call' = call
  PROVE  /\ documents' = documents
         /\ \A b : BatchRecords(b)' = BatchRecords(b)
         /\ \A b : BatchWritten(b)' = BatchWritten(b)
<1>1. documents' = documents
  BY DEF documents
<1>2. \A b : BatchRecords(b)' = BatchRecords(b)
  BY <1>1 DEF BatchRecords
<1>3. \A r : BatchFiles(r)' = BatchFiles(r)
  BY <1>1 DEF BatchFiles
<1> QED BY <1>1, <1>2, <1>3 DEF BatchWritten

\* What has been read and handed over are numbers.
LEMMA ReadIsTyped ==
  ASSUME ReadInv
  PROVE  /\ Len(documents) \in Nat /\ call.batchSize \in Int
         /\ read \in Nat /\ firstDocument \in Nat /\ read - firstDocument \in Nat
         /\ read <= Len(documents) /\ batchNumber \in Nat
<1>1. Len(documents) \in Nat /\ call.batchSize \in Int
  BY WorkloadIsTyped DEF ReadInv
<1>2. read \in 0..Len(documents) /\ firstDocument \in 0..read /\ batchNumber \in Nat
  BY DEF ReadInv
<1>3. read \in Nat /\ read <= Len(documents)
  BY <1>1, <1>2
<1> QED BY <1>1, <1>2, <1>3

\* The size of the batch that is handed over: r records are read of n, f before it,
\* and s is the size of a batch.
LEMMA SizeOfBatch ==
  ASSUME NEW r \in Nat, NEW f \in Nat, NEW n \in Nat, NEW s \in Int, r <= n,
         (s > 0 /\ r - f = s) \/ (r = n /\ (s > 0 => r - f < s))
  PROVE  r - f = IF s > 0 /\ f + s <= n THEN s ELSE n - f
  OBVIOUS

\* The batch that is submitted holds the records that it is to hold.
LEMMA SubmittedBatch ==
  ASSUME ReadInv, pc \in {"submit", "submit last"}
  PROVE  recordBatch = BatchRecords(batchNumber)
<1>1. firstDocument = batchNumber * call.batchSize
  BY DEF ReadInv, Reading
<1>2. recordBatch = [i \in 1..(read - firstDocument) |-> firstDocument + i]
  BY DEF ReadInv
<1> DEFINE full == call.batchSize > 0 /\ firstDocument + call.batchSize <= Len(documents)
<1>3. BatchRecords(batchNumber) =
        [i \in 1..(IF full THEN call.batchSize ELSE Len(documents) - firstDocument)
           |-> firstDocument + i]
  BY <1>1 DEF BatchRecords
<1>4. \/ call.batchSize > 0 /\ read - firstDocument = call.batchSize
      \/ read = Len(documents) /\ (call.batchSize > 0 => read - firstDocument < call.batchSize)
  BY DEF ReadInv
<1>5. read - firstDocument = IF full THEN call.batchSize ELSE Len(documents) - firstDocument
  BY <1>4, ReadIsTyped, SizeOfBatch
<1> QED BY <1>2, <1>3, <1>5

-----------------------------------------------------------------------------

\* At first nothing is read.
LEMMA ReadInit == Init => ReadInv /\ NextInv /\ TasksInv /\ FilesInv /\ OutputInv
<1> SUFFICES ASSUME Init PROVE ReadInv /\ NextInv /\ TasksInv /\ FilesInv /\ OutputInv
  OBVIOUS
<1>1. Len(documents) \in Nat /\ call.batchSize \in Int
  BY WorkloadIsTyped DEF Init
<1>2. DOMAIN tasks = {} /\ DOMAIN files = {} /\ pc = "read"
  BY DEF Init
<1>3. ReadInv
  <2>1. recordBatch = [i \in 1..(0 - 0) |-> 0 + i]
    BY DEF Init
  <2> QED BY <1>1, <2>1 DEF Init, ReadInv, Reading
<1>4. NextInv
  BY DEF Init, NextInv
<1>5. TasksInv
  BY <1>2 DEF Init, TasksInv, Merging
<1>6. FilesInv
  BY <1>2 DEF FilesInv
<1>7. OutputInv
  BY <1>2 DEF OutputInv
<1> QED BY <1>3, <1>4, <1>5, <1>6, <1>7

\* The reader goes on where it is.
LEMMA ReadRecordKeepsRead ==
  ASSUME ReadInv, ReadRecord
  PROVE  ReadInv'
<1>1. Len(documents) \in Nat /\ call.batchSize \in Int /\ firstDocument \in 0..read
  BY ReadIsTyped DEF ReadInv
<1> DEFINE n == read - firstDocument
<1>2. /\ firstDocument \in Nat /\ read \in Nat /\ n \in Nat /\ batchNumber \in Nat
      /\ recordBatch = [i \in 1..n |-> firstDocument + i]
  BY ReadIsTyped DEF ReadInv
<1>3. /\ pc = "read" /\ read < Len(documents) /\ read' = read + 1
      /\ recordBatch' = Append(recordBatch, read + 1)
      /\ call' = call /\ batchNumber' = batchNumber /\ firstDocument' = firstDocument
      /\ pc' = IF Len(recordBatch') = call.batchSize THEN "submit" ELSE "read"
  BY DEF ReadRecord
<1>4. documents' = documents
  BY <1>3, InputStays
<1>5. recordBatch' = [i \in 1..(n + 1) |-> firstDocument + i]
  <2>1. read + 1 = firstDocument + (n + 1)
    BY <1>2
  <2>2. recordBatch' = Append([i \in 1..n |-> firstDocument + i], firstDocument + (n + 1))
    BY <1>2, <1>3, <2>1
  <2> HIDE DEF n
  <2> QED BY <2>2, <1>2
<1>6. Len(recordBatch') = n + 1
  <2> HIDE DEF n
  <2>1. n + 1 \in Nat
    BY <1>2
  <2> QED BY <1>5, <2>1
<1>7. read' - firstDocument' = n + 1
  BY <1>2, <1>3
<1>8. /\ firstDocument = batchNumber * call.batchSize
      /\ call.batchSize <= 0 => batchNumber = 0
      /\ call.batchSize > 0 => n < call.batchSize
  BY <1>3 DEF ReadInv, Reading
<1>9. /\ call' \in Workload /\ read' \in 0..Len(documents) /\ batchNumber' \in Nat
      /\ firstDocument' \in 0..read'
  BY <1>1, <1>2, <1>3 DEF ReadInv
<1>10. pc' = IF n + 1 = call.batchSize THEN "submit" ELSE "read"
  BY <1>3, <1>6
<1>11. /\ pc' = "read" /\ call.batchSize > 0 => n + 1 < call.batchSize
       /\ pc' = "submit" => call.batchSize > 0 /\ n + 1 = call.batchSize
       /\ pc' \in Reading /\ pc' # "submit last"
  <2>1. n \in Nat /\ call.batchSize \in Int
    BY <1>1, <1>2
  <2>2. call.batchSize > 0 => n < call.batchSize
    BY <1>8
  <2> HIDE DEF n
  <2>3. n + 1 = call.batchSize => call.batchSize > 0
    BY <2>1
  <2>4. n + 1 # call.batchSize /\ call.batchSize > 0 => n + 1 < call.batchSize
    BY <2>1, <2>2
  <2> QED BY <2>3, <2>4, <1>10 DEF Reading
<1> HIDE DEF n
<1> QED BY <1>3, <1>4, <1>5, <1>7, <1>8, <1>9, <1>11 DEF ReadInv

\* At the end of the input the batch is handed over as it is.
LEMMA EndOfInputKeepsRead ==
  ASSUME ReadInv, EndOfInput
  PROVE  ReadInv'
<1>1. /\ pc = "read" /\ read = Len(documents) /\ pc' = "submit last"
      /\ call' = call /\ read' = read /\ recordBatch' = recordBatch
      /\ batchNumber' = batchNumber /\ firstDocument' = firstDocument
  BY DEF EndOfInput, reader
<1>2. documents' = documents
  BY <1>1, InputStays
<1> QED BY <1>1, <1>2 DEF ReadInv, Reading

\* A batch that is full is followed by the next; the last one, whatever it holds, is
\* the end of what is read.
LEMMA SubmitKeepsRead ==
  ASSUME ReadInv, Submit
  PROVE  ReadInv'
<1>1. /\ pc \in {"submit", "submit last"}
      /\ call' = call /\ read' = read /\ recordBatch' = <<>>
      /\ batchNumber' = batchNumber + 1 /\ firstDocument' = firstDocument + Len(recordBatch)
      /\ pc' = IF pc = "submit" THEN "read" ELSE "wait"
  BY DEF Submit
<1>2. documents' = documents
  BY <1>1, InputStays
<1>3. Len(recordBatch) = read - firstDocument
  <2> DEFINE n == read - firstDocument
  <2>1. n \in Nat /\ recordBatch = [i \in 1..n |-> firstDocument + i]
    BY ReadIsTyped DEF ReadInv
  <2> HIDE DEF n
  <2>2. Len(recordBatch) = n
    BY <2>1
  <2> QED BY <2>2 DEF n
<1>4. firstDocument' = read /\ read' - firstDocument' = 0
  <2>1. read \in Nat /\ firstDocument \in Nat
    BY ReadIsTyped
  <2>2. read' = read /\ firstDocument' = firstDocument + (read - firstDocument)
    BY <1>1, <1>3
  <2> QED BY <2>1, <2>2
<1>5. /\ call' \in Workload /\ read' \in 0..Len(documents) /\ batchNumber' \in Nat
      /\ firstDocument' \in 0..read'
  <2>1. read \in Nat /\ read <= Len(documents) /\ batchNumber \in Nat /\ Len(documents) \in Nat
    BY ReadIsTyped
  <2>2. call \in Workload
    BY DEF ReadInv
  <2>3. read' = read /\ batchNumber' = batchNumber + 1 /\ call' = call
    BY <1>1
  <2> QED BY <2>1, <2>2, <2>3, <1>4
<1>6. recordBatch' = [i \in 1..(read' - firstDocument') |-> firstDocument' + i]
  <2>1. 1..(read' - firstDocument') = {}
    BY <1>4
  <2>2. recordBatch' = <<>>
    BY <1>1
  <2> QED BY <2>1, <2>2
<1>7. CASE pc = "submit"
  <2>1. call.batchSize > 0 /\ read - firstDocument = call.batchSize
    BY <1>7 DEF ReadInv
  <2>2. firstDocument = batchNumber * call.batchSize
    BY <1>7 DEF ReadInv, Reading
  <2>3. (batchNumber + 1) * call.batchSize = batchNumber * call.batchSize + call.batchSize
    BY ReadIsTyped
  <2>4. firstDocument' = batchNumber' * call.batchSize
    <3>1. read \in Nat /\ firstDocument \in Nat /\ call.batchSize \in Int
      BY ReadIsTyped
    <3>2. read = firstDocument + call.batchSize
      BY <2>1, <3>1
    <3>3. read = (batchNumber + 1) * call.batchSize
      BY <3>2, <2>2, <2>3
    <3> QED BY <3>3, <1>1, <1>4
  <2>5. pc' = "read" /\ ~(call.batchSize <= 0) /\ read' - firstDocument' < call.batchSize
    BY <1>7, <1>1, <1>4, <2>1, ReadIsTyped
  <2>6. call'.batchSize = call.batchSize
    BY <1>1
  <2>7. pc' \in Reading /\ pc' \in {"read", "submit last"} /\ pc' # "submit" /\ pc' # "submit last"
    BY <2>5 DEF Reading
  <2>8. firstDocument' = batchNumber' * call'.batchSize
    BY <2>4, <2>6
  <2>9. ~(call'.batchSize <= 0) /\ read' - firstDocument' < call'.batchSize
    BY <2>5, <2>6
  <2>10. read' \in 0..Len(documents')
    BY <1>2, <1>5
  <2> QED BY <1>5, <1>6, <2>7, <2>8, <2>9, <2>10 DEF ReadInv
<1>8. CASE pc = "submit last"
  <2>1. pc' = "wait" /\ read = Len(documents)
    BY <1>8, <1>1 DEF ReadInv
  <2> QED BY <1>1, <1>2, <1>4, <1>5, <1>6, <2>1 DEF ReadInv, Reading
<1> QED BY <1>1, <1>7, <1>8

\* Steps of others do not touch what is read.
LEMMA OthersKeepRead ==
  ASSUME ReadInv, UNCHANGED <<call, reader>>, pc' = pc \/ {pc, pc'} \cap Reading = {}
  PROVE  ReadInv'
<1>1. /\ call' = call /\ read' = read /\ recordBatch' = recordBatch
      /\ batchNumber' = batchNumber /\ firstDocument' = firstDocument
  BY DEF reader
<1>2. documents' = documents
  BY <1>1, InputStays
<1>3. CASE pc' = pc
  BY <1>1, <1>2, <1>3 DEF ReadInv
<1>4. CASE pc \notin Reading /\ pc' \notin Reading
  BY <1>1, <1>2, <1>4 DEF ReadInv, Reading
<1> QED BY <1>3, <1>4

\* The steps of the main thread after the last batch is submitted, and of those who
\* kill the merge or run it again, leave the input as it was.
LEMMA MergeLeavesInput ==
  ASSUME \/ Wait \/ MergeTitles \/ CollectTerms \/ MergeRest \/ WriteTerms \/ Remap
         \/ Concatenate \/ RemoveBatches \/ Kill \/ ResumeMerge
  PROVE  UNCHANGED <<call, reader>> /\ pc \notin Reading /\ pc' \notin Reading
  BY DEF Wait, MergeTitles, CollectTerms, MergeRest, WriteTerms, Remap, Concatenate,
    RemoveBatches, Kill, ResumeMerge, Reading

\* So do the tasks.
LEMMA TasksLeaveInput ==
  ASSUME NEW b, RunBatch(b) \/ Pop(b) \/ Throw(b) \/ Discard(b)
  PROVE  UNCHANGED <<call, reader, pc>>
  BY DEF RunBatch, Pop, Throw, Discard

\* Every step keeps what is read in its place.
LEMMA ReadNext == ReadInv /\ [Next]_vars => ReadInv'
<1> SUFFICES ASSUME ReadInv, [Next]_vars PROVE ReadInv'
  OBVIOUS
<1>1. CASE ReadRecord \/ EndOfInput \/ Submit
  BY <1>1, ReadRecordKeepsRead, EndOfInputKeepsRead, SubmitKeepsRead
<1>2. CASE \/ Wait \/ MergeTitles \/ CollectTerms \/ MergeRest \/ WriteTerms \/ Remap
           \/ Concatenate \/ RemoveBatches \/ Kill \/ ResumeMerge
  <2>1. UNCHANGED <<call, reader>> /\ pc \notin Reading /\ pc' \notin Reading
    BY <1>2, MergeLeavesInput
  <2>2. {pc, pc'} \cap Reading = {}
    BY <2>1
  <2> QED BY <2>1, <2>2, OthersKeepRead
<1>3. ASSUME NEW b, RunBatch(b) \/ Pop(b) \/ Throw(b) \/ Discard(b) PROVE ReadInv'
  BY <1>3, TasksLeaveInput, OthersKeepRead
<1>4. CASE UNCHANGED vars
  BY <1>4, OthersKeepRead DEF vars
<1> QED BY <1>1, <1>2, <1>3, <1>4 DEF Next, Main, Work, Fail

\* The loops of the merge count batches.
LEMMA NextBatchNext == ReadInv /\ NextInv /\ [Next]_vars => NextInv'
<1> SUFFICES ASSUME ReadInv, NextInv, [Next]_vars PROVE NextInv'
  OBVIOUS
<1>1. batchNumber \in Nat /\ nextBatch \in Nat /\ nextBatch <= batchNumber
  BY ReadIsTyped DEF NextInv
<1>2. CASE ReadRecord \/ EndOfInput
  <2>1. /\ nextBatch' = nextBatch /\ batchNumber' = batchNumber
        /\ pc \in Reading /\ pc' \in Reading
    BY <1>2 DEF ReadRecord, EndOfInput, Reading, disk, reader
  <2> QED BY <2>1 DEF NextInv, Reading
<1>3. CASE Submit
  <2>1. /\ nextBatch' = nextBatch /\ batchNumber' = batchNumber + 1
        /\ pc \in Reading /\ pc' \in {"read", "wait"}
    BY <1>3 DEF Submit, Reading, disk
  <2>2. nextBatch = 0
    BY <2>1 DEF NextInv
  <2> QED BY <1>1, <2>1, <2>2 DEF NextInv
<1>4. CASE CollectTerms \/ Remap
  <2>1. /\ nextBatch' = nextBatch + 1 /\ batchNumber' = batchNumber /\ nextBatch < batchNumber
        /\ pc' \notin Reading /\ pc' \notin {"remove", "done"}
    BY <1>4 DEF CollectTerms, Remap, reader, Reading
  <2>2. nextBatch' \in 0..batchNumber'
    BY <1>1, <2>1
  <2> QED BY <2>1, <2>2 DEF NextInv
<1>5. CASE MergeTitles \/ WriteTerms
  <2>1. /\ nextBatch' = 0 /\ batchNumber' = batchNumber
        /\ pc' \notin Reading /\ pc' \notin {"remove", "done"}
    BY <1>5 DEF MergeTitles, WriteTerms, reader, Reading
  <2>2. nextBatch' \in 0..batchNumber'
    BY <1>1, <2>1
  <2> QED BY <2>1, <2>2 DEF NextInv
<1>6. CASE Wait \/ MergeRest \/ Kill \/ ResumeMerge
  <2>1. /\ nextBatch' = nextBatch /\ batchNumber' = batchNumber
        /\ pc' \in {"failed", "merge", "collect", "killed"}
    BY <1>6 DEF Wait, MergeRest, Kill, ResumeMerge, disk, reader
  <2> QED BY <2>1 DEF NextInv, Reading
<1>7. CASE Concatenate
  <2>1. /\ nextBatch' = nextBatch /\ batchNumber' = batchNumber /\ nextBatch = batchNumber
        /\ pc' \in {"remove", "done"}
    BY <1>7 DEF Concatenate, reader
  <2> QED BY <2>1 DEF NextInv, Reading
<1>8. CASE RemoveBatches
  <2>1. /\ nextBatch' = nextBatch /\ batchNumber' = batchNumber /\ pc = "remove" /\ pc' = "done"
    BY <1>8 DEF RemoveBatches, reader
  <2> QED BY <2>1 DEF NextInv, Reading
<1>9. ASSUME NEW b, RunBatch(b) \/ Pop(b) \/ Throw(b) \/ Discard(b) PROVE NextInv'
  <2>1. nextBatch' = nextBatch /\ batchNumber' = batchNumber /\ pc' = pc
    BY <1>9 DEF RunBatch, Pop, Throw, Discard, disk, reader
  <2> QED BY <2>1 DEF NextInv
<1>10. CASE UNCHANGED vars
  BY <1>10 DEF vars, disk, reader, NextInv
<1> QED BY <1>2, <1>3, <1>4, <1>5, <1>6, <1>7, <1>8, <1>9, <1>10 DEF Next, Main, Work, Fail

-----------------------------------------------------------------------------
(* Tasks and their files.                                                  *)

\* No step changes the input, nor forgets that a merge was torn.
LEMMA StepKeepsInput ==
  ASSUME [Next]_vars
  PROVE  call' = call /\ (torn => torn')
<1>1. CASE Main
  <2>1. CASE ReadRecord \/ EndOfInput \/ Submit \/ Wait
    <3>1. call' = call /\ torn' = torn
      BY <2>1 DEF ReadRecord, EndOfInput, Submit, Wait, disk
    <3> QED BY <3>1
  <2>2. CASE ~(ReadRecord \/ EndOfInput \/ Submit \/ Wait)
    <3>1. call' = call /\ torn' = torn
      BY <1>1, <2>2 DEF Main, MergeTitles, CollectTerms, MergeRest, WriteTerms, Remap,
        Concatenate, RemoveBatches
    <3> QED BY <3>1
  <2> QED BY <2>1, <2>2
<1>2. ASSUME NEW b, Work(b) \/ Fail(b) PROVE call' = call /\ (torn => torn')
  BY <1>2 DEF Work, Fail, RunBatch, Pop, Throw, Discard, reader, disk
<1>3. CASE Kill
  <2>1. torn' = (torn \/ (pc = "remap" /\ nextBatch > 0)) /\ call' = call
    BY <1>3 DEF Kill
  <2> QED BY Zenon, <2>1
<1>4. CASE ResumeMerge
  BY <1>4 DEF ResumeMerge, disk
<1>5. CASE UNCHANGED vars
  BY <1>5 DEF vars, disk
<1> QED BY <1>1, <1>2, <1>3, <1>4, <1>5 DEF Next

\* The batch that is submitted joins the task group with its records.
LEMMA SubmitKeepsTasks ==
  ASSUME ReadInv, TasksInv, Submit
  PROVE  TasksInv'
<1>1. /\ pc \in {"submit", "submit last"} /\ call' = call /\ files' = files
      /\ batchNumber' = batchNumber + 1 /\ cancelled' = cancelled
      /\ tasks' = [b \in DOMAIN tasks \cup {batchNumber} |->
                     IF b = batchNumber THEN [records |-> recordBatch, written |-> FALSE]
                     ELSE tasks[b]]
      /\ pc' \in {"read", "wait"}
  BY DEF Submit, disk
<1>2. recordBatch = BatchRecords(batchNumber)
  BY <1>1, SubmittedBatch
<1>3. batchNumber \in Nat
  BY ReadIsTyped
<1>4. \A b : BatchRecords(b)' = BatchRecords(b)
  BY <1>1, InputStays
<1>5. batchNumber' = batchNumber + 1
  BY <1>1
<1>6. ASSUME NEW b \in DOMAIN tasks'
      PROVE  /\ b \in 0..(batchNumber' - 1)
             /\ tasks'[b].records = BatchRecords(b)'
             /\ tasks'[b].written => b \in DOMAIN files'
  <2>1. CASE b = batchNumber
    <3>1. tasks'[b] = [records |-> recordBatch, written |-> FALSE]
      BY <2>1, <1>1
    <3>2. b \in 0..(batchNumber' - 1)
      BY <2>1, <1>3, <1>5
    <3>3. tasks'[b].records = recordBatch /\ ~tasks'[b].written
      BY <3>1
    <3> QED BY <3>2, <3>3, <2>1, <1>2, <1>4
  <2>2. CASE b # batchNumber
    <3>1. b \in DOMAIN tasks /\ tasks'[b] = tasks[b]
      BY <2>2, <1>1, <1>6
    <3>2. /\ b \in 0..(batchNumber - 1) /\ tasks[b].records = BatchRecords(b)
          /\ tasks[b].written => b \in DOMAIN files
      BY <3>1 DEF TasksInv
    <3>3. b \in 0..(batchNumber' - 1)
      BY <3>2, <1>3, <1>5
    <3>4. files' = files
      BY <1>1
    <3> QED BY <3>1, <3>2, <3>3, <3>4, <1>4
  <2> QED BY <2>1, <2>2
<1>7. ASSUME ~cancelled', NEW b \in 0..(batchNumber' - 1)
      PROVE  b \in DOMAIN tasks' \/ b \in DOMAIN files'
  <2>1. b = batchNumber \/ b \in 0..(batchNumber - 1)
    BY <1>3, <1>5
  <2>2. b \in 0..(batchNumber - 1) => b \in DOMAIN tasks \/ b \in DOMAIN files
    BY <1>1, <1>7 DEF TasksInv
  <2> QED BY <2>1, <2>2, <1>1
<1> QED BY <1>1, <1>6, <1>7 DEF TasksInv, Merging

\* A batch has its files when its task has run.
LEMMA RunBatchKeepsTasks ==
  ASSUME TasksInv, NEW b \in DOMAIN tasks, RunBatch(b)
  PROVE  TasksInv'
<1>1. /\ call' = call /\ batchNumber' = batchNumber /\ cancelled' = cancelled /\ pc' = pc
      /\ tasks' = [tasks EXCEPT ![b] = [records |-> @.records, written |-> TRUE]]
      /\ DOMAIN files' = DOMAIN files \cup {b}
  BY DEF RunBatch, reader, WithFiles
<1>2. \A c : BatchRecords(c)' = BatchRecords(c)
  BY <1>1, InputStays
<1>3. DOMAIN tasks' = DOMAIN tasks /\ pc \notin Merging
  BY <1>1 DEF TasksInv
<1>4. ASSUME NEW c \in DOMAIN tasks
      PROVE  /\ c \in 0..(batchNumber - 1)
             /\ tasks'[c].records = BatchRecords(c)
             /\ tasks'[c].written => c \in DOMAIN files'
  <2>1. /\ c \in 0..(batchNumber - 1) /\ tasks[c].records = BatchRecords(c)
        /\ tasks[c].written => c \in DOMAIN files
    BY DEF TasksInv
  <2>2. CASE c = b
    <3>1. tasks'[c] = [records |-> tasks[c].records, written |-> TRUE]
      BY <2>2, <1>1
    <3> QED BY <3>1, <2>1, <2>2, <1>1
  <2>3. CASE c # b
    <3>1. tasks'[c] = tasks[c]
      BY <2>3, <1>1
    <3> QED BY <3>1, <2>1, <1>1
  <2> QED BY <2>2, <2>3
<1>5. ~cancelled' /\ pc' # "done" =>
        \A c \in 0..(batchNumber - 1) : c \in DOMAIN tasks' \/ c \in DOMAIN files'
  BY <1>1, <1>3 DEF TasksInv
<1>6. \A c \in DOMAIN tasks' :
        /\ c \in 0..(batchNumber' - 1)
        /\ tasks'[c].records = BatchRecords(c)'
        /\ tasks'[c].written => c \in DOMAIN files'
  BY <1>1, <1>2, <1>3, <1>4
<1>7. pc' \notin Merging
  BY <1>1, <1>3
<1> QED BY <1>1, <1>5, <1>6, <1>7 DEF TasksInv

\* A batch that leaves the task group has its files, unless the group is cancelled.
LEMMA LeavingKeepsTasks ==
  ASSUME TasksInv, NEW b \in DOMAIN tasks, Pop(b) \/ Throw(b) \/ Discard(b)
  PROVE  TasksInv'
<1>1. /\ call' = call /\ batchNumber' = batchNumber /\ pc' = pc /\ files' = files
      /\ tasks' = Without(b) /\ (cancelled' \/ (~cancelled /\ tasks[b].written))
  BY DEF Pop, Throw, Discard, reader, disk
<1>2. \A c : BatchRecords(c)' = BatchRecords(c)
  BY <1>1, InputStays
<1>3. DOMAIN tasks' = DOMAIN tasks \ {b} /\ \A c \in DOMAIN tasks' : tasks'[c] = tasks[c]
  BY <1>1 DEF Without
<1>4. pc' \notin Merging
  BY <1>1 DEF TasksInv
<1>5. \A c \in DOMAIN tasks' :
        /\ c \in 0..(batchNumber' - 1)
        /\ tasks'[c].records = BatchRecords(c)'
        /\ tasks'[c].written => c \in DOMAIN files'
  BY <1>1, <1>2, <1>3 DEF TasksInv
<1>6. ~cancelled' /\ pc' # "done" =>
        \A c \in 0..(batchNumber' - 1) : c \in DOMAIN tasks' \/ c \in DOMAIN files'
  BY <1>1, <1>3 DEF TasksInv
<1> QED BY <1>4, <1>5, <1>6 DEF TasksInv

\* The reader and the merge leave the task group as it is.
LEMMA OthersKeepTasks ==
  ASSUME TasksInv, call' = call, tasks' = tasks, cancelled' = cancelled,
         batchNumber' = batchNumber, pc' # "done" => DOMAIN files \subseteq DOMAIN files',
         pc' = pc \/ DOMAIN tasks = {} \/ files' = files,
         pc' # "done" => pc # "done",
         pc' \in Merging => pc \in Merging \/ (~cancelled /\ DOMAIN tasks = {})
  PROVE  TasksInv'
<1>1. \A c : BatchRecords(c)' = BatchRecords(c)
  BY InputStays
<1>2. \A c \in DOMAIN tasks' :
        /\ c \in 0..(batchNumber' - 1)
        /\ tasks'[c].records = BatchRecords(c)'
        /\ tasks'[c].written => c \in DOMAIN files'
  <2> SUFFICES ASSUME NEW c \in DOMAIN tasks
               PROVE  tasks[c].written => c \in DOMAIN files'
    BY <1>1 DEF TasksInv
  <2>1. tasks[c].written => c \in DOMAIN files
    BY DEF TasksInv
  <2>2. pc' = "done" => files' = files
    BY DEF TasksInv, Merging
  <2> QED BY <2>1, <2>2
<1>3. ~cancelled' /\ pc' # "done" =>
        \A c \in 0..(batchNumber' - 1) : c \in DOMAIN tasks' \/ c \in DOMAIN files'
  BY DEF TasksInv
<1>4. pc' \in Merging => ~cancelled' /\ DOMAIN tasks' = {}
  BY DEF TasksInv
<1> QED BY <1>2, <1>3, <1>4 DEF TasksInv

\* Every step keeps the batches in the task group or on disk.
LEMMA TasksNext == ReadInv /\ TasksInv /\ [Next]_vars => TasksInv'
<1> SUFFICES ASSUME ReadInv, TasksInv, [Next]_vars PROVE TasksInv'
  OBVIOUS
<1>1. CASE Submit
  BY <1>1, SubmitKeepsTasks
<1>2. ASSUME NEW b \in DOMAIN tasks, RunBatch(b) PROVE TasksInv'
  BY <1>2, RunBatchKeepsTasks
<1>3. ASSUME NEW b \in DOMAIN tasks, Pop(b) \/ Throw(b) \/ Discard(b) PROVE TasksInv'
  BY <1>3, LeavingKeepsTasks
<1>4. CASE \/ ReadRecord \/ EndOfInput \/ Wait \/ MergeTitles \/ CollectTerms \/ MergeRest
           \/ WriteTerms \/ Concatenate \/ Kill \/ ResumeMerge
  <2>1. /\ call' = call /\ tasks' = tasks /\ cancelled' = cancelled
        /\ batchNumber' = batchNumber /\ files' = files /\ pc # "done"
    BY <1>4 DEF ReadRecord, EndOfInput, Wait, MergeTitles, CollectTerms, MergeRest, WriteTerms,
      Concatenate, Kill, ResumeMerge, reader, pool, disk
  <2>2. pc' \in Merging => pc \in Merging \/ (~cancelled /\ DOMAIN tasks = {})
    BY <1>4 DEF ReadRecord, EndOfInput, Wait, MergeTitles, CollectTerms, MergeRest, WriteTerms,
      Concatenate, Kill, ResumeMerge, Merging
  <2> QED BY <2>1, <2>2, OthersKeepTasks
<1>5. CASE Remap
  <2>1. /\ call' = call /\ tasks' = tasks /\ cancelled' = cancelled
        /\ batchNumber' = batchNumber /\ pc' = pc /\ pc = "remap"
        /\ DOMAIN files' = DOMAIN files \cup {nextBatch}
    BY <1>5 DEF Remap, reader, pool, WithFiles
  <2>2. pc' # "done" /\ pc # "done" /\ pc \in Merging /\ DOMAIN files \subseteq DOMAIN files'
    BY <2>1 DEF Merging
  <2> QED BY <2>1, <2>2, OthersKeepTasks
<1>6. CASE RemoveBatches
  <2>1. /\ tasks' = tasks /\ cancelled' = cancelled /\ pc = "remove" /\ pc' = "done"
    BY <1>6 DEF RemoveBatches, pool
  <2>2. DOMAIN tasks = {} /\ ~cancelled
    BY <2>1 DEF TasksInv, Merging
  <2> QED BY <2>1, <2>2 DEF TasksInv
<1>7. CASE UNCHANGED vars
  <2>1. /\ call' = call /\ tasks' = tasks /\ cancelled' = cancelled /\ pc' = pc
        /\ batchNumber' = batchNumber /\ files' = files
    BY <1>7 DEF vars, reader, pool, disk
  <2> QED BY <2>1, OthersKeepTasks
<1> QED BY <1>1, <1>2, <1>3, <1>4, <1>5, <1>6, <1>7 DEF Next, Main, Work, Fail

\* What a batch holds when it is rewritten depends on the input and on the terms of
\* the index alone.
LEMMA RemappedStays ==
  ASSUME call' = call, output'.terms = output.terms, NEW b, NEW g
  PROVE  Mapped(b, g)' = Mapped(b, g)
<1>1. BatchWritten(b)' = BatchWritten(b)
  BY InputStays
<1> QED BY <1>1 DEF Mapped

\* Where a batch that was not rewritten is not taken to be now, its files are right.
LEMMA UntouchedKeepsFiles ==
  ASSUME ReadInv, FilesInv, call' = call, files' = files, batchNumber' \in Nat,
         batchNumber <= batchNumber', ~torn' => ~torn,
         ~torn' => \A b \in DOMAIN files : ~Rewritten(b) /\ ~Rewritten(b)'
  PROVE  FilesInv'
<1>1. \A b : BatchWritten(b)' = BatchWritten(b)
  BY InputStays
<1>2. \A b \in DOMAIN files' : b \in 0..(batchNumber' - 1)
  BY ReadIsTyped DEF FilesInv
<1>3. ASSUME ~torn', NEW b \in DOMAIN files
      PROVE  files'[b] = BatchWritten(b)' /\ ~Rewritten(b)'
  <2>1. ~torn /\ ~Rewritten(b) /\ ~Rewritten(b)'
    BY <1>3
  <2>2. files[b] = BatchWritten(b)
    BY <2>1 DEF FilesInv
  <2> QED BY <2>1, <2>2, <1>1
<1> QED BY <1>2, <1>3 DEF FilesInv

\* Where the same batches are taken to be rewritten, with the same terms.
LEMMA SameKeepsFiles ==
  ASSUME FilesInv, call' = call, files' = files, batchNumber' = batchNumber, ~torn' => ~torn,
         output'.terms = output.terms, \A b : Rewritten(b)' = Rewritten(b)
  PROVE  FilesInv'
<1>1. \A b : BatchWritten(b)' = BatchWritten(b)
  BY InputStays
<1>2. \A b, g : Mapped(b, g)' = Mapped(b, g)
  BY RemappedStays
<1> QED BY <1>1, <1>2 DEF FilesInv

\* A task writes the files of its batch before the merge begins.
LEMMA RunBatchKeepsFiles ==
  ASSUME TasksInv, FilesInv, NEW b \in DOMAIN tasks, RunBatch(b)
  PROVE  FilesInv'
<1>1. /\ call' = call /\ batchNumber' = batchNumber /\ pc' = pc /\ torn' = torn
      /\ nextBatch' = nextBatch
      /\ files' = [c \in DOMAIN files \cup {b} |->
                     IF c = b THEN BatchFiles(tasks[b].records) ELSE files[c]]
  BY DEF RunBatch, reader, WithFiles
<1>2. \A c : BatchWritten(c)' = BatchWritten(c)
  BY <1>1, InputStays
<1>3. /\ b \in 0..(batchNumber - 1) /\ BatchFiles(tasks[b].records) = BatchWritten(b)
      /\ pc \notin Merging
  BY DEF TasksInv, BatchWritten
<1>4. \A c : ~Rewritten(c) /\ ~Rewritten(c)'
  BY <1>1, <1>3 DEF Rewritten, Merging
<1>5. \A c \in DOMAIN files' : c \in 0..(batchNumber' - 1)
  BY <1>1, <1>3 DEF FilesInv
<1>6. ASSUME ~torn', NEW c \in DOMAIN files' PROVE files'[c] = BatchWritten(c)'
  <2>1. CASE c = b
    BY <2>1, <1>1, <1>2, <1>3
  <2>2. CASE c # b
    <3>1. c \in DOMAIN files /\ files'[c] = files[c] /\ ~torn
      BY <2>2, <1>1, <1>6
    <3>2. files[c] = BatchWritten(c)
      BY <3>1, <1>4 DEF FilesInv
    <3> QED BY <3>1, <3>2, <1>2
  <2> QED BY <2>1, <2>2
<1> QED BY <1>4, <1>5, <1>6 DEF FilesInv

\* The merge rewrites the files of the next batch, which it has not rewritten yet.
LEMMA RemapKeepsFiles ==
  ASSUME ReadInv, NextInv, TasksInv, FilesInv, Remap
  PROVE  FilesInv'
<1>1. /\ call' = call /\ batchNumber' = batchNumber /\ torn' = torn /\ output' = output
      /\ pc = "remap" /\ pc' = "remap" /\ nextBatch' = nextBatch + 1 /\ nextBatch < batchNumber
  BY DEF Remap, reader
<1>2. PICK g \in Garbage :
        files' = [c \in DOMAIN files \cup {nextBatch} |->
                    IF c = nextBatch THEN Remapped(FilesOf(nextBatch), output.terms, g)
                    ELSE files[c]]
  BY DEF Remap, WithFiles
<1>3. \A b : BatchWritten(b)' = BatchWritten(b)
  BY <1>1, InputStays
<1>4. \A b, h : Mapped(b, h)' = Mapped(b, h)
  <2>1. output'.terms = output.terms
    BY <1>1
  <2> QED BY <2>1, <1>1, RemappedStays
<1>5. nextBatch \in Nat /\ batchNumber \in Nat /\ nextBatch \in 0..(batchNumber - 1)
  <2>1. batchNumber \in Nat /\ nextBatch \in 0..batchNumber
    BY ReadIsTyped DEF NextInv
  <2> QED BY <2>1, <1>1
<1>6. \A b \in DOMAIN files' : b \in 0..(batchNumber' - 1)
  BY <1>1, <1>2, <1>5 DEF FilesInv
<1>7. ASSUME ~torn PROVE FilesOf(nextBatch) = BatchWritten(nextBatch)
  <2>1. nextBatch \in DOMAIN files
    BY <1>1, <1>5 DEF TasksInv, Merging
  <2>2. ~Rewritten(nextBatch)
    BY <1>5 DEF Rewritten
  <2> QED BY <2>1, <2>2, <1>7 DEF FilesInv, FilesOf
<1>8. ASSUME ~torn', NEW b \in DOMAIN files'
      PROVE  IF Rewritten(b)' THEN \E h \in Garbage : files'[b] = Mapped(b, h)'
             ELSE files'[b] = BatchWritten(b)'
  <2>1. ~torn
    BY <1>8, <1>1
  <2>2. CASE b = nextBatch
    <3>1. files'[b] = Mapped(b, g)
      BY <1>2, <1>7, <2>1, <2>2 DEF Mapped
    <3>2. Rewritten(b)'
      BY <2>2, <1>1, <1>5 DEF Rewritten
    <3> QED BY <3>1, <3>2, <1>4
  <2>3. CASE b # nextBatch
    <3>1. b \in DOMAIN files /\ files'[b] = files[b]
      BY <1>2, <1>8, <2>3
    <3>2. b \in 0..(batchNumber - 1)
      BY <3>1 DEF FilesInv
    <3>3. Rewritten(b)' <=> Rewritten(b)
      BY <3>2, <2>3, <1>1, <1>5 DEF Rewritten
    <3>4. IF Rewritten(b) THEN \E h \in Garbage : files[b] = Mapped(b, h)
          ELSE files[b] = BatchWritten(b)
      BY <3>1, <2>1 DEF FilesInv
    <3> QED BY <3>1, <3>3, <3>4, <1>3, <1>4
  <2> QED BY <2>2, <2>3
<1> QED BY <1>6, <1>8 DEF FilesInv

\* Every step keeps the files of a batch right.
LEMMA FilesNext == ReadInv /\ NextInv /\ TasksInv /\ FilesInv /\ [Next]_vars => FilesInv'
<1> SUFFICES ASSUME ReadInv, NextInv, TasksInv, FilesInv, [Next]_vars PROVE FilesInv'
  OBVIOUS
<1>1. call' = call /\ (~torn' => ~torn)
  BY StepKeepsInput
<1>2. batchNumber \in Nat
  BY ReadIsTyped
<1>3. CASE \/ ReadRecord \/ EndOfInput \/ Submit \/ Wait \/ MergeTitles \/ CollectTerms
           \/ MergeRest \/ ResumeMerge
  <2>1. /\ files' = files /\ pc \notin {"remap", "remove", "done"}
        /\ pc' \notin {"remap", "remove", "done"}
    BY <1>3 DEF ReadRecord, EndOfInput, Submit, Wait, MergeTitles, CollectTerms, MergeRest,
      ResumeMerge, disk
  <2>2. batchNumber' = batchNumber \/ batchNumber' = batchNumber + 1
    BY <1>3 DEF ReadRecord, EndOfInput, Submit, Wait, MergeTitles, CollectTerms, MergeRest,
      ResumeMerge, reader
  <2>3. \A b : ~Rewritten(b) /\ ~Rewritten(b)'
    BY <2>1 DEF Rewritten
  <2>4. batchNumber' \in Nat /\ batchNumber <= batchNumber'
    BY <1>2, <2>2
  <2> QED BY <1>1, <2>1, <2>3, <2>4, UntouchedKeepsFiles
<1>4. CASE WriteTerms
  <2>1. files' = files /\ pc = "collect" /\ nextBatch' = 0 /\ batchNumber' = batchNumber
    BY <1>4 DEF WriteTerms, reader
  <2>2. \A b \in DOMAIN files : b \in Nat
    BY <1>2 DEF FilesInv
  <2>3. \A b \in DOMAIN files : ~Rewritten(b) /\ ~Rewritten(b)'
    BY <2>1, <2>2 DEF Rewritten
  <2>4. batchNumber' \in Nat /\ batchNumber <= batchNumber'
    BY <1>2, <2>1
  <2> QED BY <1>1, <2>1, <2>3, <2>4, UntouchedKeepsFiles
<1>5. CASE Kill
  <2>1. /\ files' = files /\ batchNumber' = batchNumber /\ pc' = "killed"
        /\ pc \in {"merge", "collect", "remap"}
        /\ torn' = (torn \/ (pc = "remap" /\ nextBatch > 0))
    BY <1>5 DEF Kill, reader
  <2>2. \A b \in DOMAIN files : b \in Nat
    BY <1>2 DEF FilesInv
  <2>3. ~torn' => \A b \in DOMAIN files : ~Rewritten(b) /\ ~Rewritten(b)'
    <3>1. ASSUME ~torn' PROVE pc = "remap" => ~(nextBatch > 0)
      BY <3>1, <2>1, Zenon
    <3>2. nextBatch \in Nat
      BY <1>2 DEF NextInv
    <3> QED BY <3>1, <3>2, <2>1, <2>2 DEF Rewritten
  <2>4. batchNumber' \in Nat /\ batchNumber <= batchNumber'
    BY <1>2, <2>1
  <2> QED BY <1>1, <2>1, <2>3, <2>4, UntouchedKeepsFiles
<1>6. CASE Remap
  BY <1>6, RemapKeepsFiles
<1>7. CASE Concatenate
  <2>1. /\ files' = files /\ batchNumber' = batchNumber /\ nextBatch' = nextBatch
        /\ pc = "remap" /\ pc' \in {"remove", "done"} /\ output'.terms = output.terms
    BY <1>7 DEF Concatenate, reader
  <2>2. \A b : Rewritten(b)' = Rewritten(b)
    BY <2>1 DEF Rewritten
  <2> QED BY <1>1, <2>1, <2>2, SameKeepsFiles
<1>8. CASE RemoveBatches
  <2>1. DOMAIN files' = {}
    BY <1>8 DEF RemoveBatches
  <2> QED BY <2>1 DEF FilesInv
<1>9. ASSUME NEW b \in DOMAIN tasks, RunBatch(b) PROVE FilesInv'
  BY <1>9, RunBatchKeepsFiles
<1>10. ASSUME (\E b : Pop(b) \/ Throw(b) \/ Discard(b)) \/ UNCHANGED vars PROVE FilesInv'
  <2>1. /\ files' = files /\ batchNumber' = batchNumber /\ nextBatch' = nextBatch
        /\ pc' = pc /\ output' = output
    BY <1>10 DEF Pop, Throw, Discard, reader, disk, vars
  <2>2. \A b : Rewritten(b)' = Rewritten(b)
    BY <2>1 DEF Rewritten
  <2> QED BY <1>1, <2>1, <2>2, SameKeepsFiles
<1> QED BY <1>3, <1>4, <1>5, <1>6, <1>7, <1>8, <1>9, <1>10 DEF Next, Main, Work, Fail

-----------------------------------------------------------------------------
(* What is written to the index.                                           *)

\* When the merge begins every batch has its files.
LEMMA MergeFindsFiles ==
  ASSUME TasksInv, pc \in Merging, pc # "done"
  PROVE  \A b \in 0..(batchNumber - 1) : b \in DOMAIN files /\ FilesOf(b) = files[b]
<1>1. \A b \in 0..(batchNumber - 1) : b \in DOMAIN files
  BY DEF TasksInv
<1> QED BY <1>1 DEF FilesOf

\* The titles are those of the records, batch after batch.
LEMMA MergeTitlesInOrder ==
  ASSUME ReadInv, TasksInv, FilesInv, MergeTitles, ~torn
  PROVE  MergedTitles'
<1>1. /\ call' = call /\ batchNumber' = batchNumber /\ pc = "merge"
      /\ output'.titles = Concatenated("titles")
  BY DEF MergeTitles, reader
<1>2. ASSUME NEW i \in 1..batchNumber PROVE FilesOf(i - 1)["titles"] = BatchRecords(i - 1)
  <2>1. batchNumber \in Nat
    BY ReadIsTyped
  <2>2. i - 1 \in 0..(batchNumber - 1)
    BY <2>1
  <2>3. i - 1 \in DOMAIN files /\ FilesOf(i - 1) = files[i - 1]
    BY <2>2, <1>1, MergeFindsFiles DEF Merging
  <2>4. ~Rewritten(i - 1)
    BY <1>1 DEF Rewritten
  <2>5. FilesOf(i - 1) = BatchWritten(i - 1)
    BY <2>3, <2>4 DEF FilesInv
  <2>6. BatchWritten(i - 1).titles = BatchRecords(i - 1)
    BY DEF BatchWritten, BatchFiles
  <2> QED BY <2>5, <2>6
<1>3. [i \in 1..batchNumber |-> FilesOf(i - 1)["titles"]]
        = [i \in 1..batchNumber |-> BatchRecords(i - 1)]
  BY <1>2
<1>4. Concatenated("titles") = FlattenSeq([i \in 1..batchNumber |-> BatchRecords(i - 1)])
  BY <1>3 DEF Concatenated
<1>5. \A b : BatchRecords(b)' = BatchRecords(b)
  BY <1>1, InputStays
<1>6. [i \in 1..batchNumber |-> BatchRecords(i - 1)]'
        = [i \in 1..batchNumber |-> BatchRecords(i - 1)]
  BY <1>1, <1>5
<1> QED BY <1>1, <1>4, <1>6 DEF MergedTitles

\* The documents are those of the batches, each with the terms of the index.
LEMMA ConcatenateInOrder ==
  ASSUME ReadInv, NextInv, TasksInv, FilesInv, Concatenate, ~torn
  PROVE  MergedDocuments'
<1>1. /\ call' = call /\ batchNumber' = batchNumber /\ pc = "remap" /\ nextBatch = batchNumber
      /\ output'.docs = Concatenated("docs") /\ output'.terms = output.terms
  BY DEF Concatenate, reader
<1>2. batchNumber \in Nat
  BY ReadIsTyped
<1> DEFINE g == [b \in 0..(batchNumber - 1) |-> CHOOSE h \in Garbage : files[b] = Mapped(b, h)]
<1>3. ASSUME NEW b \in 0..(batchNumber - 1)
      PROVE  g[b] \in Garbage /\ FilesOf(b) = Mapped(b, g[b])
  <2>1. b \in DOMAIN files /\ FilesOf(b) = files[b]
    BY <1>1, MergeFindsFiles DEF Merging
  <2>2. Rewritten(b)
    BY <1>1, <1>2 DEF Rewritten
  <2>3. \E h \in Garbage : files[b] = Mapped(b, h)
    BY <2>1, <2>2 DEF FilesInv
  <2> QED BY <2>1, <2>3
<1>4. g \in [0..(batchNumber - 1) -> Garbage]
  BY <1>3
<1> HIDE DEF g
<1>5. ASSUME NEW i \in 1..batchNumber PROVE FilesOf(i - 1)["docs"] = Mapped(i - 1, g[i - 1]).docs
  <2>1. i - 1 \in 0..(batchNumber - 1)
    BY <1>2
  <2> QED BY <2>1, <1>3
<1>6. [i \in 1..batchNumber |-> FilesOf(i - 1)["docs"]]
        = [i \in 1..batchNumber |-> Mapped(i - 1, g[i - 1]).docs]
  BY <1>5
<1>7. output'.docs = FlattenSeq([i \in 1..batchNumber |-> Mapped(i - 1, g[i - 1]).docs])
  BY <1>1, <1>6 DEF Concatenated
<1>8. PICK f : f = g
  OBVIOUS
<1>9. /\ f \in [0..(batchNumber' - 1) -> Garbage]
      /\ output'.docs = FlattenSeq([i \in 1..batchNumber' |-> Mapped(i - 1, f[i - 1])'.docs])
  <2>1. \A b, h : Mapped(b, h)' = Mapped(b, h)
    BY <1>1, RemappedStays
  <2>2. [i \in 1..batchNumber' |-> Mapped(i - 1, f[i - 1])'.docs]
          = [i \in 1..batchNumber |-> Mapped(i - 1, g[i - 1]).docs]
    BY <2>1, <1>1, <1>8
  <2> QED BY <2>2, <1>1, <1>4, <1>7, <1>8
<1> QED BY <1>9 DEF MergedDocuments

\* Where nothing is written to the index that is not there already.
LEMMA OthersKeepOutput ==
  ASSUME OutputInv, call' = call, batchNumber' = batchNumber, output'.titles = output.titles,
         ~torn' => ~torn,
         pc' \in {"collect", "remap", "remove", "done"} =>
           pc \in {"collect", "remap", "remove", "done"},
         pc' \in {"remove", "done"} => pc \in {"remove", "done"} /\ output' = output
  PROVE  OutputInv'
<1>1. \A b : BatchRecords(b)' = BatchRecords(b)
  BY InputStays
<1>2. [i \in 1..batchNumber |-> BatchRecords(i - 1)]'
        = [i \in 1..batchNumber |-> BatchRecords(i - 1)]
  BY <1>1
<1>3. MergedTitles => MergedTitles'
  BY <1>2 DEF MergedTitles
<1>4. ASSUME MergedDocuments, output' = output PROVE MergedDocuments'
  <2>1. \A b, h : Mapped(b, h)' = Mapped(b, h)
    BY <1>4, RemappedStays
  <2>2. PICK g \in [0..(batchNumber - 1) -> Garbage] :
          output.docs = FlattenSeq([i \in 1..batchNumber |-> Mapped(i - 1, g[i - 1]).docs])
    BY <1>4 DEF MergedDocuments
  <2>3. [i \in 1..batchNumber' |-> Mapped(i - 1, g[i - 1])'.docs]
          = [i \in 1..batchNumber |-> Mapped(i - 1, g[i - 1]).docs]
    BY <2>1
  <2>4. output'.docs = FlattenSeq([i \in 1..batchNumber' |-> Mapped(i - 1, g[i - 1])'.docs])
    BY <2>2, <2>3, <1>4
  <2> QED BY <2>4 DEF MergedDocuments
<1>5. documents' = documents
  BY InputStays
<1> QED BY <1>3, <1>4, <1>5 DEF OutputInv

\* Every step keeps what is written to the index right.
LEMMA OutputNext ==
  ReadInv /\ NextInv /\ TasksInv /\ FilesInv /\ OutputInv /\ [Next]_vars => OutputInv'
<1> SUFFICES ASSUME ReadInv, NextInv, TasksInv, FilesInv, OutputInv, [Next]_vars PROVE OutputInv'
  OBVIOUS
<1>1. call' = call /\ (~torn' => ~torn)
  BY StepKeepsInput
<1>2. CASE \/ ReadRecord \/ EndOfInput \/ Submit \/ Wait \/ Kill \/ ResumeMerge
  <2>1. pc' \notin {"collect", "remap", "remove", "done"}
    BY <1>2 DEF ReadRecord, EndOfInput, Submit, Wait, Kill, ResumeMerge
  <2> QED BY <2>1 DEF OutputInv
<1>3. CASE MergeTitles
  <2>1. pc' = "collect" /\ (~torn' => MergedTitles')
    BY <1>1, <1>3, MergeTitlesInOrder DEF MergeTitles
  <2> QED BY <2>1 DEF OutputInv
<1>4. CASE CollectTerms \/ MergeRest \/ WriteTerms \/ Remap
  <2>1. batchNumber' = batchNumber
    BY <1>4 DEF CollectTerms, MergeRest, WriteTerms, Remap, reader
  <2>2. pc \in {"collect", "remap"} /\ pc' \in {"collect", "remap"}
    BY <1>4 DEF CollectTerms, MergeRest, WriteTerms, Remap
  <2>3. output'.titles = output.titles
    <3>1. CASE WriteTerms
      BY <3>1 DEF WriteTerms
    <3>2. CASE CollectTerms \/ MergeRest \/ Remap
      BY <3>2 DEF CollectTerms, MergeRest, Remap
    <3> QED BY <1>4, <3>1, <3>2
  <2> QED BY <2>1, <2>2, <2>3, <1>1, OthersKeepOutput
<1>5. CASE Concatenate
  <2>1. /\ batchNumber' = batchNumber /\ output'.titles = output.titles
        /\ output'.count = firstDocument /\ pc = "remap" /\ torn' = torn
    BY <1>5 DEF Concatenate, reader
  <2>2. ~torn => MergedDocuments'
    BY <1>5, ConcatenateInOrder
  <2>3. \A b : BatchRecords(b)' = BatchRecords(b)
    BY <1>1, InputStays
  <2>4. [i \in 1..batchNumber |-> BatchRecords(i - 1)]'
          = [i \in 1..batchNumber |-> BatchRecords(i - 1)]
    BY <2>1, <2>3
  <2>5. ~torn => MergedTitles'
    BY <2>1, <2>4 DEF OutputInv, MergedTitles
  <2>6. firstDocument = Len(documents) /\ documents' = documents
    BY <2>1, <1>1, InputStays DEF ReadInv, Reading
  <2> QED BY <2>1, <2>2, <2>5, <2>6 DEF OutputInv
<1>6. CASE RemoveBatches
  <2>1. batchNumber' = batchNumber /\ output' = output /\ pc = "remove"
    BY <1>6 DEF RemoveBatches, reader
  <2> QED BY <2>1, <1>1, OthersKeepOutput
<1>7. ASSUME (\E b : RunBatch(b) \/ Pop(b) \/ Throw(b) \/ Discard(b)) \/ UNCHANGED vars
      PROVE  OutputInv'
  <2>1. batchNumber' = batchNumber /\ output' = output /\ pc' = pc
    BY <1>7 DEF RunBatch, Pop, Throw, Discard, reader, disk, vars
  <2> QED BY <2>1, <1>1, OthersKeepOutput
<1> QED BY <1>2, <1>3, <1>4, <1>5, <1>6, <1>7 DEF Next, Main, Work, Fail

\* With the last batch all records are in batches.
LEMMA BatchedNext == ReadInv /\ BatchedInv /\ [Next]_vars => BatchedInv'
<1> SUFFICES ASSUME ReadInv, BatchedInv, [Next]_vars PROVE BatchedInv'
  OBVIOUS
<1>1. call' = call /\ documents' = documents
  BY StepKeepsInput, InputStays
<1>2. CASE ReadRecord \/ EndOfInput
  BY <1>2 DEF ReadRecord, EndOfInput, BatchedInv, Reading
<1>3. CASE Submit
  <2>1. CASE pc = "submit"
    BY <1>3, <2>1 DEF Submit, BatchedInv, Reading
  <2>2. CASE pc = "submit last"
    <3>1. batchNumber' = batchNumber + 1
      BY <1>3 DEF Submit
    <3>2. /\ firstDocument = batchNumber * call.batchSize /\ read = Len(documents)
          /\ call.batchSize <= 0 => batchNumber = 0
          /\ call.batchSize > 0 => read - firstDocument < call.batchSize
      BY <2>2 DEF ReadInv, Reading
    <3>3. /\ Len(documents) \in Nat /\ firstDocument \in Nat /\ batchNumber \in Nat
          /\ firstDocument <= Len(documents) /\ call.batchSize \in Int
      BY <3>2, ReadIsTyped
    <3>4. (batchNumber + 1) * call.batchSize = batchNumber * call.batchSize + call.batchSize
      BY <3>3
    <3>5. batchNumber' - 1 = batchNumber
      BY <3>1, <3>3
    <3>6. CASE call.batchSize > 0
      <4>1. (batchNumber' - 1) * call.batchSize = firstDocument
        BY <3>2, <3>5
      <4>2. batchNumber' * call.batchSize = firstDocument + call.batchSize
        BY <3>1, <3>2, <3>4
      <4>3. Len(documents) < firstDocument + call.batchSize
        BY <3>2, <3>3, <3>6
      <4>4. /\ (batchNumber' - 1) * call'.batchSize <= Len(documents)
            /\ Len(documents) < batchNumber' * call'.batchSize
        BY <4>1, <4>2, <4>3, <3>3, <1>1
      <4> QED BY <4>4, <3>6, <1>1 DEF BatchedInv, AllBatched
    <3>7. CASE ~(call.batchSize > 0)
      <4>1. batchNumber' = 1 /\ ~(call'.batchSize > 0)
        BY <3>1, <3>2, <3>3, <3>7, <1>1
      <4> QED BY <4>1 DEF BatchedInv, AllBatched
    <3> QED BY <3>6, <3>7
  <2> QED BY <1>3, <2>1, <2>2 DEF Submit
<1>4. ASSUME batchNumber' = batchNumber, pc \notin Reading \/ pc' = pc PROVE BatchedInv'
  BY <1>1, <1>4 DEF BatchedInv, AllBatched
<1>5. CASE \/ Wait \/ MergeTitles \/ CollectTerms \/ MergeRest \/ WriteTerms \/ Remap
           \/ Concatenate \/ RemoveBatches \/ Kill \/ ResumeMerge
  BY <1>5, <1>4, MergeLeavesInput DEF reader
<1>6. ASSUME NEW b, RunBatch(b) \/ Pop(b) \/ Throw(b) \/ Discard(b) PROVE BatchedInv'
  BY <1>6, <1>4, TasksLeaveInput DEF reader
<1>7. CASE UNCHANGED vars
  BY <1>7, <1>4 DEF vars, reader
<1> QED BY <1>2, <1>3, <1>5, <1>6, <1>7 DEF Next, Main, Work, Fail

-----------------------------------------------------------------------------

\* The inductive invariant of the build.
BuildInv == ReadInv /\ BatchedInv /\ NextInv /\ TasksInv /\ FilesInv /\ OutputInv

\* From the records read to the index written, every batch is on its way: the reader
\* fills it with the next records, it is in the task group until its files are
\* written, those are rewritten once, and the index is merged from them.
THEOREM BuildInvariantHolds == Spec => []BuildInv
<1>1. Init => BuildInv
  <2> SUFFICES ASSUME Init PROVE BuildInv
    OBVIOUS
  <2>1. BatchedInv
    BY DEF Init, BatchedInv, Reading
  <2> QED BY <2>1, ReadInit DEF BuildInv
<1>2. BuildInv /\ [Next]_vars => BuildInv'
  <2> SUFFICES ASSUME BuildInv, [Next]_vars PROVE BuildInv'
    OBVIOUS
  <2> USE DEF BuildInv
  <2>1. ReadInv' /\ BatchedInv' /\ NextInv'
    BY ReadNext, BatchedNext, NextBatchNext
  <2>2. TasksInv' /\ FilesInv' /\ OutputInv'
    BY TasksNext, FilesNext, OutputNext
  <2> QED BY <2>1, <2>2
<1> QED BY <1>1, <1>2, PTL DEF Spec

\* A merge is killed at most so many times.
LEMMA KillsInit == Init => kills \in 0..MaxKills
  BY WorkloadAssumption DEF Init

\* No step kills it more often.
LEMMA KillsNext == kills \in 0..MaxKills /\ [Next]_vars => (kills \in 0..MaxKills)'
<1> SUFFICES ASSUME kills \in 0..MaxKills, [Next]_vars PROVE kills' \in 0..MaxKills
  OBVIOUS
<1>1. kills' = kills \/ (kills < MaxKills /\ kills' = kills + 1)
  BY DEF Next, Main, Work, Fail, vars, ReadRecord, EndOfInput, Submit, Wait, MergeTitles,
    CollectTerms, MergeRest, WriteTerms, Remap, Concatenate, RemoveBatches, RunBatch, Pop, Throw,
    Discard, Kill, ResumeMerge
<1> QED BY <1>1, WorkloadAssumption

\* The state of the build has its types: a batch is never larger than it may be, and
\* the task group, the disk and the merge know of no batch that was not submitted.
THEOREM TypeCorrect == Spec => []TypeOK
<1>1. BuildInv /\ SlotsInv /\ kills \in 0..MaxKills => TypeOK
  <2> SUFFICES ASSUME BuildInv, SlotsInv, kills \in 0..MaxKills PROVE TypeOK
    OBVIOUS
  <2>1. ReadInv /\ NextInv /\ TasksInv /\ FilesInv
    BY DEF BuildInv
  <2>2. call.batchSize > 0 => Len(recordBatch) <= call.batchSize
    <3> DEFINE n == read - firstDocument
    <3>1. /\ n \in Nat /\ call.batchSize \in Int
          /\ recordBatch = [i \in 1..n |-> firstDocument + i]
      BY <2>1, ReadIsTyped DEF ReadInv
    <3>2. Len(recordBatch) = n
      <4> HIDE DEF n
      <4> QED BY <3>1
    <3>3. CASE pc \in Reading
      <4>1. call.batchSize > 0 => n < call.batchSize \/ n = call.batchSize
        BY <2>1, <3>3 DEF ReadInv, Reading
      <4> HIDE DEF n
      <4> QED BY <4>1, <3>1, <3>2
    <3>4. CASE pc \notin Reading
      <4>1. firstDocument = Len(documents)
        BY <2>1, <3>4 DEF ReadInv
      <4>2. n = 0
        BY <4>1, <2>1, ReadIsTyped
      <4> QED BY <4>2, <3>1, <3>2
    <3> QED BY <3>3, <3>4
  <2>3. read \in 0..Len(documents) /\ nextBatch \in 0..batchNumber
    BY <2>1 DEF ReadInv, NextInv
  <2>4. DOMAIN tasks \subseteq 0..(batchNumber - 1) /\ DOMAIN files \subseteq 0..(batchNumber - 1)
    BY <2>1 DEF TasksInv, FilesInv
  <2> QED BY <2>2, <2>3, <2>4 DEF TypeOK, SlotsInv
<1> QED BY <1>1, BuildInvariantHolds, SlotsInit, SlotsNext, KillsInit, KillsNext, PTL DEF Spec

\* What a build of one batch after the other would write: the titles of all records
\* and their documents with the terms of the index, batch after batch.
WrittenInOrder ==
  pc = "done" /\ ~torn =>
    /\ AllBatched
    /\ MergedTitles
    /\ MergedDocuments
    /\ output.count = Len(documents)

\* However the tasks of the batches interleave with the reader and with each other,
\* also when a merge was killed before it rewrote a batch and was run again, the index
\* has every record once, in the order in which they were read, and each batch
\* is rewritten exactly once.
THEOREM IndexIsInOrder == Spec => []WrittenInOrder
<1>1. BuildInv => WrittenInOrder
  BY DEF BuildInv, BatchedInv, OutputInv, WrittenInOrder, Reading
<1> QED BY <1>1, BuildInvariantHolds, PTL

-----------------------------------------------------------------------------
(* Sorted sequences.                                                       *)

\* Every nonempty set of naturals has a least element.
LEMMA LeastNumber ==
  ASSUME NEW S, S \subseteq Nat, S # {}
  PROVE  \E m \in S : \A n \in S : m <= n
<1> DEFINE Below == {p \in Nat \X Nat : p[1] < p[2]}
<1>1. IsWellFoundedOn(Below, Nat)
  BY NatLessThanWellFounded DEF OpToRel
<1>2. \A m, n \in Nat : <<m, n>> \in Below <=> m < n
  OBVIOUS
<1> HIDE DEF Below
<1>3. PICK m \in S : \A n \in S : ~(<<n, m>> \in Below)
  BY <1>1, WFMin
<1>4. ASSUME NEW n \in S PROVE m <= n
  <2>1. m \in Nat /\ n \in Nat
    OBVIOUS
  <2>2. ~(n < m)
    BY <1>2, <1>3, <2>1
  <2> QED BY <2>1, <2>2
<1> QED BY <1>4

\* What holds of 1 and is handed on holds up to n.
LEMMA HoldsUpTo ==
  ASSUME NEW n \in Nat, NEW Good, 1 \in Good,
         \A k \in 1..(n - 1) : k \in Good => k + 1 \in Good
  PROVE  1..n \subseteq Good
<1> DEFINE Bad == {k \in 1..n : k \notin Good}
<1>1. SUFFICES ASSUME Bad # {} PROVE FALSE
  OBVIOUS
<1>2. PICK k \in Bad : \A l \in Bad : k <= l
  <2>1. Bad \subseteq Nat
    OBVIOUS
  <2> HIDE DEF Bad
  <2> QED BY <1>1, <2>1, LeastNumber
<1>3. k # 1
  BY <1>2
<1>4. k - 1 \in 1..(n - 1) /\ k - 1 \notin Bad /\ (k - 1) + 1 = k
  BY <1>2, <1>3
<1> QED BY <1>2, <1>4

\* How many members of S are below x.
Rank(S, x) == Cardinality({y \in S : y < x})

\* The ranks of the members of a set of n numbers are 0..(n - 1).
LEMMA RanksAreAll ==
  ASSUME NEW S, S \subseteq Int, IsFiniteSet(S)
  PROVE  /\ Cardinality(S) \in Nat
         /\ \A x \in S : Rank(S, x) \in 0..(Cardinality(S) - 1)
         /\ \A x, y \in S : x < y => Rank(S, x) < Rank(S, y)
         /\ \A k \in 1..Cardinality(S) : \E x \in S : Rank(S, x) = k - 1
<1> DEFINE n == Cardinality(S)
           below(x) == {y \in S : y < x}
<1>1. \A x : /\ IsFiniteSet(below(x)) /\ Cardinality(below(x)) \in Nat
             /\ Cardinality(below(x)) <= n
             /\ n = Cardinality(below(x)) => S = below(x)
  <2> TAKE x
  <2>1. below(x) \in SUBSET S
    OBVIOUS
  <2>2. /\ IsFiniteSet(below(x)) /\ Cardinality(below(x)) <= n
        /\ n = Cardinality(below(x)) => S = below(x)
    BY <2>1, FS_Subset
  <2> QED BY <2>2, FS_CardinalityType
<1>2. n \in Nat
  BY FS_CardinalityType
<1>3. \A x : Rank(S, x) = Cardinality(below(x))
  BY DEF Rank
<1>4. ASSUME NEW x \in S, NEW y \in S, x < y
      PROVE  Cardinality(below(x)) < Cardinality(below(y))
  <2>1. below(x) \in SUBSET below(y) /\ x \in below(y) /\ x \notin below(x)
    <3>1. x \in Int /\ y \in Int /\ \A z \in S : z \in Int
      OBVIOUS
    <3>2. ASSUME NEW z \in below(x) PROVE z \in below(y)
      <4>1. z \in S /\ z \in Int /\ z < x
        BY <3>1
      <4>2. z < y
        BY <4>1, <3>1, <1>4
      <4> QED BY <4>1, <4>2
    <3>3. x \in below(y)
      BY <1>4
    <3>4. x \notin below(x)
      BY <3>1
    <3> HIDE DEF below
    <3> QED BY <3>2, <3>3, <3>4
  <2>2. /\ Cardinality(below(x)) <= Cardinality(below(y))
        /\ Cardinality(below(y)) = Cardinality(below(x)) => below(y) = below(x)
    BY <2>1, <1>1, FS_Subset
  <2> HIDE DEF below
  <2> QED BY <2>1, <2>2, <1>1
<1>5. ASSUME NEW x \in S PROVE Cardinality(below(x)) \in 0..(n - 1)
  <2>1. x \notin below(x)
    OBVIOUS
  <2> HIDE DEF below, n
  <2>2. Cardinality(below(x)) # n
    BY <2>1, <1>1
  <2> QED BY <2>2, <1>1, <1>2
<1> DEFINE rank == [x \in S |-> Cardinality(below(x))]
<1>6. rank \in Injection(S, 0..(n - 1))
  <2>1. rank \in [S -> 0..(n - 1)]
    BY <1>5
  <2>2. ASSUME NEW x \in S, NEW y \in S, x # y PROVE rank[x] # rank[y]
    <3>1. x < y \/ y < x
      BY <2>2
    <3> HIDE DEF below
    <3>2. Cardinality(below(x)) \in Nat /\ Cardinality(below(y)) \in Nat
      BY <1>1
    <3>3. Cardinality(below(x)) # Cardinality(below(y))
      BY <3>1, <3>2, <1>4
    <3> QED BY <3>3
  <2> HIDE DEF rank
  <2> QED BY <2>1, <2>2 DEF Injection, IsInjective
<1>7. IsFiniteSet(0..(n - 1)) /\ Cardinality(0..(n - 1)) = n
  <2> HIDE DEF n
  <2>1. 0 \in Int /\ n - 1 \in Int
    BY <1>2
  <2>2. /\ IsFiniteSet(0..(n - 1))
        /\ Cardinality(0..(n - 1)) = IF 0 > n - 1 THEN 0 ELSE (n - 1) - 0 + 1
    BY <2>1, FS_Interval
  <2> QED BY <2>2, <1>2
<1> HIDE DEF rank
<1>8. rank \in Surjection(S, 0..(n - 1))
  BY <1>6, <1>7, FS_Injection
<1>9. ASSUME NEW k \in 1..n PROVE \E x \in S : Cardinality(below(x)) = k - 1
  <2>1. k - 1 \in 0..(n - 1)
    BY <1>2
  <2>2. PICK x \in S : rank[x] = k - 1
    BY <2>1, <1>8 DEF Surjection
  <2> QED BY <2>2 DEF rank
<1> HIDE DEF below
<1> QED BY <1>2, <1>3, <1>4, <1>5, <1>9

\* A sorted sequence has the members of the set, each once, in ascending order.
LEMMA AscendingSorts ==
  ASSUME NEW S, S \subseteq Int, IsFiniteSet(S)
  PROVE  /\ Cardinality(S) \in Nat
         /\ Ascending(S) \in [1..Cardinality(S) -> S]
         /\ Range(Ascending(S)) = S
         /\ \A i, j \in 1..Cardinality(S) : i < j => Ascending(S)[i] < Ascending(S)[j]
<1> DEFINE n == Cardinality(S)
           a == Ascending(S)
<1>1. /\ n \in Nat
      /\ \A x \in S : Rank(S, x) \in 0..(n - 1)
      /\ \A x, y \in S : x < y => Rank(S, x) < Rank(S, y)
      /\ \A k \in 1..n : \E x \in S : Rank(S, x) = k - 1
  BY RanksAreAll
<1>2. a = [k \in 1..n |-> CHOOSE x \in S : Rank(S, x) = k - 1]
  BY DEF Ascending, Rank
<1> HIDE DEF n, a
<1>3. ASSUME NEW k \in 1..n PROVE a[k] \in S /\ Rank(S, a[k]) = k - 1
  <2>1. \E x \in S : Rank(S, x) = k - 1
    BY <1>1
  <2>2. a[k] = CHOOSE x \in S : Rank(S, x) = k - 1
    BY <1>2
  <2> QED BY <2>1, <2>2
<1>4. a \in [1..n -> S]
  BY <1>2, <1>3
<1>5. ASSUME NEW x \in S PROVE \E k \in 1..n : a[k] = x
  <2> DEFINE k == Rank(S, x) + 1
  <2>1. k \in 1..n /\ k - 1 = Rank(S, x)
    BY <1>1
  <2> HIDE DEF k
  <2>2. a[k] \in S /\ Rank(S, a[k]) = Rank(S, x)
    BY <1>3, <2>1
  <2>3. Rank(S, x) \in Int
    BY <1>1
  <2>4. a[k] \in Int /\ x \in Int
    BY <2>2
  <2>5. ~(a[k] < x) /\ ~(x < a[k])
    <3>1. a[k] < x => Rank(S, a[k]) < Rank(S, x)
      BY <1>1, <2>2
    <3>2. x < a[k] => Rank(S, x) < Rank(S, a[k])
      BY <1>1, <2>2
    <3> QED BY <3>1, <3>2, <2>2, <2>3
  <2>6. a[k] = x
    BY <2>4, <2>5
  <2> QED BY <2>1, <2>6
<1>6. Range(a) = S
  BY <1>4, <1>5 DEF Range
<1>7. ASSUME NEW i \in 1..n, NEW j \in 1..n, i < j PROVE a[i] < a[j]
  <2>1. /\ a[i] \in S /\ a[j] \in S /\ Rank(S, a[i]) = i - 1 /\ Rank(S, a[j]) = j - 1
    BY <1>3
  <2>2. i \in Int /\ j \in Int /\ i - 1 < j - 1
    BY <1>1, <1>7
  <2>3. a[i] \in Int /\ a[j] \in Int
    BY <2>1
  <2>6. a[i] # a[j]
    <3>1. i - 1 # j - 1
      BY <2>2
    <3> QED BY <2>1, <3>1
  <2>4. a[j] < a[i] => Rank(S, a[j]) < Rank(S, a[i])
    BY <1>1, <2>1
  <2>5. ~(a[j] < a[i])
    BY <2>1, <2>2, <2>4
  <2> QED BY <2>3, <2>5, <2>6
<1> QED BY <1>1, <1>4, <1>6, <1>7 DEF n, a

-----------------------------------------------------------------------------
(* Sequences put one after the other.                                      *)

\* The first i sequences put one after the other, for every i.
IsFlattened(f, seqs) ==
  f = [i \in 1..Len(seqs) |-> IF i = 1 THEN seqs[i] ELSE f[i - 1] \o seqs[i]]

\* There is such a function.
LEMMA FlattenedExists ==
  ASSUME NEW seqs, Len(seqs) \in Nat
  PROVE  \E f : IsFlattened(f, seqs)
<1> DEFINE n == Len(seqs)
           Upto(f, m) == f = [i \in 1..m |-> IF i = 1 THEN seqs[i] ELSE f[i - 1] \o seqs[i]]
           Good == {m \in Nat : \E f : Upto(f, m)}
<1>1. 1 \in Good
  <2>1. PICK f : f = [i \in 1..1 |-> seqs[i]]
    OBVIOUS
  <2>2. Upto(f, 1)
    BY <2>1
  <2> QED BY <2>2
<1>2. ASSUME NEW m \in 1..(n - 1), m \in Good PROVE m + 1 \in Good
  <2>1. PICK f : Upto(f, m)
    BY <1>2
  <2>2. m \in Nat /\ m + 1 \in Nat
    OBVIOUS
  <2>3. PICK g : g = [i \in 1..(m + 1) |-> IF i <= m THEN f[i] ELSE f[m] \o seqs[m + 1]]
    OBVIOUS
  <2>4. ASSUME NEW i \in 1..(m + 1)
        PROVE  g[i] = IF i = 1 THEN seqs[i] ELSE g[i - 1] \o seqs[i]
    <3>1. CASE i <= m
      <4>1. i \in 1..m /\ g[i] = f[i]
        BY <2>2, <2>3, <3>1
      <4>2. f[i] = IF i = 1 THEN seqs[i] ELSE f[i - 1] \o seqs[i]
        BY <2>1, <4>1
      <4>3. i # 1 => i - 1 \in 1..(m + 1) /\ i - 1 <= m
        BY <2>2, <4>1
      <4>4. i # 1 => g[i - 1] = f[i - 1]
        BY <2>3, <4>3
      <4> QED BY <4>1, <4>2, <4>4
    <3>2. CASE ~(i <= m)
      <4>1. i = m + 1 /\ i # 1 /\ i - 1 = m /\ m \in 1..(m + 1) /\ m <= m
        BY <2>2, <3>2
      <4>2. g[i] = f[m] \o seqs[i] /\ g[i - 1] = f[m]
        BY <2>3, <3>2, <4>1
      <4> QED BY <4>1, <4>2
    <3> QED BY <3>1, <3>2
  <2>5. Upto(g, m + 1)
    <3>1. g = [i \in 1..(m + 1) |-> g[i]]
      BY <2>3
    <3> QED BY <2>4, <3>1
  <2> QED BY <2>2, <2>5
<1>3. CASE n = 0
  <2>1. PICK f : f = [i \in 1..n |-> seqs[i]]
    OBVIOUS
  <2>2. 1..n = {}
    BY <1>3
  <2>3. f = [i \in 1..n |-> IF i = 1 THEN seqs[i] ELSE f[i - 1] \o seqs[i]]
    BY <2>1, <2>2
  <2> QED BY <2>3 DEF IsFlattened
<1>4. CASE n # 0
  <2>1. 1..n \subseteq Good
    <3> HIDE DEF Good, n
    <3> QED BY <1>1, <1>2, HoldsUpTo DEF n
  <2>2. n \in 1..n
    BY <1>4
  <2>3. PICK f : Upto(f, n)
    BY <2>1, <2>2
  <2> QED BY <2>3 DEF IsFlattened
<1> QED BY <1>3, <1>4

\* What FlattenSeq gives, step by step.
LEMMA FlattenUnfolds ==
  ASSUME NEW seqs, Len(seqs) \in Nat
  PROVE  /\ Len(seqs) = 0 => FlattenSeq(seqs) = seqs
         /\ Len(seqs) # 0 =>
              \E f : /\ FlattenSeq(seqs) = f[Len(seqs)]
                     /\ f[1] = seqs[1]
                     /\ \A i \in 1..(Len(seqs) - 1) : f[i + 1] = f[i] \o seqs[i + 1]
<1>1. Len(seqs) = 0 => FlattenSeq(seqs) = seqs
  BY DEF FlattenSeq
<1> DEFINE h == CHOOSE h : IsFlattened(h, seqs)
<1>2. IsFlattened(h, seqs)
  BY FlattenedExists
<1>3. Len(seqs) # 0 => FlattenSeq(seqs) = h[Len(seqs)]
  BY DEF FlattenSeq, IsFlattened
<1> HIDE DEF h
<1>4. ASSUME Len(seqs) # 0 PROVE h[1] = seqs[1]
  BY <1>2, <1>4 DEF IsFlattened
<1>5. ASSUME NEW i \in 1..(Len(seqs) - 1) PROVE h[i + 1] = h[i] \o seqs[i + 1]
  <2>1. i + 1 \in 1..Len(seqs) /\ i + 1 # 1 /\ (i + 1) - 1 = i
    OBVIOUS
  <2>2. h[i + 1] = IF i + 1 = 1 THEN seqs[i + 1] ELSE h[(i + 1) - 1] \o seqs[i + 1]
    BY <2>1, <1>2 DEF IsFlattened
  <2> QED BY <2>1, <2>2
<1> QED BY <1>1, <1>3, <1>4, <1>5

\* The members of two sequences are those of one after the other.
LEMMA RangeOfConcat ==
  ASSUME NEW S, NEW s \in Seq(S), NEW t \in Seq(S)
  PROVE  s \o t \in Seq(S) /\ Range(s \o t) = Range(s) \cup Range(t)
<1>1. /\ s \o t \in Seq(S) /\ Len(s \o t) = Len(s) + Len(t)
      /\ \A i \in 1..(Len(s) + Len(t)) : (s \o t)[i] = IF i <= Len(s) THEN s[i] ELSE t[i - Len(s)]
  BY ConcatProperties
<1>2. /\ Len(s) \in Nat /\ Len(t) \in Nat /\ DOMAIN s = 1..Len(s) /\ DOMAIN t = 1..Len(t)
      /\ DOMAIN (s \o t) = 1..(Len(s) + Len(t))
  BY <1>1, LenProperties
<1> DEFINE u == s \o t
<1>3. /\ DOMAIN u = 1..(Len(s) + Len(t))
      /\ \A i \in 1..(Len(s) + Len(t)) : u[i] = IF i <= Len(s) THEN s[i] ELSE t[i - Len(s)]
  BY <1>1, <1>2
<1> HIDE DEF u
<1>4. ASSUME NEW i \in DOMAIN u PROVE u[i] \in Range(s) \cup Range(t)
  <2>1. CASE i <= Len(s)
    <3>1. i \in DOMAIN s /\ u[i] = s[i]
      BY <2>1, <1>2, <1>3
    <3> QED BY <3>1 DEF Range
  <2>2. CASE ~(i <= Len(s))
    <3>1. i - Len(s) \in DOMAIN t /\ u[i] = t[i - Len(s)]
      BY <2>2, <1>2, <1>3
    <3> QED BY <3>1 DEF Range
  <2> QED BY <2>1, <2>2
<1>5. ASSUME NEW i \in DOMAIN s PROVE s[i] \in Range(u)
  <2>1. i \in DOMAIN u /\ u[i] = s[i]
    BY <1>2, <1>3
  <2> QED BY <2>1 DEF Range
<1>6. ASSUME NEW i \in DOMAIN t PROVE t[i] \in Range(u)
  <2>1. Len(s) + i \in DOMAIN u /\ ~(Len(s) + i <= Len(s)) /\ (Len(s) + i) - Len(s) = i
    BY <1>2, <1>3
  <2>2. u[Len(s) + i] = t[i]
    BY <2>1, <1>3
  <2> QED BY <2>1, <2>2 DEF Range
<1>7. Range(u) = Range(s) \cup Range(t)
  BY <1>4, <1>5, <1>6 DEF Range
<1> QED BY <1>1, <1>7 DEF u

\* What sequences hold one after the other is what they hold.
LEMMA RangeOfFlattened ==
  ASSUME NEW S, NEW seqs \in Seq(Seq(S))
  PROVE  /\ FlattenSeq(seqs) \in Seq(S)
         /\ Range(FlattenSeq(seqs)) = UNION {Range(seqs[i]) : i \in DOMAIN seqs}
<1> DEFINE n == Len(seqs)
           Held(k) == UNION {Range(seqs[i]) : i \in 1..k}
<1>1. n \in Nat /\ DOMAIN seqs = 1..n /\ \A i \in 1..n : seqs[i] \in Seq(S)
  BY LenProperties, ElementOfSeq
<1>2. /\ n = 0 => FlattenSeq(seqs) = seqs
      /\ n # 0 =>
           \E f : /\ FlattenSeq(seqs) = f[n] /\ f[1] = seqs[1]
                  /\ \A i \in 1..(n - 1) : f[i + 1] = f[i] \o seqs[i + 1]
  BY <1>1, FlattenUnfolds
<1>3. CASE n = 0
  <2>1. seqs = <<>>
    BY <1>3, EmptySeq
  <2>2. FlattenSeq(seqs) = <<>>
    BY <2>1, <1>2, <1>3
  <2>3. Range(<<>>) = {}
    BY DEF Range
  <2>4. UNION {Range(seqs[i]) : i \in DOMAIN seqs} = {}
    BY <1>1, <1>3
  <2> QED BY <2>2, <2>3, <2>4, EmptySeq
<1>4. CASE n # 0
  <2>1. PICK f : /\ FlattenSeq(seqs) = f[n] /\ f[1] = seqs[1]
                 /\ \A i \in 1..(n - 1) : f[i + 1] = f[i] \o seqs[i + 1]
    BY <1>2, <1>4
  <2> DEFINE Good == {k \in 1..n : f[k] \in Seq(S) /\ Range(f[k]) = Held(k)}
  <2>2. 1 \in Good
    <3>1. Held(1) = Range(seqs[1])
      OBVIOUS
    <3>2. 1 \in 1..n
      BY <1>1, <1>4
    <3> HIDE DEF Held
    <3> QED BY <3>1, <3>2, <2>1, <1>1
  <2>3. ASSUME NEW k \in 1..(n - 1), k \in Good PROVE k + 1 \in Good
    <3>1. k + 1 \in 1..n /\ f[k + 1] = f[k] \o seqs[k + 1] /\ seqs[k + 1] \in Seq(S)
      <4>1. k + 1 \in 1..n
        BY <1>1
      <4> HIDE DEF n
      <4> QED BY <4>1, <2>1, <1>1
    <3>2. Range(f[k + 1]) = Range(f[k]) \cup Range(seqs[k + 1]) /\ f[k + 1] \in Seq(S)
      BY <2>3, <3>1, RangeOfConcat
    <3>3. 1..(k + 1) = (1..k) \cup {k + 1}
      OBVIOUS
    <3>4. Held(k + 1) = Held(k) \cup Range(seqs[k + 1])
      BY <3>3
    <3> HIDE DEF Held
    <3> QED BY <2>3, <3>1, <3>2, <3>4
  <2>4. 1..n \subseteq Good
    <3> HIDE DEF Good, n
    <3> QED BY <2>2, <2>3, <1>1, HoldsUpTo
  <2>5. n \in 1..n
    BY <1>1, <1>4
  <2> HIDE DEF Held
  <2>6. f[n] \in Seq(S) /\ Range(f[n]) = Held(n)
    BY <2>4, <2>5
  <2>7. Held(n) = UNION {Range(seqs[i]) : i \in DOMAIN seqs}
    BY <1>1 DEF Held
  <2> QED BY <2>1, <2>6, <2>7
<1> QED BY <1>3, <1>4

\* Parts of a whole, one after the other, are the whole: part i ends where e says.
LEMMA PartsMakeWhole ==
  ASSUME NEW S, NEW whole \in Seq(S), NEW parts, NEW e, Len(parts) \in Nat \ {0},
         e \in [0..Len(parts) -> 0..Len(whole)], e[0] = 0, e[Len(parts)] = Len(whole),
         \A i \in 1..Len(parts) :
           e[i - 1] <= e[i] /\ parts[i] = SubSeq(whole, e[i - 1] + 1, e[i])
  PROVE  FlattenSeq(parts) = whole
<1> DEFINE n == Len(parts)
<1>1. n \in Nat /\ n # 0 /\ Len(whole) \in Nat
  BY LenProperties
<1>2. \A i \in 0..n : e[i] \in Nat /\ e[i] <= Len(whole)
  BY <1>1
<1>3. PICK f : /\ FlattenSeq(parts) = f[n] /\ f[1] = parts[1]
               /\ \A i \in 1..(n - 1) : f[i + 1] = f[i] \o parts[i + 1]
  BY <1>1, FlattenUnfolds
<1> DEFINE Good == {k \in 1..n : f[k] = SubSeq(whole, 1, e[k])}
<1>4. 1 \in Good
  <2>1. 1 \in 1..n /\ 1 - 1 = 0 /\ 0 + 1 = 1
    BY <1>1
  <2>2. parts[1] = SubSeq(whole, e[1 - 1] + 1, e[1])
    BY <2>1
  <2>3. parts[1] = SubSeq(whole, 1, e[1])
    BY <2>1, <2>2
  <2> QED BY <2>1, <2>3, <1>3
<1>5. ASSUME NEW k \in 1..(n - 1), k \in Good PROVE k + 1 \in Good
  <2>1. k + 1 \in 1..n /\ (k + 1) - 1 = k /\ k \in 0..n /\ k + 1 \in 0..n
    BY <1>1
  <2>2. /\ e[(k + 1) - 1] <= e[k + 1]
        /\ parts[k + 1] = SubSeq(whole, e[(k + 1) - 1] + 1, e[k + 1])
    BY <2>1
  <2>3. e[k] <= e[k + 1] /\ parts[k + 1] = SubSeq(whole, e[k] + 1, e[k + 1])
    BY <2>1, <2>2
  <2>4. 1 \in 1..(Len(whole) + 1) /\ e[k] \in (1 - 1)..Len(whole) /\ e[k + 1] \in e[k]..Len(whole)
    BY <2>1, <2>3, <1>1, <1>2
  <2>5. SubSeq(whole, 1, e[k]) \o SubSeq(whole, e[k] + 1, e[k + 1]) = SubSeq(whole, 1, e[k + 1])
    BY <2>4, ConcatAdjacentSubSeq
  <2> QED BY <2>1, <2>3, <2>5, <1>3, <1>5
<1>6. 1..n \subseteq Good
  <2> HIDE DEF Good, n
  <2> QED BY <1>1, <1>4, <1>5, HoldsUpTo
<1>7. n \in 1..n
  BY <1>1
<1>8. f[n] = SubSeq(whole, 1, Len(whole))
  BY <1>6, <1>7
<1>9. SubSeq(whole, 1, Len(whole)) = whole
  BY SubSeqFull
<1> QED BY <1>3, <1>8, <1>9

-----------------------------------------------------------------------------
(* The batches make up the collection.                                     *)

\* Products with the size of a batch keep the order.
LEMMA TimesKeepsOrder ==
  ASSUME NEW a \in Nat, NEW b \in Nat, NEW s \in Nat, a <= b
  PROVE  a * s <= b * s /\ a * s \in Nat /\ b * s \in Nat
<1>1. PICK d \in Nat : b = a + d
  <2>1. b - a \in Nat /\ b = a + (b - a)
    OBVIOUS
  <2> QED BY <2>1
<1>2. (a + d) * s = a * s + d * s
  BY Z3
<1>3. d * s \in Nat /\ a * s \in Nat
  BY Z3
<1> QED BY <1>1, <1>2, <1>3

\* Where each batch ends, counted in records: batch i - 1 holds those after the end of
\* the one before it.
AreEnds(e) ==
  /\ e \in [0..batchNumber -> 0..Len(documents)]
  /\ e[0] = 0 /\ e[batchNumber] = Len(documents)
  /\ \A i \in 1..batchNumber :
       /\ e[i - 1] <= e[i]
       /\ BatchRecords(i - 1) = [k \in 1..(e[i] - e[i - 1]) |-> e[i - 1] + k]

\* When all records are in batches there are such ends.
LEMMA BatchesHaveEnds ==
  ASSUME ReadInv, AllBatched
  PROVE  batchNumber \in Nat \ {0} /\ \E e : AreEnds(e)
<1> DEFINE n == Len(documents)
           s == call.batchSize
<1>1. n \in Nat /\ s \in Int /\ batchNumber \in Nat
  BY ReadIsTyped
<1>2. CASE s > 0
  <2>1. (batchNumber - 1) * s <= n /\ n < batchNumber * s
    BY <1>2 DEF AllBatched
  <2>2. batchNumber # 0
    <3>1. batchNumber = 0 => batchNumber * s = 0
      BY <1>1
    <3> HIDE DEF n, s
    <3> QED BY <3>1, <2>1, <1>1
  <2>3. PICK e : e = [b \in 0..batchNumber |-> IF b < batchNumber THEN b * s ELSE n]
    OBVIOUS
  <2>4. s \in Nat /\ batchNumber - 1 \in Nat
    BY <1>1, <1>2, <2>2
  <2>5. ASSUME NEW b \in 0..batchNumber PROVE e[b] \in 0..n
    <3>1. CASE b < batchNumber
      <4>1. b \in Nat /\ b <= batchNumber - 1
        BY <3>1, <1>1
      <4>2. b * s <= (batchNumber - 1) * s /\ b * s \in Nat /\ (batchNumber - 1) * s \in Nat
        BY <4>1, <2>4, TimesKeepsOrder
      <4>3. e[b] = b * s
        BY <3>1, <2>3
      <4> HIDE DEF n, s
      <4> QED BY <4>2, <4>3, <2>1, <1>1
    <3>2. CASE ~(b < batchNumber)
      BY <3>2, <2>3, <1>1
    <3> QED BY <3>1, <3>2
  <2>6. e \in [0..batchNumber -> 0..n]
    BY <2>3, <2>5
  <2>7. e[0] = 0 /\ e[batchNumber] = n
    <3>1. 0 \in 0..batchNumber /\ 0 < batchNumber /\ 0 * s = 0
      BY <1>1, <2>2
    <3>2. batchNumber \in 0..batchNumber /\ ~(batchNumber < batchNumber)
      BY <1>1
    <3> QED BY <3>1, <3>2, <2>3
  <2>8. ASSUME NEW i \in 1..batchNumber
        PROVE  /\ e[i - 1] <= e[i]
               /\ BatchRecords(i - 1) = [k \in 1..(e[i] - e[i - 1]) |-> e[i - 1] + k]
    <3> DEFINE first == (i - 1) * s
               full == s > 0 /\ first + s <= n
    <3>1. BatchRecords(i - 1) = [k \in 1..(IF full THEN s ELSE n - first) |-> first + k]
      BY DEF BatchRecords
    <3>2. i \in Nat /\ i - 1 \in Nat /\ i - 1 \in 0..batchNumber /\ i - 1 < batchNumber
      BY <1>1
    <3>3. e[i - 1] = first
      BY <2>3, <3>2
    <3>4. first \in Nat /\ i * s = first + s
      <4>1. first \in Nat
        BY <3>2, <2>4, TimesKeepsOrder
      <4>2. ((i - 1) + 1) * s = (i - 1) * s + s
        BY <3>2, <2>4, Z3
      <4>3. (i - 1) + 1 = i
        BY <3>2
      <4> QED BY <4>1, <4>2, <4>3
    <3> HIDE DEF first, n, s
    <3>5. CASE i < batchNumber
      <4>1. e[i] = i * s
        BY <3>5, <2>3, <3>2
      <4>2. e[i] \in 0..n
        BY <2>5, <3>2, <3>5, <1>1
      <4>3. full /\ e[i] - e[i - 1] = s /\ e[i - 1] <= e[i]
        BY <4>1, <4>2, <3>3, <3>4, <1>1, <1>2
      <4> QED BY <4>3, <3>1, <3>3
    <3>6. CASE i = batchNumber
      <4>1. e[i] = n
        BY <3>6, <2>7
      <4>2. first <= n /\ n < first + s
        BY <3>6, <2>1, <3>4 DEF first
      <4>3. ~full /\ e[i] - e[i - 1] = n - first /\ e[i - 1] <= e[i]
        BY <4>1, <4>2, <3>3, <3>4, <1>1, <2>4
      <4> QED BY <4>3, <3>1, <3>3
    <3> QED BY <3>2, <3>5, <3>6, <1>1
  <2>9. AreEnds(e)
    BY <2>6, <2>7, <2>8 DEF AreEnds
  <2> QED BY <2>2, <2>9, <1>1
<1>3. CASE ~(s > 0)
  <2>1. batchNumber = 1
    BY <1>3 DEF AllBatched
  <2>2. PICK e : e = [b \in 0..1 |-> IF b = 0 THEN 0 ELSE n]
    OBVIOUS
  <2>3. e \in [0..1 -> 0..n] /\ e[0] = 0 /\ e[1] = n
    BY <2>2, <1>1
  <2>4. BatchRecords(0) = [k \in 1..n |-> 0 + k]
    <3> DEFINE first == 0 * s
    <3>1. BatchRecords(0) = [k \in 1..(n - first) |-> first + k]
      BY <1>3 DEF BatchRecords
    <3>2. first = 0 /\ n - 0 = n
      BY <1>1
    <3> HIDE DEF first
    <3> QED BY <3>1, <3>2
  <2>5. ASSUME NEW i \in 1..batchNumber
        PROVE  /\ e[i - 1] <= e[i]
               /\ BatchRecords(i - 1) = [k \in 1..(e[i] - e[i - 1]) |-> e[i - 1] + k]
    <3>1. i = 1 /\ i - 1 = 0
      BY <2>1
    <3>2. e[i] - e[i - 1] = n /\ e[i - 1] <= e[i] /\ e[i - 1] = 0
      BY <3>1, <2>3, <1>1
    <3> QED BY <3>1, <3>2, <2>4
  <2>6. AreEnds(e)
    BY <2>1, <2>3, <2>5 DEF AreEnds
  <2> QED BY <2>1, <2>6
<1> QED BY <1>2, <1>3

\* What each batch has for its records, batch after batch, is what there is for the
\* whole collection.
LEMMA BatchesMakeWhole ==
  ASSUME ReadInv, AllBatched, NEW S, NEW whole \in Seq(S), Len(whole) = Len(documents),
         NEW parts, parts = [i \in 1..batchNumber |-> parts[i]],
         \A i \in 1..batchNumber :
           parts[i] = [k \in DOMAIN BatchRecords(i - 1) |-> whole[BatchRecords(i - 1)[k]]]
  PROVE  FlattenSeq(parts) = whole
<1>1. batchNumber \in Nat \ {0} /\ Len(documents) \in Nat
  BY BatchesHaveEnds, ReadIsTyped
<1>2. PICK e : AreEnds(e)
  BY BatchesHaveEnds
<1>3. /\ e \in [0..batchNumber -> 0..Len(documents)]
      /\ e[0] = 0 /\ e[batchNumber] = Len(documents)
      /\ \A i \in 1..batchNumber :
           /\ e[i - 1] <= e[i]
           /\ BatchRecords(i - 1) = [k \in 1..(e[i] - e[i - 1]) |-> e[i - 1] + k]
  BY <1>2 DEF AreEnds
<1>4. Len(parts) = batchNumber
  BY <1>1
<1>5. ASSUME NEW i \in 1..batchNumber
      PROVE  parts[i] = SubSeq(whole, e[i - 1] + 1, e[i])
  <2> DEFINE a == e[i - 1]
             b == e[i]
  <2>1. a \in Nat /\ b \in Nat /\ a <= b /\ b <= Len(whole)
    <3>1. i - 1 \in 0..batchNumber /\ i \in 0..batchNumber
      BY <1>1
    <3>2. e[i - 1] \in 0..Len(documents) /\ e[i] \in 0..Len(documents) /\ e[i - 1] <= e[i]
      BY <3>1, <1>3
    <3> QED BY <3>2, <1>1
  <2>2. BatchRecords(i - 1) = [k \in 1..(b - a) |-> a + k]
    BY <1>3
  <2>3. parts[i] = [k \in DOMAIN BatchRecords(i - 1) |-> whole[BatchRecords(i - 1)[k]]]
    OBVIOUS
  <2> HIDE DEF a, b
  <2>4. parts[i] = [k \in 1..(b - a) |-> whole[a + k]]
    BY <2>2, <2>3
  <2>5. SubSeq(whole, a + 1, b) = [k \in 1..(b - a) |-> whole[a + k]]
    <3>1. ASSUME NEW k \in (a + 1)..b PROVE whole[k] \in S
      <4>1. k \in 1..Len(whole)
        BY <2>1
      <4> QED BY <4>1, ElementOfSeq
    <3>2. /\ SubSeq(whole, a + 1, b) \in Seq(S)
          /\ Len(SubSeq(whole, a + 1, b)) = IF a + 1 <= b THEN b - (a + 1) + 1 ELSE 0
          /\ \A k \in 1..(b - (a + 1) + 1) : SubSeq(whole, a + 1, b)[k] = whole[(a + 1) + k - 1]
      BY <2>1, <3>1, SubSeqProperties
    <3>3. b - (a + 1) + 1 = b - a /\ \A k \in 1..(b - a) : (a + 1) + k - 1 = a + k
      BY <2>1
    <3>4. Len(SubSeq(whole, a + 1, b)) = b - a
      BY <2>1, <3>2
    <3>5. \A k \in 1..(b - a) : SubSeq(whole, a + 1, b)[k] = whole[a + k]
      BY <3>2, <3>3
    <3>6. PICK u : u = SubSeq(whole, a + 1, b)
      OBVIOUS
    <3>7. u = [k \in 1..(b - a) |-> u[k]]
      BY <3>2, <3>4, <3>6, LenProperties
    <3> QED BY <3>5, <3>6, <3>7
  <2> QED BY <2>4, <2>5 DEF a, b
<1> QED BY <1>1, <1>3, <1>4, <1>5, PartsMakeWhole

-----------------------------------------------------------------------------
(* The terms of a batch.                                                   *)

\* A sequence holds finitely many things.
LEMMA RangeIsFinite ==
  ASSUME NEW S, NEW s \in Seq(S)
  PROVE  IsFiniteSet(Range(s)) /\ Range(s) \subseteq S
<1>1. Len(s) \in Nat /\ s \in [1..Len(s) -> S] /\ DOMAIN s = 1..Len(s)
  BY LenProperties
<1>2. Range(s) \subseteq S
  BY <1>1 DEF Range
<1>3. s \in Surjection(1..Len(s), Range(s))
  BY <1>1 DEF Surjection, Range
<1>4. IsFiniteSet(1..Len(s))
  BY <1>1, FS_Interval
<1> QED BY <1>2, <1>3, <1>4, FS_Surjection

\* The dictionary of a batch has its words and no others.
LEMMA DictionaryHolds ==
  ASSUME NEW words \in Seq(Nat)
  PROVE  /\ Dictionary(words) \in Seq(Nat)
         /\ Range(Dictionary(words)) = Range(words)
<1> DEFINE First == {i \in DOMAIN words : \A j \in 1..(i - 1) : words[j] # words[i]}
           places == Ascending(First)
           n == Cardinality(First)
<1>1. Len(words) \in Nat /\ DOMAIN words = 1..Len(words) /\ words \in [1..Len(words) -> Nat]
  BY LenProperties
<1>2. First \subseteq 1..Len(words)
  BY <1>1
<1>3. First \subseteq Int /\ IsFiniteSet(First)
  <2>1. IsFiniteSet(1..Len(words)) /\ 1..Len(words) \subseteq Int
    BY <1>1, FS_Interval
  <2> HIDE DEF First
  <2> QED BY <1>2, <2>1, FS_Subset
<1>4. n \in Nat /\ places \in [1..n -> First] /\ Range(places) = First
  <2> HIDE DEF First
  <2> QED BY <1>3, AscendingSorts
<1>5. Dictionary(words) = [k \in 1..n |-> words[places[k]]]
  <2>1. Dictionary(words) = [k \in DOMAIN places |-> words[places[k]]]
    BY DEF Dictionary
  <2> HIDE DEF places, n
  <2> QED BY <2>1, <1>4
<1>6. ASSUME NEW i \in DOMAIN words PROVE \E k \in First : words[k] = words[i]
  <2> DEFINE Same == {k \in 1..Len(words) : words[k] = words[i]}
  <2>1. Same \subseteq Nat /\ i \in Same
    BY <1>1
  <2>2. PICK k \in Same : \A l \in Same : k <= l
    <3> HIDE DEF Same
    <3>1. Same # {}
      BY <2>1
    <3> QED BY <2>1, <3>1, LeastNumber
  <2>3. ASSUME NEW j \in 1..(k - 1) PROVE words[j] # words[k]
    <3>1. j \in 1..Len(words) /\ ~(k <= j)
      BY <1>1, <2>2
    <3> QED BY <3>1, <2>2
  <2> QED BY <2>2, <2>3, <1>1
<1> HIDE DEF places, n
<1>7. \A k \in 1..n : places[k] \in First
  BY <1>4
<1>8. ASSUME NEW k \in First PROVE k \in DOMAIN words /\ words[k] \in Nat
  BY <1>1
<1>9. ASSUME NEW k \in First PROVE \E l \in 1..n : places[l] = k
  BY <1>4 DEF Range
<1> HIDE DEF First
<1>10. Dictionary(words) \in Seq(Nat)
  <2>1. \A k \in 1..n : words[places[k]] \in Nat
    BY <1>7, <1>8
  <2>2. [k \in 1..n |-> words[places[k]]] \in [1..n -> Nat]
    BY <2>1
  <2> QED BY <2>2, <1>4, <1>5, SeqDef
<1>11. Range(Dictionary(words)) \subseteq Range(words)
  BY <1>5, <1>7, <1>8 DEF Range
<1>12. ASSUME NEW i \in DOMAIN words PROVE words[i] \in Range(Dictionary(words))
  <2>1. PICK k \in First : words[k] = words[i]
    BY <1>6
  <2>2. PICK l \in 1..n : places[l] = k
    BY <1>9
  <2>3. l \in DOMAIN Dictionary(words) /\ Dictionary(words)[l] = words[i]
    BY <1>5, <2>1, <2>2
  <2> QED BY <2>3 DEF Range
<1> QED BY <1>10, <1>11, <1>12 DEF Range

\* The documents of the records of batch b.
BatchDocuments(b) == [i \in DOMAIN BatchRecords(b) |-> documents[BatchRecords(b)[i]]]

\* The records of a batch are documents.
LEMMA RecordsAreDocuments ==
  ASSUME ReadInv, AllBatched, NEW b \in 0..(batchNumber - 1)
  PROVE  /\ BatchRecords(b) \in Seq(1..Len(documents))
         /\ BatchDocuments(b) \in Seq(Seq(Nat))
<1>1. batchNumber \in Nat \ {0} /\ Len(documents) \in Nat
  BY BatchesHaveEnds, ReadIsTyped
<1>2. PICK e : AreEnds(e)
  BY BatchesHaveEnds
<1>3. /\ b + 1 \in 1..batchNumber /\ (b + 1) - 1 = b
      /\ b \in 0..batchNumber /\ b + 1 \in 0..batchNumber
  BY <1>1
<1>4. /\ e[(b + 1) - 1] <= e[b + 1]
      /\ BatchRecords((b + 1) - 1)
           = [k \in 1..(e[b + 1] - e[(b + 1) - 1]) |-> e[(b + 1) - 1] + k]
  BY <1>2, <1>3 DEF AreEnds
<1>5. e[b] \in 0..Len(documents) /\ e[b + 1] \in 0..Len(documents)
  BY <1>2, <1>3 DEF AreEnds
<1> DEFINE n == e[b + 1] - e[b]
<1>6. n \in Nat /\ BatchRecords(b) = [k \in 1..n |-> e[b] + k]
  BY <1>1, <1>3, <1>4, <1>5
<1>7. \A k \in 1..n : e[b] + k \in 1..Len(documents)
  BY <1>1, <1>5
<1> HIDE DEF n
<1>8. BatchRecords(b) \in [1..n -> 1..Len(documents)]
  BY <1>6, <1>7
<1>9. documents \in Seq(Seq(Nat))
  BY WorkloadAssumption DEF documents, ReadInv
<1>10. \A i \in 1..Len(documents) : documents[i] \in Seq(Nat)
  BY <1>9, ElementOfSeq
<1>11. BatchDocuments(b) \in [1..n -> Seq(Nat)]
  BY <1>8, <1>10 DEF BatchDocuments
<1> QED BY <1>6, <1>8, <1>11, SeqDef

\* What a batch writes: the terms of its documents, and its documents in the
\* identifiers of these terms.
LEMMA WrittenHolds ==
  ASSUME ReadInv, AllBatched, NEW b \in 0..(batchNumber - 1)
  PROVE  LET f == BatchWritten(b)
             docs == BatchDocuments(b)
         IN  /\ IsFiniteSet(Range(f.terms)) /\ Range(f.terms) \subseteq Nat
             /\ Range(f.terms) = UNION {Range(docs[i]) : i \in DOMAIN docs}
             /\ DOMAIN f.docs = DOMAIN docs
             /\ \A i \in DOMAIN docs :
                  /\ DOMAIN f.docs[i] = DOMAIN docs[i]
                  /\ \A j \in DOMAIN docs[i] :
                       /\ f.docs[i][j] + 1 \in DOMAIN f.terms
                       /\ f.terms[f.docs[i][j] + 1] = docs[i][j]
<1> DEFINE docs == BatchDocuments(b)
           terms == Dictionary(FlattenSeq(docs))
           id(w) == (CHOOSE i \in DOMAIN terms : terms[i] = w) - 1
<1>1. docs \in Seq(Seq(Nat))
  BY RecordsAreDocuments
<1>2. /\ BatchWritten(b).terms = terms
      /\ BatchWritten(b).docs = [i \in DOMAIN docs |-> [j \in DOMAIN docs[i] |-> id(docs[i][j])]]
  BY DEF BatchWritten, BatchFiles, BatchDocuments
<1> HIDE DEF docs
<1>3. /\ FlattenSeq(docs) \in Seq(Nat)
      /\ Range(FlattenSeq(docs)) = UNION {Range(docs[i]) : i \in DOMAIN docs}
  BY <1>1, RangeOfFlattened
<1>4. terms \in Seq(Nat) /\ Range(terms) = UNION {Range(docs[i]) : i \in DOMAIN docs}
  BY <1>3, DictionaryHolds
<1> HIDE DEF terms
<1>5. IsFiniteSet(Range(terms)) /\ Range(terms) \subseteq Nat /\ DOMAIN terms \subseteq Int
  <2>1. DOMAIN terms = 1..Len(terms) /\ Len(terms) \in Nat
    BY <1>4, LenProperties
  <2>2. DOMAIN terms \subseteq Int
    BY <2>1
  <2> QED BY <2>2, <1>4, RangeIsFinite
<1>6. ASSUME NEW i \in DOMAIN docs, NEW j \in DOMAIN docs[i]
      PROVE  id(docs[i][j]) + 1 \in DOMAIN terms /\ terms[id(docs[i][j]) + 1] = docs[i][j]
  <2>1. docs[i][j] \in Range(terms)
    BY <1>4 DEF Range
  <2>2. \E k \in DOMAIN terms : terms[k] = docs[i][j]
    BY <2>1 DEF Range
  <2>3. PICK k : k = CHOOSE l \in DOMAIN terms : terms[l] = docs[i][j]
    OBVIOUS
  <2>4. k \in DOMAIN terms /\ terms[k] = docs[i][j]
    BY <2>2, <2>3
  <2>5. id(docs[i][j]) = k - 1 /\ (k - 1) + 1 = k
    BY <2>3, <2>4, <1>5
  <2> HIDE DEF id
  <2> QED BY <2>4, <2>5
<1> HIDE DEF id
<1> QED BY <1>2, <1>4, <1>5, <1>6 DEF docs

\* All terms of the collection are terms of batches, and there are no others.
Terms == UNION {Range(documents[i]) : i \in DOMAIN documents}
TermsBefore(n) == UNION {Range(BatchWritten(b).terms) : b \in 0..(n - 1)}

\* When all is batched, the batches have the terms of the collection.
LEMMA BatchesHoldAllTerms ==
  ASSUME ReadInv, AllBatched
  PROVE  TermsBefore(batchNumber) = Terms
<1> DEFINE n == Len(documents)
<1>1. documents \in Seq(Seq(Nat)) /\ n \in Nat /\ DOMAIN documents = 1..n
  <2>1. documents \in Seq(Seq(Nat))
    BY WorkloadAssumption DEF documents, ReadInv
  <2> QED BY <2>1, LenProperties
<1>2. batchNumber \in Nat \ {0}
  BY BatchesHaveEnds
<1>3. \A b \in 0..(batchNumber - 1) :
        Range(BatchWritten(b).terms)
          = UNION {Range(BatchDocuments(b)[i]) : i \in DOMAIN BatchDocuments(b)}
  BY WrittenHolds
<1>4. PICK whole : whole = [i \in 1..n |-> i]
  OBVIOUS
<1> HIDE DEF n
<1>5. whole \in Seq(1..n) /\ Len(whole) = n /\ Range(whole) = 1..n
  <2>1. whole \in [1..n -> 1..n]
    BY <1>4
  <2>2. whole \in Seq(1..n)
    BY <2>1, <1>1, SeqDef
  <2>3. Len(whole) = n
    BY <1>1, <1>4
  <2> QED BY <1>4, <2>2, <2>3 DEF Range
<1>6. PICK parts : parts = [i \in 1..batchNumber |-> BatchRecords(i - 1)]
  OBVIOUS
<1>7. \A b \in 0..(batchNumber - 1) : BatchRecords(b) \in Seq(1..n)
  BY RecordsAreDocuments DEF n
<1>8. ASSUME NEW i \in 1..batchNumber
      PROVE  /\ parts[i] \in Seq(1..n)
             /\ parts[i] = [k \in DOMAIN BatchRecords(i - 1) |-> whole[BatchRecords(i - 1)[k]]]
  <2>1. i - 1 \in 0..(batchNumber - 1) /\ parts[i] = BatchRecords(i - 1)
    BY <1>2, <1>6
  <2>2. BatchRecords(i - 1) \in Seq(1..n)
    BY <2>1, <1>7
  <2>3. /\ BatchRecords(i - 1) = [k \in DOMAIN BatchRecords(i - 1) |-> BatchRecords(i - 1)[k]]
        /\ \A k \in DOMAIN BatchRecords(i - 1) : BatchRecords(i - 1)[k] \in 1..n
    BY <2>2, LenProperties
  <2>4. \A k \in DOMAIN BatchRecords(i - 1) :
          whole[BatchRecords(i - 1)[k]] = BatchRecords(i - 1)[k]
    BY <2>3, <1>4
  <2> QED BY <2>1, <2>2, <2>3, <2>4
<1>9. FlattenSeq(parts) = whole
  <2>1. parts = [i \in 1..batchNumber |-> parts[i]]
    BY <1>6
  <2>2. Len(whole) = Len(documents)
    BY <1>5 DEF n
  <2> QED BY <1>5, <1>8, <2>1, <2>2, BatchesMakeWhole
<1>10. Range(whole) = UNION {Range(parts[i]) : i \in DOMAIN parts}
  <2>1. parts \in [1..batchNumber -> Seq(1..n)]
    BY <1>6, <1>8
  <2>2. parts \in Seq(Seq(1..n))
    BY <2>1, <1>2, SeqDef
  <2> QED BY <2>2, <1>9, RangeOfFlattened
<1>11. ASSUME NEW d \in 1..n PROVE Range(documents[d]) \subseteq TermsBefore(batchNumber)
  <2>1. PICK i \in 1..batchNumber : d \in Range(parts[i])
    BY <1>5, <1>6, <1>10
  <2>2. i - 1 \in 0..(batchNumber - 1) /\ d \in Range(BatchRecords(i - 1))
    BY <2>1, <1>2, <1>6
  <2>3. PICK k \in DOMAIN BatchRecords(i - 1) : BatchRecords(i - 1)[k] = d
    BY <2>2 DEF Range
  <2>4. k \in DOMAIN BatchDocuments(i - 1) /\ BatchDocuments(i - 1)[k] = documents[d]
    BY <2>3 DEF BatchDocuments
  <2>5. Range(documents[d]) \subseteq Range(BatchWritten(i - 1).terms)
    BY <2>2, <2>4, <1>3
  <2> QED BY <2>2, <2>5 DEF TermsBefore
<1>12. ASSUME NEW b \in 0..(batchNumber - 1) PROVE Range(BatchWritten(b).terms) \subseteq Terms
  <2>1. ASSUME NEW i \in DOMAIN BatchDocuments(b)
        PROVE  Range(BatchDocuments(b)[i]) \subseteq Terms
    <3>1. i \in DOMAIN BatchRecords(b) /\ BatchDocuments(b)[i] = documents[BatchRecords(b)[i]]
      BY DEF BatchDocuments
    <3>2. BatchRecords(b)[i] \in DOMAIN documents
      BY <3>1, <1>1, <1>7, LenProperties
    <3> QED BY <3>1, <3>2 DEF Terms
  <2> QED BY <2>1, <1>3
<1> QED BY <1>1, <1>11, <1>12 DEF Terms, TermsBefore

-----------------------------------------------------------------------------
(* Runs of terms.                                                          *)

\* Sorted runs of terms; and the terms of those on a stack.
Runs == {s \in [terms : Seq(Nat), lvl : Nat] : s.terms = Ascending(Range(s.terms))}
Held(stack) == UNION {Range(stack[k].terms) : k \in DOMAIN stack}

\* A set of terms as a run.
LEMMA AscendingIsRun ==
  ASSUME NEW S, S \subseteq Nat, IsFiniteSet(S), NEW l \in Nat
  PROVE  /\ [terms |-> Ascending(S), lvl |-> l] \in Runs
         /\ Range(Ascending(S)) = S
<1>1. /\ Cardinality(S) \in Nat /\ Ascending(S) \in [1..Cardinality(S) -> S]
      /\ Range(Ascending(S)) = S
  <2>1. S \subseteq Int
    OBVIOUS
  <2> QED BY <2>1, AscendingSorts
<1>2. Ascending(S) \in [1..Cardinality(S) -> Nat]
  BY <1>1
<1>3. Ascending(S) \in Seq(Nat)
  BY <1>1, <1>2, SeqDef
<1> QED BY <1>1, <1>3 DEF Runs

\* Two runs are merged into one.
LEMMA MergedRun ==
  ASSUME NEW lhs \in Runs, NEW rhs \in Runs
  PROVE  /\ MergeSpans(lhs, rhs) \in Runs
         /\ Range(MergeSpans(lhs, rhs).terms) = Range(lhs.terms) \cup Range(rhs.terms)
<1>1. lhs.terms \in Seq(Nat) /\ rhs.terms \in Seq(Nat) /\ lhs.lvl + 1 \in Nat
  BY DEF Runs
<1>2. /\ IsFiniteSet(Range(lhs.terms)) /\ Range(lhs.terms) \subseteq Nat
      /\ IsFiniteSet(Range(rhs.terms)) /\ Range(rhs.terms) \subseteq Nat
  BY <1>1, RangeIsFinite
<1> DEFINE S == Range(lhs.terms) \cup Range(rhs.terms)
<1>3. S \subseteq Nat /\ IsFiniteSet(S)
  BY <1>2, FS_Union
<1>4. /\ MergeSpans(lhs, rhs) = [terms |-> Ascending(S), lvl |-> lhs.lvl + 1]
      /\ MergeSpans(lhs, rhs).terms = Ascending(S)
  BY DEF MergeSpans
<1> HIDE DEF S
<1>5. MergeSpans(lhs, rhs) \in Runs /\ Range(MergeSpans(lhs, rhs).terms) = S
  BY <1>1, <1>3, <1>4, AscendingIsRun
<1> QED BY <1>5 DEF S

\* What the runs on top of the stack become with s: merged with k of them, for every k.
IsMerging(f, stack, s) ==
  f = [k \in 0..Len(stack) |->
         IF k = 0 THEN s ELSE MergeSpans(stack[Len(stack) - k + 1], f[k - 1])]

\* There is such a function for every stack.
LEMMA MergingExists ==
  ASSUME NEW stack, NEW s, Len(stack) \in Nat
  PROVE  \E f : IsMerging(f, stack, s)
<1> DEFINE n == Len(stack)
           next(k, r) == MergeSpans(stack[n - k + 1], r)
           Upto(f, m) == f = [k \in 0..(m - 1) |-> IF k = 0 THEN s ELSE next(k, f[k - 1])]
           Good == {m \in Nat : \E f : Upto(f, m)}
<1> HIDE DEF next
<1>1. 1 \in Good
  <2>1. PICK f : f = [k \in 0..(1 - 1) |-> s]
    OBVIOUS
  <2>2. 0..(1 - 1) = {0}
    OBVIOUS
  <2>3. Upto(f, 1)
    BY <2>1, <2>2
  <2> QED BY <2>3
<1>2. ASSUME NEW m \in 1..((n + 1) - 1), m \in Good PROVE m + 1 \in Good
  <2>1. PICK f : Upto(f, m)
    BY <1>2
  <2>2. m \in Nat /\ m + 1 \in Nat /\ m # 0 /\ (m + 1) - 1 = m
    OBVIOUS
  <2>3. PICK g : g = [k \in 0..m |-> IF k < m THEN f[k] ELSE next(m, f[m - 1])]
    OBVIOUS
  <2>4. ASSUME NEW k \in 0..m
        PROVE  g[k] = IF k = 0 THEN s ELSE next(k, g[k - 1])
    <3>1. CASE k < m
      <4>1. k \in 0..(m - 1) /\ g[k] = f[k]
        BY <2>2, <2>3, <3>1
      <4>2. f[k] = IF k = 0 THEN s ELSE next(k, f[k - 1])
        BY <2>1, <4>1
      <4>3. k # 0 => k - 1 \in 0..m /\ k - 1 < m
        BY <2>2, <4>1
      <4>4. k # 0 => g[k - 1] = f[k - 1]
        BY <2>3, <4>3
      <4> QED BY <4>1, <4>2, <4>4
    <3>2. CASE k = m
      <4>1. k # 0 /\ k - 1 = m - 1 /\ m - 1 \in 0..m /\ m - 1 < m /\ ~(k < m)
        BY <2>2, <3>2
      <4>2. g[k] = next(k, f[m - 1]) /\ g[k - 1] = f[m - 1]
        BY <2>3, <3>2, <4>1
      <4> QED BY <4>1, <4>2
    <3>3. k < m \/ k = m
      BY <2>2
    <3> QED BY <3>1, <3>2, <3>3
  <2>5. Upto(g, m + 1)
    <3>1. g = [k \in 0..m |-> g[k]]
      BY <2>3
    <3> QED BY <2>2, <2>4, <3>1
  <2> QED BY <2>2, <2>5
<1>3. 1..(n + 1) \subseteq Good
  <2> HIDE DEF Good, n
  <2>1. n + 1 \in Nat
    BY DEF n
  <2> QED BY <1>1, <1>2, <2>1, HoldsUpTo
<1>4. n + 1 \in 1..(n + 1) /\ (n + 1) - 1 = n
  OBVIOUS
<1>5. PICK f : Upto(f, n + 1)
  BY <1>3, <1>4
<1>6. f = [k \in 0..n |-> IF k = 0 THEN s ELSE next(k, f[k - 1])]
  BY <1>4, <1>5
<1> QED BY <1>6 DEF IsMerging, next

\* The stack up to a height, and its terms.
LEMMA HeldUpTo ==
  ASSUME NEW stack \in Seq(Runs), NEW h \in 0..Len(stack)
  PROVE  /\ SubSeq(stack, 1, h) \in Seq(Runs) /\ Len(SubSeq(stack, 1, h)) = h
         /\ Held(SubSeq(stack, 1, h)) = UNION {Range(stack[k].terms) : k \in 1..h}
<1>1. Len(stack) \in Nat /\ \A k \in 1..h : stack[k] \in Runs
  BY LenProperties, ElementOfSeq
<1>2. /\ SubSeq(stack, 1, h) \in Seq(Runs)
      /\ Len(SubSeq(stack, 1, h)) = IF 1 <= h THEN h - 1 + 1 ELSE 0
      /\ \A k \in 1..(h - 1 + 1) : SubSeq(stack, 1, h)[k] = stack[1 + k - 1]
  <2>1. 1 \in Int /\ h \in Int
    BY <1>1
  <2> QED BY <1>1, <2>1, SubSeqProperties
<1>3. Len(SubSeq(stack, 1, h)) = h
  BY <1>1, <1>2
<1>4. DOMAIN SubSeq(stack, 1, h) = 1..h
  BY <1>2, <1>3, LenProperties
<1>5. \A k \in 1..h : SubSeq(stack, 1, h)[k] = stack[k]
  <2>1. h - 1 + 1 = h /\ \A k \in 1..h : 1 + k - 1 = k
    BY <1>1
  <2> QED BY <1>2, <2>1
<1>6. Held(SubSeq(stack, 1, h)) = UNION {Range(stack[k].terms) : k \in 1..h}
  BY <1>4, <1>5 DEF Held
<1> QED BY <1>2, <1>3, <1>6

\* A run on top adds its terms.
LEMMA HeldWithTop ==
  ASSUME NEW stack \in Seq(Runs), NEW s \in Runs
  PROVE  /\ Append(stack, s) \in Seq(Runs)
         /\ Held(Append(stack, s)) = Held(stack) \cup Range(s.terms)
<1> DEFINE n == Len(stack)
           top == Append(stack, s)
<1>1. n \in Nat /\ DOMAIN stack = 1..n
  BY LenProperties
<1>2. /\ top \in Seq(Runs) /\ Len(top) = n + 1
      /\ \A k \in 1..n : top[k] = stack[k]
      /\ top[n + 1] = s
  BY AppendProperties
<1>3. DOMAIN top = 1..(n + 1)
  BY <1>2, LenProperties
<1> HIDE DEF top, n
<1>4. 1..(n + 1) = (1..n) \cup {n + 1}
  BY <1>1
<1>5. Held(top) = Held(stack) \cup Range(s.terms)
  BY <1>1, <1>2, <1>3, <1>4 DEF Held
<1> QED BY <1>2, <1>5 DEF top

\* However many runs a new one is merged with, the stack has sorted runs with the terms
\* that it had and those of the new one.
LEMMA PushedRuns ==
  ASSUME spans \in Seq(Runs), NEW s \in Runs, PushSpan(s)
  PROVE  spans' \in Seq(Runs) /\ Held(spans') = Held(spans) \cup Range(s.terms)
<1> DEFINE h == Len(spans)
           f == CHOOSE f : IsMerging(f, spans, s)
           stops(k) == k = h \/ spans[h - k].lvl # s.lvl + k
           last == CHOOSE k \in 0..h : stops(k) /\ \A i \in 0..(k - 1) : ~stops(i)
           Above(k) == UNION {Range(spans[i].terms) : i \in (h - k + 1)..h}
<1>1. h \in Nat /\ DOMAIN spans = 1..h /\ \A k \in 1..h : spans[k] \in Runs
  BY LenProperties, ElementOfSeq
<1>2. IsMerging(f, spans, s)
  BY <1>1, MergingExists
<1>3. spans' = Append(SubSeq(spans, 1, h - last), f[last])
  BY DEF PushSpan, IsMerging
<1>4. last \in 0..h
  <2> DEFINE Stops == {k \in 0..h : stops(k)}
  <2>1. Stops \subseteq Nat /\ h \in Stops
    BY <1>1
  <2>2. PICK k \in Stops : \A i \in Stops : k <= i
    <3> HIDE DEF Stops
    <3>1. Stops # {}
      BY <2>1
    <3> QED BY <2>1, <3>1, LeastNumber
  <2>3. ASSUME NEW i \in 0..(k - 1) PROVE ~stops(i)
    <3>1. k \in 0..h
      BY <2>2
    <3>2. i \in 0..h /\ ~(k <= i)
      <4>1. h \in Nat
        BY <1>1
      <4> HIDE DEF h
      <4> QED BY <3>1, <4>1
    <3> QED BY <3>2, <2>2
  <2>4. \E l \in 0..h : stops(l) /\ \A i \in 0..(l - 1) : ~stops(i)
    BY <2>2, <2>3
  <2> HIDE DEF stops
  <2> QED BY <2>4
<1> HIDE DEF f, last
<1>5. /\ f[0] = s
      /\ \A k \in 1..h : f[k] = MergeSpans(spans[h - k + 1], f[k - 1])
  <2>1. f = [k \in 0..h |-> IF k = 0 THEN s ELSE MergeSpans(spans[h - k + 1], f[k - 1])]
    BY <1>2 DEF IsMerging
  <2>2. 0 \in 0..h /\ \A k \in 1..h : k \in 0..h /\ k # 0
    BY <1>1
  <2> HIDE DEF h
  <2> QED BY <2>1, <2>2
<1> DEFINE Good == {m \in 1..(h + 1) :
                      f[m - 1] \in Runs /\ Range(f[m - 1].terms) = Above(m - 1) \cup Range(s.terms)}
<1>6. 1 \in Good
  <2>1. 1 - 1 = 0 /\ (h - 0 + 1)..h = {} /\ 1 \in 1..(h + 1)
    BY <1>1
  <2>2. Above(0) = {}
    BY <2>1
  <2> HIDE DEF Above
  <2>3. Above(0) \cup Range(s.terms) = Range(s.terms)
    BY <2>2
  <2> QED BY <2>1, <2>3, <1>5
<1>7. ASSUME NEW m \in 1..((h + 1) - 1), m \in Good PROVE m + 1 \in Good
  <2>1. m \in 1..h /\ (m + 1) - 1 = m /\ h - m + 1 \in 1..h /\ m + 1 \in 1..(h + 1)
    BY <1>1
  <2>2. spans[h - m + 1] \in Runs /\ f[m] = MergeSpans(spans[h - m + 1], f[m - 1])
    BY <1>1, <1>5, <2>1
  <2>3. f[m - 1] \in Runs /\ Range(f[m - 1].terms) = Above(m - 1) \cup Range(s.terms)
    BY <1>7
  <2>4. /\ f[m] \in Runs
        /\ Range(f[m].terms) = Range(spans[h - m + 1].terms) \cup Range(f[m - 1].terms)
    BY ZenonT(60), SMTT(30), <2>2, <2>3, MergedRun
  <2>5. Above(m) = Range(spans[h - m + 1].terms) \cup Above(m - 1)
    <3>1. (h - m + 1)..h = {h - m + 1} \cup ((h - (m - 1) + 1)..h)
      BY <2>1, <1>1
    <3> QED BY <3>1
  <2> HIDE DEF Above
  <2>6. Range(f[m].terms) = Above(m) \cup Range(s.terms)
    BY <2>3, <2>4, <2>5
  <2> QED BY <2>1, <2>4, <2>6
<1>8. 1..(h + 1) \subseteq Good
  <2> HIDE DEF Good, h
  <2>1. h + 1 \in Nat
    BY <1>1
  <2> QED BY <1>6, <1>7, <2>1, HoldsUpTo
<1>9. f[last] \in Runs /\ Range(f[last].terms) = Above(last) \cup Range(s.terms)
  <2>1. last + 1 \in 1..(h + 1) /\ (last + 1) - 1 = last
    BY <1>1, <1>4
  <2>2. last + 1 \in Good
    BY <2>1, <1>8
  <2> HIDE DEF Above
  <2> QED BY <2>1, <2>2
<1>10. h - last \in 0..h
  BY <1>1, <1>4
<1> DEFINE below == SubSeq(spans, 1, h - last)
<1>11. below \in Seq(Runs) /\ Held(below) = UNION {Range(spans[k].terms) : k \in 1..(h - last)}
  BY <1>10, HeldUpTo
<1>12. Held(spans) = Held(below) \cup Above(last)
  <2>1. 1..h = (1..(h - last)) \cup ((h - last + 1)..h)
    BY <1>1, <1>4
  <2> HIDE DEF below
  <2> QED BY <1>1, <1>11, <2>1 DEF Held
<1> HIDE DEF below, Above
<1>13. spans' \in Seq(Runs) /\ Held(spans') = Held(below) \cup Range(f[last].terms)
  <2>1. spans' = Append(below, f[last])
    BY <1>3 DEF below
  <2> QED BY <2>1, <1>9, <1>11, HeldWithTop
<1> QED BY <1>9, <1>12, <1>13

-----------------------------------------------------------------------------
(* The terms of the index.                                                 *)

\* While terms are collected the stack has those of the batches so far, in sorted runs;
\* from then on the index has those of the collection.
TermsInv ==
  /\ pc = "collect" /\ ~torn =>
       /\ spans \in Seq(Runs)
       /\ nextBatch \in 0..batchNumber
       /\ Held(spans) = TermsBefore(nextBatch)
  /\ pc \in {"remap", "remove", "done"} /\ ~torn => output.terms = Ascending(Terms)

\* The terms of the batches and of the collection depend on the input alone.
LEMMA TermsStay ==
  ASSUME call' = call
  PROVE  Terms' = Terms /\ \A n : TermsBefore(n)' = TermsBefore(n)
<1>1. documents' = documents /\ \A b : BatchWritten(b)' = BatchWritten(b)
  BY InputStays
<1> QED BY <1>1 DEF Terms, TermsBefore

\* The terms of the next batch are pushed.
LEMMA CollectKeepsTerms ==
  ASSUME BuildInv, TermsInv, CollectTerms, ~torn
  PROVE  TermsInv'
<1>1. /\ pc = "collect" /\ pc' = pc /\ torn' = torn /\ call' = call
      /\ nextBatch < batchNumber /\ nextBatch' = nextBatch + 1 /\ batchNumber' = batchNumber
      /\ PushSpan([terms |-> Ascending(Range(FilesOf(nextBatch).terms)), lvl |-> 0])
  BY DEF CollectTerms, reader
<1>2. /\ ReadInv /\ AllBatched /\ TasksInv /\ FilesInv /\ batchNumber \in Nat
      /\ nextBatch \in 0..batchNumber /\ nextBatch \in 0..(batchNumber - 1)
  <2>1. ReadInv /\ BatchedInv /\ NextInv /\ TasksInv /\ FilesInv
    BY DEF BuildInv
  <2>2. batchNumber \in Nat /\ nextBatch \in 0..batchNumber
    BY <2>1, ReadIsTyped DEF NextInv
  <2>3. AllBatched
    BY <2>1, <1>1 DEF BatchedInv, Reading
  <2> QED BY <2>1, <2>2, <2>3, <1>1
<1>3. FilesOf(nextBatch) = BatchWritten(nextBatch)
  <2>1. nextBatch \in DOMAIN files /\ FilesOf(nextBatch) = files[nextBatch]
    BY <1>1, <1>2, MergeFindsFiles DEF Merging
  <2>2. ~Rewritten(nextBatch)
    BY <1>1 DEF Rewritten
  <2> QED BY <2>1, <2>2, <1>2 DEF FilesInv
<1> DEFINE S == Range(BatchWritten(nextBatch).terms)
           s == [terms |-> Ascending(S), lvl |-> 0]
<1>4. IsFiniteSet(S) /\ S \subseteq Nat
  BY <1>2, WrittenHolds
<1>5. PushSpan(s)
  BY <1>1, <1>3
<1>6. s.terms = Ascending(S)
  OBVIOUS
<1> HIDE DEF S
<1>7. s \in Runs /\ Range(s.terms) = S
  BY <1>4, <1>6, AscendingIsRun
<1> HIDE DEF s
<1>8. spans \in Seq(Runs) /\ Held(spans) = TermsBefore(nextBatch)
  BY <1>1 DEF TermsInv
<1>9. spans' \in Seq(Runs) /\ Held(spans)' = TermsBefore(nextBatch) \cup S
  BY <1>5, <1>7, <1>8, PushedRuns
<1>10. TermsBefore(nextBatch + 1) = TermsBefore(nextBatch) \cup S
  <2>1. 0..((nextBatch + 1) - 1) = (0..(nextBatch - 1)) \cup {nextBatch}
    BY <1>2
  <2> QED BY <2>1 DEF TermsBefore, S
<1>11. TermsBefore(nextBatch)' = TermsBefore(nextBatch + 1)
  <2>1. \A n : TermsBefore(n)' = TermsBefore(n)
    BY <1>1, TermsStay
  <2> QED BY <2>1, <1>1
<1>12. nextBatch' \in 0..batchNumber'
  BY <1>1, <1>2
<1> QED BY <1>1, <1>9, <1>10, <1>11, <1>12 DEF TermsInv

\* The two runs on top are merged.
LEMMA MergeRestKeepsTerms ==
  ASSUME TermsInv, MergeRest, ~torn
  PROVE  TermsInv'
<1>1. /\ pc = "collect" /\ pc' = pc /\ torn' = torn /\ call' = call
      /\ nextBatch' = nextBatch /\ batchNumber' = batchNumber /\ Len(spans) > 1
  BY DEF MergeRest, reader
<1> DEFINE two == Len(spans) - 1
           below == SubSeq(spans, 1, two - 1)
           merged == MergeSpans(spans[two], spans[two + 1])
<1>2. spans' = Append(below, merged)
  BY DEF MergeRest
<1>3. spans \in Seq(Runs) /\ Held(spans) = TermsBefore(nextBatch) /\ nextBatch \in 0..batchNumber
  BY <1>1 DEF TermsInv
<1>4. /\ Len(spans) \in Nat /\ DOMAIN spans = 1..Len(spans)
      /\ \A k \in 1..Len(spans) : spans[k] \in Runs
  BY <1>3, LenProperties, ElementOfSeq
<1>5. /\ two \in 1..Len(spans) /\ two + 1 \in 1..Len(spans) /\ two - 1 \in 0..Len(spans)
      /\ 1..Len(spans) = (1..(two - 1)) \cup {two, two + 1}
  BY <1>1, <1>4
<1> HIDE DEF two
<1>6. below \in Seq(Runs) /\ Held(below) = UNION {Range(spans[k].terms) : k \in 1..(two - 1)}
  BY <1>3, <1>5, HeldUpTo
<1>7. /\ merged \in Runs
      /\ Range(merged.terms) = Range(spans[two].terms) \cup Range(spans[two + 1].terms)
  BY <1>4, <1>5, MergedRun
<1>8. Held(spans) = Held(below) \cup Range(merged.terms)
  <2> HIDE DEF below, merged
  <2> QED BY <1>4, <1>5, <1>6, <1>7 DEF Held
<1> HIDE DEF below, merged
<1>9. spans' \in Seq(Runs) /\ Held(spans)' = Held(spans)
  BY <1>2, <1>6, <1>7, <1>8, HeldWithTop
<1>10. TermsBefore(nextBatch)' = TermsBefore(nextBatch)
  <2>1. \A n : TermsBefore(n)' = TermsBefore(n)
    BY <1>1, TermsStay
  <2> QED BY <2>1, <1>1
<1> QED BY <1>1, <1>3, <1>9, <1>10 DEF TermsInv

\* The one run that is left is that of all terms.
LEMMA WriteTermsKeepsTerms ==
  ASSUME BuildInv, TermsInv, WriteTerms, ~torn
  PROVE  TermsInv'
<1>1. /\ pc = "collect" /\ pc' = "remap" /\ call' = call
      /\ nextBatch = batchNumber /\ Len(spans) = 1 /\ output'.terms = spans[1].terms
  BY DEF WriteTerms
<1>2. spans \in Seq(Runs) /\ Held(spans) = TermsBefore(batchNumber)
  BY <1>1 DEF TermsInv
<1>3. spans[1] \in Runs /\ DOMAIN spans = {1}
  <2>1. DOMAIN spans = 1..1 /\ 1 \in 1..Len(spans)
    BY <1>1, <1>2, LenProperties
  <2> QED BY <2>1, <1>2, ElementOfSeq
<1>4. Held(spans) = Range(spans[1].terms)
  BY <1>3 DEF Held
<1>5. spans[1].terms = Ascending(Range(spans[1].terms))
  BY <1>3 DEF Runs
<1>6. ReadInv /\ AllBatched
  BY <1>1 DEF BuildInv, BatchedInv, Reading
<1>7. TermsBefore(batchNumber) = Terms
  BY <1>6, BatchesHoldAllTerms
<1>8. output'.terms = Ascending(Terms)
  BY <1>1, <1>2, <1>4, <1>5, <1>7
<1>9. Terms' = Terms
  BY <1>1, TermsStay
<1>10. Ascending(Terms)' = Ascending(Terms)
  BY <1>9 DEF Ascending
<1> QED BY <1>1, <1>8, <1>10 DEF TermsInv

\* Every step keeps the terms.
LEMMA TermsNext == BuildInv /\ TermsInv /\ [Next]_vars => TermsInv'
<1> SUFFICES ASSUME BuildInv, TermsInv, [Next]_vars PROVE TermsInv'
  OBVIOUS
<1>1. call' = call /\ (~torn' => ~torn)
  BY StepKeepsInput
<1>2. CASE torn
  BY <1>1, <1>2 DEF TermsInv
<1>3. CASE ~torn
  <2>1. ASSUME pc' \notin {"collect", "remap", "remove", "done"} PROVE TermsInv'
    BY <2>1 DEF TermsInv
  <2>2. Terms' = Terms /\ \A n : TermsBefore(n)' = TermsBefore(n)
    BY <1>1, TermsStay
  <2>3. Ascending(Terms)' = Ascending(Terms)
    BY <2>2 DEF Ascending
  <2>4. CASE \/ ReadRecord \/ EndOfInput \/ Submit \/ Wait \/ Kill \/ ResumeMerge
    BY <2>1, <2>4 DEF ReadRecord, EndOfInput, Submit, Wait, Kill, ResumeMerge
  <2>5. CASE MergeTitles
    <3>1. pc' = "collect" /\ nextBatch' = 0 /\ spans' = <<>> /\ batchNumber' = batchNumber
      BY <2>5 DEF MergeTitles, reader
    <3>2. batchNumber \in Nat
      BY ReadIsTyped DEF BuildInv
    <3>3. spans' \in Seq(Runs) /\ Held(spans)' = {}
      <4>1. DOMAIN <<>> = {}
        OBVIOUS
      <4> QED BY <3>1, <4>1, EmptySeq DEF Held
    <3>4. TermsBefore(0) = {}
      <4>1. 0..(0 - 1) = {}
        OBVIOUS
      <4> QED BY <4>1 DEF TermsBefore
    <3>5. TermsBefore(nextBatch)' = {}
      BY <3>1, <3>4, <2>2
    <3>6. nextBatch' \in 0..batchNumber'
      BY <3>1, <3>2
    <3>7. Held(spans)' = TermsBefore(nextBatch)'
      BY <3>3, <3>5
    <3> QED BY <3>1, <3>3, <3>6, <3>7 DEF TermsInv
  <2>6. CASE CollectTerms \/ MergeRest \/ WriteTerms
    BY <2>6, <1>3, CollectKeepsTerms, MergeRestKeepsTerms, WriteTermsKeepsTerms
  <2>7. CASE Remap \/ Concatenate \/ RemoveBatches
    <3>1. /\ pc \in {"remap", "remove"} /\ pc' \in {"remap", "remove", "done"}
          /\ output'.terms = output.terms
      <4>1. CASE Remap \/ RemoveBatches
        BY <4>1 DEF Remap, RemoveBatches
      <4>2. CASE Concatenate
        BY <4>2 DEF Concatenate
      <4> QED BY <2>7, <4>1, <4>2
    <3>2. output'.terms = Ascending(Terms)
      BY <3>1, <1>3 DEF TermsInv
    <3> QED BY <3>1, <3>2, <2>3 DEF TermsInv
  <2>8. ASSUME UNCHANGED <<pc, spans, nextBatch, batchNumber, output>> PROVE TermsInv'
    <3>1. TermsBefore(nextBatch)' = TermsBefore(nextBatch) /\ Held(spans)' = Held(spans)
      BY <2>2, <2>8
    <3> QED BY <1>3, <2>3, <2>8, <3>1 DEF TermsInv
  <2>9. ASSUME (\E b : RunBatch(b) \/ Pop(b) \/ Throw(b) \/ Discard(b)) \/ UNCHANGED vars
        PROVE  TermsInv'
    <3>1. UNCHANGED <<pc, spans, nextBatch, batchNumber, output>>
      BY <2>9 DEF RunBatch, Pop, Throw, Discard, reader, disk, vars
    <3> QED BY <3>1, <2>8
  <2> QED BY <2>4, <2>5, <2>6, <2>7, <2>9 DEF Next, Main, Work, Fail
<1> QED BY <1>2, <1>3

\* The identifier of a term among others.
IdOf(w, terms) == (CHOOSE i \in DOMAIN terms : terms[i] = w) - 1

\* The documents of a batch are rewritten to the identifiers of the index, and nothing
\* is read beyond the terms of the batch.
LEMMA MappedHolds ==
  ASSUME ReadInv, AllBatched, NEW b \in 0..(batchNumber - 1), NEW g
  PROVE  Mapped(b, g).docs =
           [i \in DOMAIN BatchRecords(b) |->
              [j \in DOMAIN documents[BatchRecords(b)[i]] |->
                 IdOf(documents[BatchRecords(b)[i]][j], output.terms)]]
<1> DEFINE f == BatchWritten(b)
           docs == BatchDocuments(b)
           new(id) == IF id + 1 \in DOMAIN f.terms THEN IdOf(f.terms[id + 1], output.terms) ELSE g
<1>1. /\ DOMAIN f.docs = DOMAIN docs
      /\ \A i \in DOMAIN docs :
           /\ DOMAIN f.docs[i] = DOMAIN docs[i]
           /\ \A j \in DOMAIN docs[i] :
                /\ f.docs[i][j] + 1 \in DOMAIN f.terms
                /\ f.terms[f.docs[i][j] + 1] = docs[i][j]
  BY WrittenHolds
<1>2. Mapped(b, g).docs = [i \in DOMAIN f.docs |-> [j \in DOMAIN f.docs[i] |-> new(f.docs[i][j])]]
  BY DEF Mapped, Remapped, IdOf
<1>3. /\ DOMAIN docs = DOMAIN BatchRecords(b)
      /\ \A i \in DOMAIN docs : docs[i] = documents[BatchRecords(b)[i]]
  BY DEF BatchDocuments
<1> HIDE DEF f, docs
<1>4. ASSUME NEW i \in DOMAIN docs, NEW j \in DOMAIN docs[i]
      PROVE  new(f.docs[i][j]) = IdOf(docs[i][j], output.terms)
  BY <1>1
<1> HIDE DEF new
<1>5. Mapped(b, g).docs =
        [i \in DOMAIN docs |-> [j \in DOMAIN docs[i] |-> IdOf(docs[i][j], output.terms)]]
  BY <1>1, <1>2, <1>4
<1> QED BY <1>3, <1>5

\* Once the merge is done the index is complete.
LEMMA DoneIsComplete ==
  ASSUME BuildInv, TermsInv, pc = "done", ~torn
  PROVE  IndexIsComplete /\ output.docs = [d \in DOMAIN documents |-> output.docs[d]]
<1>1. ReadInv /\ AllBatched /\ MergedTitles /\ MergedDocuments /\ output.count = Len(documents)
  BY DEF BuildInv, BatchedInv, OutputInv, Reading
<1>2. output.terms = Ascending(UNION {Range(documents[i]) : i \in DOMAIN documents})
  BY DEF TermsInv, Terms
<1> DEFINE n == Len(documents)
<1>3. n \in Nat /\ DOMAIN documents = 1..n /\ batchNumber \in Nat \ {0}
  <2>1. documents \in Seq(Seq(Nat))
    BY <1>1, WorkloadAssumption DEF documents, ReadInv
  <2> QED BY <2>1, <1>1, LenProperties, BatchesHaveEnds
<1>4. \A b \in 0..(batchNumber - 1) :
        /\ BatchRecords(b) \in Seq(1..n)
        /\ \A k \in DOMAIN BatchRecords(b) : BatchRecords(b)[k] \in 1..n
  <2>1. \A b \in 0..(batchNumber - 1) : BatchRecords(b) \in Seq(1..n)
    BY <1>1, RecordsAreDocuments
  <2> QED BY <2>1, LenProperties
<1>5. \A i \in 1..batchNumber : i - 1 \in 0..(batchNumber - 1)
  BY <1>3
<1> HIDE DEF n
<1>6. output.titles = [i \in DOMAIN documents |-> i]
  <2>1. PICK whole : whole = [i \in 1..n |-> i]
    OBVIOUS
  <2>2. PICK parts : parts = [i \in 1..batchNumber |-> BatchRecords(i - 1)]
    OBVIOUS
  <2>3. whole \in Seq(1..n) /\ Len(whole) = n
    <3>1. whole \in [1..n -> 1..n]
      BY <2>1
    <3>2. whole \in Seq(1..n)
      BY <3>1, <1>3, SeqDef
    <3>3. Len(whole) = n
      BY <2>1, <1>3
    <3> QED BY <3>2, <3>3
  <2>4. ASSUME NEW i \in 1..batchNumber
        PROVE  parts[i] = [k \in DOMAIN BatchRecords(i - 1) |-> whole[BatchRecords(i - 1)[k]]]
    <3>1. /\ BatchRecords(i - 1) \in Seq(1..n)
          /\ \A k \in DOMAIN BatchRecords(i - 1) : BatchRecords(i - 1)[k] \in 1..n
      BY <1>4, <1>5
    <3>2. BatchRecords(i - 1) = [k \in DOMAIN BatchRecords(i - 1) |-> BatchRecords(i - 1)[k]]
      BY <3>1, LenProperties
    <3>3. \A k \in DOMAIN BatchRecords(i - 1) :
            whole[BatchRecords(i - 1)[k]] = BatchRecords(i - 1)[k]
      BY <3>1, <2>1
    <3> QED BY <2>2, <3>2, <3>3
  <2>5. FlattenSeq(parts) = whole
    <3>1. parts = [i \in 1..batchNumber |-> parts[i]]
      BY <2>2
    <3>2. Len(whole) = Len(documents)
      BY <2>3 DEF n
    <3> QED BY <1>1, <2>3, <2>4, <3>1, <3>2, BatchesMakeWhole
  <2>6. output.titles = FlattenSeq(parts)
    BY <1>1, <2>2 DEF MergedTitles
  <2> QED BY <2>1, <2>5, <2>6, <1>3
<1>7. output.docs =
        [d \in 1..n |-> [j \in DOMAIN documents[d] |-> IdOf(documents[d][j], output.terms)]]
  <2> DEFINE Doc(d) == [j \in DOMAIN documents[d] |-> IdOf(documents[d][j], output.terms)]
  <2>1. PICK g \in [0..(batchNumber - 1) -> Garbage] :
          output.docs = FlattenSeq([i \in 1..batchNumber |-> Mapped(i - 1, g[i - 1]).docs])
    BY <1>1 DEF MergedDocuments
  <2>2. PICK parts : parts = [i \in 1..batchNumber |-> Mapped(i - 1, g[i - 1]).docs]
    OBVIOUS
  <2>3. PICK whole : whole = [d \in 1..n |-> Doc(d)]
    OBVIOUS
  <2>4. whole \in Seq(Range(whole)) /\ Len(whole) = n
    <3> HIDE DEF Doc
    <3>1. whole \in [1..n -> Range(whole)]
      BY <2>3 DEF Range
    <3>2. whole \in Seq(Range(whole))
      BY <3>1, <1>3, SeqDef
    <3>3. Len(whole) = n
      BY <2>3, <1>3
    <3> QED BY <3>2, <3>3
  <2>5. ASSUME NEW i \in 1..batchNumber
        PROVE  parts[i] = [k \in DOMAIN BatchRecords(i - 1) |-> whole[BatchRecords(i - 1)[k]]]
    <3>1. i - 1 \in 0..(batchNumber - 1)
      BY <1>5
    <3>2. Mapped(i - 1, g[i - 1]).docs
            = [k \in DOMAIN BatchRecords(i - 1) |-> Doc(BatchRecords(i - 1)[k])]
      BY <1>1, <3>1, MappedHolds
    <3> HIDE DEF Doc
    <3>3. \A k \in DOMAIN BatchRecords(i - 1) :
            whole[BatchRecords(i - 1)[k]] = Doc(BatchRecords(i - 1)[k])
      BY <1>4, <3>1, <2>3
    <3> QED BY <2>2, <3>2, <3>3
  <2>6. FlattenSeq(parts) = whole
    <3>1. parts = [i \in 1..batchNumber |-> parts[i]]
      BY <2>2
    <3>2. Len(whole) = Len(documents)
      BY <2>4 DEF n
    <3> QED BY <1>1, <2>4, <2>5, <3>1, <3>2, BatchesMakeWhole
  <2> QED BY <2>1, <2>2, <2>3, <2>6
<1>8. DOMAIN output.docs = DOMAIN documents
  BY <1>3, <1>7
<1>9. ASSUME NEW i \in DOMAIN documents
      PROVE  output.docs[i] =
               [j \in DOMAIN documents[i] |->
                  (CHOOSE t \in DOMAIN output.terms : output.terms[t] = documents[i][j]) - 1]
  BY <1>3, <1>7 DEF IdOf
<1>10. output.docs = [d \in DOMAIN documents |-> output.docs[d]]
  <2> DEFINE doc(d) == [j \in DOMAIN documents[d] |-> IdOf(documents[d][j], output.terms)]
  <2>1. output.docs = [d \in 1..n |-> doc(d)]
    BY <1>7
  <2> HIDE DEF doc
  <2> QED BY <2>1, <1>3
<1> QED BY <1>1, <1>2, <1>6, <1>8, <1>9, <1>10 DEF IndexIsComplete

\* For every input, size of a batch, number of threads and of kills, and whatever is
\* read beyond an array: however the batches interleave, a build that ends, also one
\* whose merge was killed before it rewrote a batch and was run again, has written
\* the collection: its documents in their order under their titles, each term under
\* its place among the sorted terms.
THEOREM BuildGivesTheCollection == Spec => []BuildIsCorrect
<1>1. Init => TermsInv
  BY DEF Init, TermsInv
<1>2. BuildInv /\ TermsInv => BuildIsCorrect
  BY DoneIsComplete DEF BuildIsCorrect
<1> QED BY <1>1, <1>2, BuildInvariantHolds, TermsNext, PTL DEF Spec

-----------------------------------------------------------------------------
(* The shards of a forward index.                                          *)

\* A member of a set stands in the sorted sequence after those below it.
LEMMA AscendingPlaces ==
  ASSUME NEW S, S \subseteq Int, IsFiniteSet(S), NEW x \in S
  PROVE  /\ Rank(S, x) + 1 \in 1..Cardinality(S)
         /\ Ascending(S)[Rank(S, x) + 1] = x
<1>1. /\ Cardinality(S) \in Nat
      /\ Rank(S, x) \in 0..(Cardinality(S) - 1)
      /\ \A u, v \in S : u < v => Rank(S, u) < Rank(S, v)
      /\ \A u \in S : Rank(S, u) \in 0..(Cardinality(S) - 1)
  BY RanksAreAll
<1> DEFINE k == Rank(S, x) + 1
<1>2. k \in 1..Cardinality(S) /\ k - 1 = Rank(S, x)
  BY <1>1
<1>3. \A u \in S : Rank(S, u) = k - 1 => u = x
  <2>1. ASSUME NEW u \in S, Rank(S, u) = k - 1, u # x PROVE FALSE
    <3>1. u < x \/ x < u
      BY <2>1
    <3> QED BY <3>1, <2>1, <1>1, <1>2
  <2> QED BY <2>1
<1>4. Ascending(S)[k] = CHOOSE u \in S : Rank(S, u) = k - 1
  BY <1>2 DEF Ascending, Rank
<1> HIDE DEF k
<1>5. Ascending(S)[k] = x
  BY <1>2, <1>3, <1>4
<1> QED BY <1>2, <1>5 DEF k

\* The prefix sum of the terms that occur, the first of which has been reset, counts
\* those below a term that occurs.
LEMMA RemappedIsRank ==
  ASSUME NEW S, S \subseteq Nat, IsFiniteSet(S), NEW x \in S
  PROVE  RemappedTermId(S, x) = Rank(S, x)
<1> DEFINE below == {t \in S : t < x}
           upTo == {t \in S : t <= x}
           later == {t \in S : t <= x /\ \E u \in S : u < t}
<1>1. /\ IsFiniteSet(below) /\ IsFiniteSet(later)
      /\ Cardinality(below) \in Nat /\ Cardinality(later) \in Nat
  <2>1. below \in SUBSET S /\ later \in SUBSET S
    OBVIOUS
  <2> HIDE DEF below, later
  <2> QED BY <2>1, FS_Subset, FS_CardinalityType
<1>2. PICK m \in S : \A t \in S : m <= t
  BY LeastNumber
<1>3. upTo = below \cup {x} /\ x \notin below
  <2>1. \A t \in S : t \in Nat
    OBVIOUS
  <2>2. \A t \in S : t <= x <=> (t < x \/ t = x)
    BY <2>1
  <2>3. x \notin below
    BY <2>1
  <2> QED BY <2>2, <2>3
<1>4. upTo = later \cup {m} /\ m \notin later
  <2>1. \A t \in S : t \in Nat
    OBVIOUS
  <2>2. \A t \in S : (\E u \in S : u < t) <=> t # m
    BY <1>2, <2>1
  <2>3. m <= x
    BY <1>2
  <2> QED BY <2>1, <2>2, <2>3
<1> HIDE DEF below, later, upTo
<1>5. Cardinality(upTo) = Cardinality(below) + 1
  BY <1>1, <1>3, FS_AddElement
<1>6. Cardinality(upTo) = Cardinality(later) + 1
  BY <1>1, <1>4, FS_AddElement
<1>7. Cardinality(later) = Cardinality(below)
  BY <1>1, <1>5, <1>6
<1> QED BY <1>7 DEF later, below, RemappedTermId, Rank

\* Sequences that have their members once, and none in common, have theirs once when
\* they are put one after the other.
LEMMA ConcatIsInjective ==
  ASSUME NEW S, NEW s \in Seq(S), NEW t \in Seq(S), IsInjective(s), IsInjective(t),
         Range(s) \cap Range(t) = {}
  PROVE  IsInjective(s \o t)
<1> DEFINE u == s \o t
           m == Len(s)
           n == Len(t)
<1>1. /\ m \in Nat /\ n \in Nat /\ DOMAIN s = 1..m /\ DOMAIN t = 1..n
      /\ DOMAIN u = 1..(m + n)
      /\ \A i \in 1..(m + n) : u[i] = IF i <= m THEN s[i] ELSE t[i - m]
  BY ConcatProperties, LenProperties
<1> HIDE DEF u, m, n
<1>2. ASSUME NEW i \in 1..(m + n), NEW j \in 1..(m + n), u[i] = u[j], i <= m, ~(j <= m)
      PROVE  FALSE
  <2>1. i \in DOMAIN s /\ j - m \in DOMAIN t
    BY <1>1, <1>2
  <2>2. s[i] = t[j - m]
    BY <1>1, <1>2
  <2>3. s[i] \in Range(s) /\ t[j - m] \in Range(t)
    BY <2>1 DEF Range
  <2> QED BY <2>2, <2>3
<1>3. ASSUME NEW i \in DOMAIN u, NEW j \in DOMAIN u, u[i] = u[j] PROVE i = j
  <2>1. i \in 1..(m + n) /\ j \in 1..(m + n)
    BY <1>1
  <2>2. CASE i <= m /\ j <= m
    <3>1. i \in DOMAIN s /\ j \in DOMAIN s /\ s[i] = s[j]
      BY <1>1, <1>3, <2>1, <2>2
    <3> QED BY <3>1 DEF IsInjective
  <2>3. CASE ~(i <= m) /\ ~(j <= m)
    <3>1. i - m \in DOMAIN t /\ j - m \in DOMAIN t /\ t[i - m] = t[j - m]
      BY <1>1, <1>3, <2>1, <2>3
    <3>2. i - m = j - m
      BY <3>1 DEF IsInjective
    <3> QED BY <3>2, <2>1, <1>1
  <2> QED BY <2>1, <2>2, <2>3, <1>2, <1>3
<1> QED BY <1>3 DEF IsInjective, u

\* Sequences without repetitions and nothing in common have none together.
LEMMA FlattenIsInjective ==
  ASSUME NEW S, NEW seqs \in Seq(Seq(S)), \A i \in DOMAIN seqs : IsInjective(seqs[i]),
         \A i, j \in DOMAIN seqs : i # j => Range(seqs[i]) \cap Range(seqs[j]) = {}
  PROVE  IsInjective(FlattenSeq(seqs))
<1> DEFINE n == Len(seqs)
           Members(k) == UNION {Range(seqs[i]) : i \in 1..k}
<1>1. n \in Nat /\ DOMAIN seqs = 1..n /\ \A i \in 1..n : seqs[i] \in Seq(S)
  BY LenProperties, ElementOfSeq
<1>2. /\ n = 0 => FlattenSeq(seqs) = seqs
      /\ n # 0 =>
           \E f : /\ FlattenSeq(seqs) = f[n] /\ f[1] = seqs[1]
                  /\ \A i \in 1..(n - 1) : f[i + 1] = f[i] \o seqs[i + 1]
  BY <1>1, FlattenUnfolds
<1>3. CASE n = 0
  <2>1. DOMAIN FlattenSeq(seqs) = {}
    BY <1>1, <1>2, <1>3
  <2> QED BY <2>1 DEF IsInjective
<1>4. CASE n # 0
  <2>1. PICK f : /\ FlattenSeq(seqs) = f[n] /\ f[1] = seqs[1]
                 /\ \A i \in 1..(n - 1) : f[i + 1] = f[i] \o seqs[i + 1]
    BY <1>2, <1>4
  <2> DEFINE Good == {k \in 1..n : /\ f[k] \in Seq(S) /\ IsInjective(f[k])
                                   /\ Range(f[k]) = Members(k)}
  <2>2. 1 \in Good
    <3>1. Members(1) = Range(seqs[1])
      OBVIOUS
    <3>2. 1 \in 1..n
      BY <1>1, <1>4
    <3> HIDE DEF Held
    <3> QED BY <3>1, <3>2, <2>1, <1>1
  <2>3. ASSUME NEW k \in 1..(n - 1), k \in Good PROVE k + 1 \in Good
    <3>1. /\ k + 1 \in 1..n /\ f[k + 1] = f[k] \o seqs[k + 1] /\ seqs[k + 1] \in Seq(S)
          /\ IsInjective(seqs[k + 1])
      <4>1. k + 1 \in 1..n
        BY <1>1
      <4> QED BY <4>1, <1>1, <2>1
    <3>2. /\ f[k + 1] \in Seq(S)
          /\ Range(f[k + 1]) = Members(k) \cup Range(seqs[k + 1])
      BY <2>3, <3>1, RangeOfConcat
    <3>3. Members(k + 1) = Members(k) \cup Range(seqs[k + 1])
      <4>1. 1..(k + 1) = 1..k \cup {k + 1}
        OBVIOUS
      <4> QED BY <4>1
    <3>4. Members(k) \cap Range(seqs[k + 1]) = {}
      <4>1. ASSUME NEW i \in 1..k PROVE Range(seqs[i]) \cap Range(seqs[k + 1]) = {}
        <5>1. i \in 1..n /\ i # k + 1
          BY <1>1
        <5> QED BY <5>1, <3>1, <1>1
      <4> QED BY <4>1
    <3>5. IsInjective(f[k + 1])
      BY <2>3, <3>1, <3>4, <1>1, ConcatIsInjective
    <3> HIDE DEF Held
    <3> QED BY <3>1, <3>2, <3>3, <3>5
  <2> HIDE DEF Good
  <2>4. 1..n \subseteq Good
    BY <1>1, <2>2, <2>3, HoldsUpTo
  <2>5. n \in Good
    BY <2>4, <1>1, <1>4
  <2> QED BY <2>5, <2>1 DEF Good
<1> QED BY <1>3, <1>4

\* A shard as process_shard leaves it.
Finished(collection, shard) ==
  LET has == HasTerm(shard.docs)
      kept == Ascending({t \in 0..(Len(collection.terms) - 1) : t \in has})
  IN  [titles |-> shard.titles,
       terms |-> [i \in DOMAIN kept |-> collection.terms[kept[i] + 1]],
       docs |-> [i \in DOMAIN shard.docs |->
                   [j \in DOMAIN shard.docs[i] |-> RemappedTermId(has, shard.docs[i][j])]],
       processed |-> TRUE]

\* Terms are sorted, and the identifiers in documents are those of terms.
Identified(collection) ==
  LET n == Len(collection.terms)
  IN  /\ n \in Nat /\ DOMAIN collection.terms = 1..n
      /\ \A i \in 1..n : collection.terms[i] \in Nat
      /\ \A i, j \in 1..n : i < j => collection.terms[i] < collection.terms[j]
      /\ \A d \in DOMAIN collection.docs : \A j \in DOMAIN collection.docs[d] :
           collection.docs[d][j] \in 0..(n - 1)

\* A shard holds its documents when it has been processed.
LEMMA FinishedHolds ==
  ASSUME NEW c, Identified(c), DOMAIN shardOf = DOMAIN c.docs, DOMAIN shardOf \subseteq Nat,
         IsFiniteSet(DOMAIN shardOf), NEW r
  PROVE  HoldsItsDocuments(c, Finished(c, Rearranged(c, shardOf, r)), r)
<1> DEFINE M == {d \in DOMAIN shardOf : shardOf[d] = r}
           mine == Ascending(M)
           raw == Rearranged(c, shardOf, r)
           has == HasTerm(raw.docs)
           kept == Ascending(has)
           f == Finished(c, raw)
           n == Len(c.terms)
<1>1. /\ mine \in [1..Cardinality(M) -> M] /\ DOMAIN mine = 1..Cardinality(M)
      /\ \A i \in DOMAIN mine : mine[i] \in DOMAIN c.docs
  <2>1. M \in SUBSET (DOMAIN shardOf) /\ M \subseteq Int
    OBVIOUS
  <2>2. IsFiniteSet(M)
    BY <2>1, FS_Subset
  <2> HIDE DEF M
  <2>3. mine \in [1..Cardinality(M) -> M]
    BY <2>1, <2>2, AscendingSorts
  <2> QED BY <2>1, <2>3
<1>2. /\ raw.titles = [i \in DOMAIN mine |-> c.titles[mine[i]]]
      /\ raw.docs = [i \in DOMAIN mine |-> c.docs[mine[i]]]
  BY DEF Rearranged
<1>3. has = UNION {Range(c.docs[mine[i]]) : i \in DOMAIN mine}
  <2> HIDE DEF mine, raw
  <2>1. DOMAIN raw.docs = DOMAIN mine /\ \A i \in DOMAIN mine : raw.docs[i] = c.docs[mine[i]]
    BY <1>2
  <2> QED BY <2>1 DEF HasTerm
<1>4. n \in Nat /\ \A t \in has : t \in 0..(n - 1)
  <2> HIDE DEF mine, raw, has
  <2>1. n \in Nat
    BY DEF Identified
  <2>2. ASSUME NEW t \in has PROVE t \in 0..(n - 1)
    <3>1. PICK i \in DOMAIN mine : t \in Range(c.docs[mine[i]])
      BY <2>2, <1>3
    <3>2. PICK j \in DOMAIN c.docs[mine[i]] : t = c.docs[mine[i]][j]
      BY <3>1 DEF Range
    <3> QED BY <1>1, <3>2 DEF Identified
  <2> QED BY <2>1, <2>2
<1>5. IsFiniteSet(has) /\ has \subseteq Nat /\ {t \in 0..(n - 1) : t \in has} = has
  <2> HIDE DEF has
  <2>1. has \in SUBSET (0..(n - 1))
    BY <1>4
  <2>2. IsFiniteSet(0..(n - 1))
    BY <1>4, FS_Interval
  <2>3. IsFiniteSet(has)
    BY <2>1, <2>2, FS_Subset
  <2> HIDE DEF n
  <2>4. \A t \in has : t \in Nat
    BY <1>4
  <2>5. {t \in 0..(n - 1) : t \in has} = has
    BY <1>4
  <2> QED BY <2>3, <2>4, <2>5
<1>6. /\ Cardinality(has) \in Nat
      /\ kept \in [1..Cardinality(has) -> has] /\ DOMAIN kept = 1..Cardinality(has)
      /\ Range(kept) = has
      /\ \A i, j \in 1..Cardinality(has) : i < j => kept[i] < kept[j]
  <2> HIDE DEF has
  <2>1. has \subseteq Int
    BY <1>5
  <2> QED BY <2>1, <1>5, AscendingSorts
<1>7. /\ f.titles = raw.titles
      /\ f.terms = [i \in DOMAIN kept |-> c.terms[kept[i] + 1]]
      /\ f.docs = [i \in DOMAIN raw.docs |->
                     [j \in DOMAIN raw.docs[i] |-> RemappedTermId(has, raw.docs[i][j])]]
  <2>1. f = [titles |-> raw.titles,
             terms |-> [i \in DOMAIN kept |-> c.terms[kept[i] + 1]],
             docs |-> [i \in DOMAIN raw.docs |->
                         [j \in DOMAIN raw.docs[i] |-> RemappedTermId(has, raw.docs[i][j])]],
             processed |-> TRUE]
    <3> HIDE DEF raw
    <3> QED BY <1>5 DEF Finished
  <2> HIDE DEF f
  <2> QED BY <2>1
<1> DEFINE words == f.terms
           k == Cardinality(has)
<1>8. /\ DOMAIN words = 1..k /\ Len(words) = k
      /\ \A i \in 1..k : kept[i] \in has /\ kept[i] \in 0..(n - 1)
                         /\ words[i] = c.terms[kept[i] + 1]
  <2> HIDE DEF f, kept, has, raw
  <2>1. \A i \in 1..k : kept[i] \in has
    BY <1>6
  <2>2. DOMAIN words = 1..k /\ \A i \in 1..k : words[i] = c.terms[kept[i] + 1]
    BY <1>6, <1>7
  <2>3. Len(words) = k
    BY <2>2, <1>6, <1>7
  <2> QED BY <2>1, <2>2, <2>3, <1>4
<1>9. Range(words) = {c.terms[t + 1] : t \in has}
  <2> HIDE DEF f, kept, has, raw, words, k
  <2>1. ASSUME NEW t \in has PROVE c.terms[t + 1] \in Range(words)
    <3>1. PICK i \in DOMAIN kept : kept[i] = t
      BY <1>6 DEF Range
    <3>2. i \in DOMAIN words /\ words[i] = c.terms[t + 1]
      BY <3>1, <1>6, <1>8 DEF k
    <3> QED BY <3>2 DEF Range
  <2>2. ASSUME NEW i \in DOMAIN words PROVE words[i] \in {c.terms[t + 1] : t \in has}
    BY <1>8
  <2> QED BY <2>1, <2>2 DEF Range
<1>10. \A i \in 1..(Len(words) - 1) : words[i] < words[i + 1]
  <2> HIDE DEF f, kept, has, raw, words
  <2> SUFFICES ASSUME NEW i \in 1..(k - 1) PROVE words[i] < words[i + 1]
    BY <1>8
  <2>1. i \in 1..k /\ i + 1 \in 1..k /\ i < i + 1
    BY <1>6
  <2>2. /\ kept[i] < kept[i + 1] /\ kept[i] \in 0..(n - 1) /\ kept[i + 1] \in 0..(n - 1)
        /\ words[i] = c.terms[kept[i] + 1] /\ words[i + 1] = c.terms[kept[i + 1] + 1]
    BY <2>1, <1>6, <1>8
  <2> HIDE DEF n
  <2>3. kept[i] + 1 \in 1..n /\ kept[i + 1] + 1 \in 1..n /\ kept[i] + 1 < kept[i + 1] + 1
    BY <2>2, <1>4
  <2> QED BY <2>2, <2>3 DEF Identified, n
<1>11. ASSUME NEW i \in DOMAIN mine
       PROVE  LET copy == f.docs[i]
                  original == c.docs[mine[i]]
              IN  /\ DOMAIN copy = DOMAIN original
                  /\ \A j \in DOMAIN copy :
                       copy[j] < Len(words) /\ words[copy[j] + 1] = c.terms[original[j] + 1]
  <2> DEFINE copy == f.docs[i]
             original == c.docs[mine[i]]
  <2> HIDE DEF f, kept, has, raw, words, k, mine
  <2>1. copy = [j \in DOMAIN original |-> RemappedTermId(has, original[j])]
    BY <1>2, <1>7
  <2>2. DOMAIN copy = DOMAIN original
    BY <2>1
  <2>3. ASSUME NEW j \in DOMAIN original
        PROVE  copy[j] < Len(words) /\ words[copy[j] + 1] = c.terms[original[j] + 1]
    <3>1. original[j] \in has
      BY <1>3 DEF Range
    <3>2. copy[j] = Rank(has, original[j])
      BY <3>1, <2>1, <1>5, RemappedIsRank
    <3>3. copy[j] + 1 \in 1..Cardinality(has) /\ kept[copy[j] + 1] = original[j]
      BY <3>1, <3>2, <1>5, AscendingPlaces DEF kept
    <3>4. copy[j] \in Nat
      BY <3>1, <3>2, <1>5, RanksAreAll
    <3> HIDE DEF copy, original
    <3>5. copy[j] + 1 \in 1..k
      BY <3>3 DEF k
    <3> QED BY <3>3, <3>4, <3>5, <1>6, <1>8 DEF k
  <2> QED BY <2>2, <2>3
<1>12. DOMAIN f.docs = DOMAIN mine
  <2> HIDE DEF f, raw, mine
  <2> QED BY <1>2, <1>7
<1> HIDE DEF f, kept, has, raw, k
<1>13. f.titles = [i \in DOMAIN mine |-> c.titles[mine[i]]]
  BY <1>2, <1>7
<1>14. {c.terms[t + 1] : t \in has}
         = {c.terms[t + 1] : t \in UNION {Range(c.docs[mine[i]]) : i \in DOMAIN mine}}
  BY <1>3
<1>15. HoldsItsDocuments(c, f, r)
  BY <1>9, <1>10, <1>11, <1>12, <1>13, <1>14 DEF HoldsItsDocuments
<1> QED BY <1>15 DEF f, raw

\* A mapping of documents to shards, and the number of shards.
LEMMA ShardsAreCounted ==
  ASSUME NEW D, IsFiniteSet(D), D # {}, NEW m \in [D -> Nat]
  PROVE  ShardCount(m) \in Nat /\ \A d \in D : m[d] < ShardCount(m)
<1> DEFINE R == Range(m)
           n == Cardinality(R)
<1>1. R \subseteq Nat /\ R \subseteq Int /\ R # {} /\ \A d \in D : m[d] \in R
  BY DEF Range
<1>2. IsFiniteSet(R)
  <2>1. m \in Surjection(D, R)
    BY DEF Surjection, Range
  <2> HIDE DEF R
  <2> QED BY <2>1, FS_Surjection
<1> HIDE DEF R
<1>3. /\ n \in Nat /\ Range(Ascending(R)) = R /\ Ascending(R) \in [1..n -> R]
      /\ \A i, j \in 1..n : i < j => Ascending(R)[i] < Ascending(R)[j]
  BY <1>1, <1>2, AscendingSorts
<1>4. n # 0
  BY <1>1, <1>2, FS_EmptySet
<1> HIDE DEF n
<1>5. n \in 1..n
  BY <1>3, <1>4
<1>6. Ascending(R)[n] \in R /\ \A r \in R : r <= Ascending(R)[n]
  <2>1. Ascending(R)[n] \in R
    BY <1>3, <1>5
  <2>2. ASSUME NEW r \in R PROVE r <= Ascending(R)[n]
    <3>1. PICK i \in 1..n : Ascending(R)[i] = r
      BY <1>3 DEF Range
    <3>2. i = n \/ i < n
      BY <1>3
    <3>3. Ascending(R)[i] = Ascending(R)[n] \/ Ascending(R)[i] < Ascending(R)[n]
      BY <3>2, <1>3, <1>5
    <3>4. r \in Nat /\ Ascending(R)[n] \in Nat
      BY <2>1, <1>1
    <3> QED BY <3>1, <3>3, <3>4
  <2> QED BY <2>1, <2>2
<1>7. PICK s : s = CHOOSE x \in R : \A r \in R : r <= x
  OBVIOUS
<1>8. s \in R /\ \A r \in R : r <= s
  BY <1>6, <1>7
<1>9. ShardCount(m) = 1 + s
  BY <1>7 DEF ShardCount, R
<1>10. s \in Nat /\ \A d \in D : m[d] \in Nat /\ m[d] <= s
  BY <1>1, <1>8
<1> QED BY <1>9, <1>10

\* A quotient of numbers is one, and not 0 of one that is not less.
LEMMA Quotients ==
  ASSUME NEW a \in Nat, NEW b \in Nat \ {0}
  PROVE  a \div b \in Nat /\ (a >= b => a \div b # 0)
  BY Z3

\* Chunks of the shuffled documents map each document to a shard.
LEMMA RandomMaps ==
  ASSUME NEW n \in Nat \ {0}, NEW shuffled \in Bijection(1..n, 1..n), NEW count \in 1..MaxShards
  PROVE  RandomMapping(shuffled, count) \in [1..n -> Nat]
<1>1. /\ shuffled \in [1..n -> 1..n] /\ Len(shuffled) = n
      /\ \A d \in 1..n : \E p \in 1..n : shuffled[p] = d
  <2>1. /\ shuffled \in [1..n -> 1..n]
        /\ \A d \in 1..n : \E p \in 1..n : shuffled[p] = d
    BY DEF Bijection, Injection, Surjection
  <2>2. Len(shuffled) = n
    <3>1. n \in Nat /\ DOMAIN shuffled = 1..n
      BY <2>1
    <3> DEFINE D == 1..n
    <3>2. shuffled \in [1..n -> D]
      BY <2>1
    <3> HIDE DEF D
    <3>3. shuffled \in Seq(D)
      BY <3>1, <3>2, SeqDef
    <3> QED BY <3>1, <3>3, LenProperties
  <2> QED BY <2>1, <2>2
<1>2. count \in Nat \ {0}
  BY MaxShardsAssumption
<1> DEFINE size == (n + count - 1) \div count
           place(d) == CHOOSE p \in 1..n : shuffled[p] = d
<1>3. size \in Nat \ {0}
  <2>1. n + count - 1 \in Nat /\ n + count - 1 >= count
    BY <1>2
  <2> QED BY <2>1, <1>2, Quotients
<1> HIDE DEF size
<1>4. ASSUME NEW d \in 1..n PROVE (place(d) - 1) \div size \in Nat
  <2>1. place(d) \in 1..n
    BY <1>1
  <2> HIDE DEF place
  <2>2. place(d) - 1 \in Nat
    BY <2>1
  <2> QED BY <2>2, <1>3, Quotients
<1>5. RandomMapping(shuffled, count) = [d \in 1..n |-> (place(d) - 1) \div size]
  BY <1>1 DEF RandomMapping, size
<1> HIDE DEF place
<1> QED BY <1>4, <1>5

\* Lists of titles map each document to a shard.
LEMMA FilesMap ==
  ASSUME NEW n \in Nat, NEW titles, DOMAIN titles = 1..n, NEW k \in Nat,
         NEW lists, DOMAIN lists = 1..k
  PROVE  MappingFromFiles(titles, lists) \in [1..n -> Nat]
<1> DEFINE listing(t) == {s \in 1..k : t \in lists[s]}
           first(S) == CHOOSE s \in S : \A r \in S : s <= r
<1>1. ASSUME NEW t, listing(t) # {} PROVE first(listing(t)) - 1 \in Nat
  <2>1. listing(t) \subseteq Nat /\ \A s \in listing(t) : s \in 1..k
    OBVIOUS
  <2> HIDE DEF listing
  <2>2. first(listing(t)) \in listing(t)
    BY <2>1, <1>1, LeastNumber
  <2> HIDE DEF first
  <2> QED BY <2>1, <2>2
<1>2. MappingFromFiles(titles, lists)
        = [d \in 1..n |-> IF listing(titles[d]) = {} THEN 0 ELSE first(listing(titles[d])) - 1]
  BY DEF MappingFromFiles
<1> HIDE DEF listing, first
<1>3. \A d \in 1..n :
        (IF listing(titles[d]) = {} THEN 0 ELSE first(listing(titles[d])) - 1) \in Nat
  BY <1>1
<1> QED BY <1>2, <1>3

\* Documents that are cut into shards and put one after the other are a permutation.
LEMMA ShardsPermute ==
  ASSUME NEW n \in Nat, NEW count \in Nat, NEW m \in [1..n -> Nat],
         \A d \in 1..n : m[d] < count
  PROVE  FlattenSeq([s \in 1..count |-> Ascending({d \in 1..n : m[d] = s - 1})])
           \in Bijection(1..n, 1..n)
<1> DEFINE M(s) == {d \in 1..n : m[d] = s - 1}
           parts == [s \in 1..count |-> Ascending(M(s))]
           q == FlattenSeq(parts)
<1>1. ASSUME NEW s \in 1..count
      PROVE  /\ parts[s] \in Seq(1..n) /\ Range(parts[s]) = M(s) /\ IsInjective(parts[s])
  <2>1. M(s) \in SUBSET (1..n) /\ M(s) \subseteq Int
    OBVIOUS
  <2>2. IsFiniteSet(1..n)
    BY FS_Interval
  <2> HIDE DEF M
  <2>3. IsFiniteSet(M(s))
    BY <2>1, <2>2, FS_Subset
  <2> DEFINE k == Cardinality(M(s))
             a == Ascending(M(s))
  <2>4. /\ k \in Nat /\ a \in [1..k -> M(s)] /\ Range(a) = M(s)
        /\ \A i, j \in 1..k : i < j => a[i] < a[j]
    BY <2>1, <2>3, AscendingSorts
  <2> HIDE DEF a, k
  <2>5. a \in [1..k -> 1..n]
    BY <2>1, <2>4
  <2>6. a \in Seq(1..n)
    BY <2>4, <2>5, SeqDef
  <2>7. ASSUME NEW i \in 1..k, NEW j \in 1..k, a[i] = a[j] PROVE i = j
    <3>1. a[i] \in Int /\ a[j] \in Int
      BY <2>5
    <3>2. ~(i < j) /\ ~(j < i)
      BY <2>4, <2>7, <3>1
    <3> QED BY <3>2, <2>4
  <2>8. IsInjective(a)
    BY <2>4, <2>7 DEF IsInjective
  <2>9. parts[s] = a
    BY DEF a
  <2> QED BY <2>4, <2>6, <2>8, <2>9
<1>2. \A i, j \in 1..count : i # j => M(i) \cap M(j) = {}
  OBVIOUS
<1>3. UNION {M(s) : s \in 1..count} = 1..n
  <2>1. ASSUME NEW d \in 1..n PROVE d \in UNION {M(s) : s \in 1..count}
    <3>1. m[d] + 1 \in 1..count /\ m[d] = (m[d] + 1) - 1
      OBVIOUS
    <3>2. d \in M(m[d] + 1)
      BY <3>1
    <3> HIDE DEF M
    <3> QED BY <3>1, <3>2
  <2> QED BY <2>1
<1> HIDE DEF M
<1>4. DOMAIN parts = 1..count /\ parts \in Seq(Seq(1..n))
  <2>1. parts \in [1..count -> Seq(1..n)]
    BY <1>1
  <2> HIDE DEF parts
  <2> QED BY <2>1, SeqDef
<1> HIDE DEF parts
<1>5. q \in Seq(1..n) /\ Range(q) = 1..n
  <2>1. Range(q) = UNION {Range(parts[s]) : s \in 1..count} /\ q \in Seq(1..n)
    BY <1>4, RangeOfFlattened
  <2>2. \A s \in 1..count : Range(parts[s]) = M(s)
    BY <1>1
  <2>3. UNION {Range(parts[s]) : s \in 1..count} = UNION {M(s) : s \in 1..count}
    BY <2>2
  <2> QED BY <2>1, <2>3, <1>3
<1>6. IsInjective(q)
  BY <1>1, <1>2, <1>4, FlattenIsInjective
<1> HIDE DEF q
<1>7. Len(q) \in Nat /\ DOMAIN q = 1..Len(q) /\ q \in [1..Len(q) -> 1..n]
  BY <1>5, LenProperties
<1>8. q \in Surjection(1..Len(q), 1..n) /\ q \in Injection(1..Len(q), 1..n)
  BY <1>5, <1>6, <1>7 DEF Surjection, Injection, Range
<1>9. Len(q) = n
  <2>1. ASSUME NEW k \in Nat PROVE IsFiniteSet(1..k) /\ Cardinality(1..k) = k
    <3>1. IsFiniteSet(1..k) /\ Cardinality(1..k) = IF 1 > k THEN 0 ELSE k - 1 + 1
      BY FS_Interval
    <3> QED BY <3>1
  <2>2. Cardinality(1..n) = Cardinality(1..Len(q))
    BY <2>1, <1>7, <1>8, FS_Surjection
  <2>3. Cardinality(1..n) = n /\ Cardinality(1..Len(q)) = Len(q)
    BY <2>1, <1>7
  <2> QED BY <2>2, <2>3
<1>10. q \in Bijection(1..n, 1..n)
  BY <1>8, <1>9 DEF Bijection
<1> QED BY <1>10 DEF q, parts, M

\* In the pipeline the documents are cut by a mapping, once the forward index is
\* complete, and each shard is as it was copied or as it was processed.
ShardsInv ==
  stage = "shard" =>
    /\ pc = "done" /\ ~torn
    /\ shardOf \in [DOMAIN documents -> Nat]
    /\ \E n \in Nat : DOMAIN shards = 1..n /\ \A d \in DOMAIN documents : shardOf[d] < n
    /\ \A s \in DOMAIN shards :
         LET copied == Rearranged(output, shardOf, s - 1)
         IN  shards[s] = IF shards[s].processed THEN Finished(output, copied) ELSE copied

\* The identifiers of a complete index are those of its sorted terms.
LEMMA CompleteIsIdentified ==
  ASSUME ReadInv, IndexIsComplete
  PROVE  /\ Len(documents) \in Nat /\ DOMAIN documents = 1..Len(documents)
         /\ DOMAIN output.docs = DOMAIN documents /\ DOMAIN output.titles = DOMAIN documents
         /\ \A d \in DOMAIN documents : output.titles[d] = d
         /\ Identified(output)
<1> DEFINE n == Len(documents)
           terms == output.terms
           W == UNION {Range(documents[i]) : i \in DOMAIN documents}
<1>1. documents \in Seq(Seq(Nat))
  BY WorkloadAssumption DEF documents, ReadInv
<1>2. n \in Nat /\ DOMAIN documents = 1..n /\ \A i \in 1..n : documents[i] \in Seq(Nat)
  BY <1>1, LenProperties, ElementOfSeq
<1>3. IsFiniteSet(W) /\ W \subseteq Nat /\ W \subseteq Int
  <2>1. \A i \in 1..n : IsFiniteSet(Range(documents[i])) /\ Range(documents[i]) \subseteq Nat
    BY <1>2, RangeIsFinite
  <2>2. W \subseteq Nat
    BY <2>1, <1>2
  <2>3. /\ FlattenSeq(documents) \in Seq(Nat) /\ Range(FlattenSeq(documents)) = W
    BY <1>1, RangeOfFlattened
  <2>4. IsFiniteSet(W)
    BY <2>3, RangeIsFinite
  <2> QED BY <2>2, <2>4
<1>4. terms = Ascending(W)
  BY DEF IndexIsComplete
<1> DEFINE k == Cardinality(W)
<1>5. /\ k \in Nat /\ terms \in [1..k -> W] /\ Range(terms) = W /\ DOMAIN terms = 1..k
      /\ \A i, j \in 1..k : i < j => terms[i] < terms[j]
  <2> HIDE DEF W, terms
  <2> QED BY <1>3, <1>4, AscendingSorts
<1> HIDE DEF W, k, terms
<1>6. Len(terms) = k /\ \A i \in 1..k : terms[i] \in Nat
  <2>1. terms \in Seq(Nat)
    <3>1. terms \in [1..k -> Nat]
      BY <1>3, <1>5
    <3> QED BY <3>1, <1>5, SeqDef
  <2> QED BY <2>1, <1>5, LenProperties
<1>7. ASSUME NEW d \in DOMAIN output.docs, NEW j \in DOMAIN output.docs[d]
      PROVE  output.docs[d][j] \in 0..(k - 1)
  <2>1. /\ d \in DOMAIN documents /\ j \in DOMAIN documents[d]
        /\ output.docs[d][j]
             = (CHOOSE t \in DOMAIN terms : terms[t] = documents[d][j]) - 1
    <3> DEFINE Id(w) == (CHOOSE t \in DOMAIN terms : terms[t] = w) - 1
    <3>1. d \in DOMAIN documents
      BY <1>7 DEF IndexIsComplete
    <3>2. output.docs[d] = [i \in DOMAIN documents[d] |-> Id(documents[d][i])]
      BY <3>1 DEF IndexIsComplete, terms
    <3> HIDE DEF Id
    <3>3. j \in DOMAIN documents[d] /\ output.docs[d][j] = Id(documents[d][j])
      BY <3>2
    <3> QED BY <3>1, <3>3 DEF Id
  <2>2. documents[d][j] \in W
    BY <2>1 DEF W, Range
  <2>3. \E t \in DOMAIN terms : terms[t] = documents[d][j]
    BY <2>2, <1>5 DEF Range
  <2>4. PICK u : u = CHOOSE t \in DOMAIN terms : terms[t] = documents[d][j]
    OBVIOUS
  <2>5. u \in 1..k
    BY <2>3, <2>4, <1>5
  <2> QED BY <2>1, <2>4, <2>5, <1>5
<1>8. Identified(output)
  BY <1>5, <1>6, <1>7 DEF Identified, terms
<1>9. /\ DOMAIN output.docs = DOMAIN documents /\ DOMAIN output.titles = DOMAIN documents
      /\ \A d \in DOMAIN documents : output.titles[d] = d
  BY DEF IndexIsComplete
<1> QED BY <1>2, <1>8, <1>9 DEF n

\* The documents are cut as a mapping says.
LEMMA PartitionCuts ==
  ASSUME BuildInv, TermsInv, PartitionStep
  PROVE  ShardsInv'
<1>1. ReadInv /\ IndexIsComplete
  BY DoneIsComplete DEF PartitionStep, Parsed, BuildInv
<1> DEFINE n == Len(documents)
<1>2. /\ n \in Nat /\ DOMAIN documents = 1..n
      /\ DOMAIN output.docs = 1..n /\ DOMAIN output.titles = 1..n
  BY <1>1, CompleteIsIdentified
<1>3. n # 0
  <2>1. documents # <<>> /\ documents \in Seq(Seq(Nat))
    BY <1>1, WorkloadAssumption DEF documents, ReadInv, PartitionStep, Parsed
  <2> QED BY <2>1, EmptySeq
<1> HIDE DEF n
<1>4. PICK m \in [1..n -> Nat] : Partition(output, m)
  <2>1. CASE PartitionRandomly(output)
    <3>1. PICK count \in 1..MaxShards, shuffled \in Bijection(1..n, 1..n) :
            Partition(output, RandomMapping(shuffled, count))
      BY <2>1, <1>2 DEF PartitionRandomly
    <3>2. n \in Nat \ {0}
      BY <1>2, <1>3
    <3>3. RandomMapping(shuffled, count) \in [1..n -> Nat]
      BY <3>2, RandomMaps
    <3> QED BY <3>1, <3>3
  <2>2. CASE PartitionByTitles(output)
    <3>1. PICK lists \in [1..MaxShards -> SUBSET Range(output.titles)] :
            Partition(output, MappingFromFiles(output.titles, lists))
      BY <2>2 DEF PartitionByTitles
    <3>2. MaxShards \in Nat /\ DOMAIN lists = 1..MaxShards
      BY MaxShardsAssumption
    <3>3. MappingFromFiles(output.titles, lists) \in [1..n -> Nat]
      BY <3>2, <1>2, FilesMap
    <3> QED BY <3>1, <3>3
  <2> QED BY <2>1, <2>2 DEF PartitionStep
<1>5. ShardCount(m) \in Nat /\ \A d \in 1..n : m[d] < ShardCount(m)
  <2>1. IsFiniteSet(1..n) /\ 1..n # {}
    <3>1. IsFiniteSet(1..n)
      BY <1>2, FS_Interval
    <3>2. 1 \in 1..n
      BY <1>2, <1>3
    <3> QED BY <3>1, <3>2
  <2> QED BY <2>1, ShardsAreCounted
<1>6. /\ pc' = "done" /\ torn' = FALSE /\ documents' = documents /\ output' = output
  BY DEF PartitionStep, Parsed, builderVars, vars, disk, documents
<1>7. /\ shardOf' = m
      /\ shards' = [s \in 1..ShardCount(m) |-> Rearranged(output, m, s - 1)]
  BY <1>4 DEF Partition
<1>8. ~torn
  BY DEF PartitionStep, Parsed
<1>9. \A s \in 1..ShardCount(m) : Rearranged(output, m, s - 1).processed = FALSE
  BY DEF Rearranged
<1>10. \A s \in DOMAIN shards' :
         /\ ~shards'[s].processed
         /\ shards'[s] = Rearranged(output', shardOf', s - 1)
  BY <1>6, <1>7, <1>9
<1>11. /\ shardOf' \in [DOMAIN documents' -> Nat]
       /\ DOMAIN shards' = 1..ShardCount(m)
       /\ \A d \in DOMAIN documents' : shardOf'[d] < ShardCount(m)
  BY <1>2, <1>5, <1>6, <1>7
<1> QED BY <1>5, <1>6, <1>10, <1>11 DEF ShardsInv

\* A shard is processed from what was copied to it.
LEMMA ProcessShardFinishes ==
  ASSUME NEW c, NEW s \in DOMAIN shards, ProcessShard(c, s), NEW m, NEW r,
         shards[s] = Rearranged(c, m, r)
  PROVE  /\ shards'[s] = Finished(c, shards[s]) /\ shards'[s].processed
         /\ DOMAIN shards' = DOMAIN shards
         /\ \A t \in DOMAIN shards : t # s => shards'[t] = shards[t]
<1> DEFINE has == HasTerm(shards[s].docs)
           kept == Ascending({t \in 0..(Len(c.terms) - 1) : t \in has})
           words == [i \in DOMAIN kept |-> c.terms[kept[i] + 1]]
           ids == [i \in DOMAIN shards[s].docs |->
                     [j \in DOMAIN shards[s].docs[i] |-> RemappedTermId(has, shards[s].docs[i][j])]]
<1>1. shards' = [shards EXCEPT ![s].terms = words, ![s].docs = ids, ![s].processed = TRUE]
  BY DEF ProcessShard
<1>2. shards[s] = [titles |-> shards[s].titles, docs |-> shards[s].docs,
                   terms |-> <<>>, processed |-> FALSE]
  BY DEF Rearranged
<1>3. Finished(c, shards[s]) = [titles |-> shards[s].titles, terms |-> words, docs |-> ids,
                                processed |-> TRUE]
  BY DEF Finished
<1> HIDE DEF words, ids, has, kept
<1>4. shards'[s] = [titles |-> shards[s].titles, docs |-> ids, terms |-> words,
                    processed |-> TRUE]
  BY <1>1, <1>2
<1>5. /\ DOMAIN shards' = DOMAIN shards
      /\ \A t \in DOMAIN shards : t # s => shards'[t] = shards[t]
  BY <1>1
<1>6. shards'[s] = Finished(c, shards[s])
  BY <1>3, <1>4
<1>7. shards'[s].processed
  BY <1>4
<1> QED BY <1>5, <1>6, <1>7

\* A shard that is processed was not before, and is processed rightly.
LEMMA ShardStepKeeps ==
  ASSUME ShardsInv, ShardStep
  PROVE  ShardsInv'
<1>1. PICK s \in DOMAIN shards : ProcessShard(output, s)
  BY DEF ShardStep
<1>2. /\ stage = "shard" /\ shardOf' = shardOf
      /\ pc' = pc /\ torn' = torn /\ documents' = documents /\ output' = output
  BY <1>1 DEF ShardStep, ProcessShard, builderVars, vars, disk, documents
<1> DEFINE copied(t) == Rearranged(output, shardOf, t - 1)
<1>3. \A t \in DOMAIN shards :
        shards[t] = IF shards[t].processed THEN Finished(output, copied(t)) ELSE copied(t)
  BY <1>2 DEF ShardsInv
<1>4. shards[s] = copied(s)
  BY <1>1, <1>3 DEF ProcessShard
<1>5. /\ shards'[s] = Finished(output, copied(s)) /\ shards'[s].processed
      /\ DOMAIN shards' = DOMAIN shards
      /\ \A t \in DOMAIN shards : t # s => shards'[t] = shards[t]
  BY <1>1, <1>4, ProcessShardFinishes
<1> HIDE DEF copied
<1>6. \A t \in DOMAIN shards' :
        shards'[t] = IF shards'[t].processed THEN Finished(output, copied(t)) ELSE copied(t)
  BY <1>3, <1>5
<1>7. /\ pc' = "done" /\ ~torn' /\ shardOf' \in [DOMAIN documents' -> Nat]
      /\ \E n \in Nat : DOMAIN shards' = 1..n /\ \A d \in DOMAIN documents' : shardOf'[d] < n
  BY <1>2, <1>5 DEF ShardsInv
<1> QED BY <1>2, <1>6, <1>7 DEF ShardsInv, copied

\* Only a partition leads to the shards.
LEMMA OthersLeaveShards ==
  ASSUME \/ ParseStep \/ InvertStep \/ ReduceStep \/ MergeStep \/ KeepOrder \/ ReorderStep
         \/ StoreForwardStep \/ BisectionStep \/ BisectStep \/ CompressStep
  PROVE  stage' # "shard"
  BY DEF ParseStep, InvertStep, ReduceStep, MergeStep, KeepOrder, ReorderStep,
    StoreForwardStep, BisectionStep, BisectStep, CompressStep

\* The other tools leave the builder alone.
LEMMA PipelineStepBuilds == [PipelineNext]_pipelineVars => [Next]_vars
<1> SUFFICES ASSUME [PipelineNext]_pipelineVars PROVE [Next]_vars
  OBVIOUS
<1>1. CASE ParseStep
  BY <1>1 DEF ParseStep
<1>2. CASE \/ PartitionStep \/ ShardStep \/ InvertStep \/ ReduceStep \/ MergeStep
           \/ KeepOrder \/ ReorderStep \/ StoreForwardStep \/ BisectionStep \/ BisectStep
           \/ CompressStep
  BY <1>2 DEF PartitionStep, ShardStep, InvertStep, ReduceStep, MergeStep, KeepOrder,
    ReorderStep, StoreForwardStep, BisectionStep, BisectStep, CompressStep, builderVars
<1>3. CASE UNCHANGED pipelineVars
  BY <1>3 DEF pipelineVars, builderVars
<1> QED BY <1>1, <1>2, <1>3 DEF PipelineNext

\* Every step of the pipeline keeps what is known of the shards.
LEMMA ShardsNext ==
  BuildInv /\ TermsInv /\ ShardsInv /\ [PipelineNext]_pipelineVars => ShardsInv'
<1> SUFFICES ASSUME BuildInv, TermsInv, ShardsInv, [PipelineNext]_pipelineVars PROVE ShardsInv'
  OBVIOUS
<1>1. CASE PartitionStep
  BY <1>1, PartitionCuts
<1>2. CASE ShardStep
  BY <1>2, ShardStepKeeps
<1>3. CASE \/ ParseStep \/ InvertStep \/ ReduceStep \/ MergeStep \/ KeepOrder \/ ReorderStep
           \/ StoreForwardStep \/ BisectionStep \/ BisectStep \/ CompressStep
  BY <1>3, OthersLeaveShards DEF ShardsInv
<1>4. CASE UNCHANGED pipelineVars
  <2>1. UNCHANGED <<stage, pc, torn, shardOf, shards, documents, output>>
    BY <1>4 DEF pipelineVars, builderVars, vars, disk, shardingVars, documents
  <2> QED BY <2>1 DEF ShardsInv
<1> QED BY <1>1, <1>2, <1>3, <1>4 DEF PipelineNext

\* When all shards are processed they hold the collection.
LEMMA ShardsAreRight ==
  ASSUME BuildInv, TermsInv, ShardsInv
  PROVE  ShardsHoldTheCollection
<1> SUFFICES ASSUME stage = "shard" PROVE ShardsHoldTheCollection
  BY DEF ShardsHoldTheCollection
<1>1. /\ shardOf \in [DOMAIN documents -> Nat]
      /\ \A s \in DOMAIN shards :
           LET copied == Rearranged(output, shardOf, s - 1)
           IN  shards[s] = IF shards[s].processed THEN Finished(output, copied) ELSE copied
  BY DEF ShardsInv
<1>2. PICK count \in Nat :
        DOMAIN shards = 1..count /\ \A d \in DOMAIN documents : shardOf[d] < count
  BY DEF ShardsInv
<1>3. ReadInv /\ IndexIsComplete
  BY DoneIsComplete DEF ShardsInv, BuildInv
<1> DEFINE n == Len(documents)
<1>4. /\ n \in Nat /\ DOMAIN documents = 1..n
      /\ DOMAIN output.docs = 1..n /\ DOMAIN output.titles = 1..n
      /\ \A d \in 1..n : output.titles[d] = d
      /\ Identified(output)
  BY <1>3, CompleteIsIdentified
<1> HIDE DEF n
<1>5. IsFiniteSet(1..n) /\ 1..n \subseteq Nat /\ 1..n \subseteq Int
  BY <1>4, FS_Interval
<1>6. ASSUME NEW s \in DOMAIN shards, shards[s].processed
      PROVE  HoldsItsDocuments(output, shards[s], s - 1)
  <2>1. shards[s] = Finished(output, Rearranged(output, shardOf, s - 1))
    BY <1>1, <1>6
  <2>2. DOMAIN shardOf = DOMAIN output.docs /\ DOMAIN shardOf = 1..n
    BY <1>1, <1>4
  <2> QED BY <2>1, <2>2, <1>4, <1>5, FinishedHolds
<1>7. ASSUME NEW s \in 1..count
      PROVE  shards[s].titles = Ascending({d \in 1..n : shardOf[d] = s - 1})
  <2> DEFINE M == {d \in 1..n : shardOf[d] = s - 1}
             members == Ascending(M)
  <2>1. M \in SUBSET (1..n)
    OBVIOUS
  <2>2. members \in [1..Cardinality(M) -> M]
    <3> HIDE DEF M
    <3>1. M \subseteq Int /\ IsFiniteSet(M)
      BY <2>1, <1>5, FS_Subset
    <3> QED BY <3>1, AscendingSorts
  <2>3. members = Ascending({d \in DOMAIN shardOf : shardOf[d] = s - 1})
    BY <1>1, <1>4
  <2>4. Rearranged(output, shardOf, s - 1).titles
          = [i \in DOMAIN members |-> output.titles[members[i]]]
    BY <2>3 DEF Rearranged
  <2>5. shards[s].titles = Rearranged(output, shardOf, s - 1).titles
    <3>1. \A c, r : Finished(c, r).titles = r.titles
      BY DEF Finished
    <3> QED BY <3>1, <1>1, <1>2
  <2> HIDE DEF members
  <2>6. \A i \in DOMAIN members : output.titles[members[i]] = members[i]
    BY <2>1, <2>2, <1>4
  <2>7. members = [i \in DOMAIN members |-> members[i]]
    BY <2>2
  <2>8. shards[s].titles = members
    BY <2>4, <2>5, <2>6, <2>7
  <2> QED BY <2>8 DEF members
<1> DEFINE parts == [s \in 1..count |-> Ascending({d \in 1..n : shardOf[d] = s - 1})]
           p == FlattenSeq(parts)
<1>8. p \in Bijection(1..n, 1..n)
  <2>1. shardOf \in [1..n -> Nat] /\ \A d \in 1..n : shardOf[d] < count
    BY <1>1, <1>2, <1>4
  <2> QED BY <2>1, <1>4, ShardsPermute
<1>9. [s \in DOMAIN shards |-> shards[s].titles] = parts
  BY <1>2, <1>7
<1> HIDE DEF p, parts
<1>10. p = [i \in DOMAIN p |-> output.titles[p[i]]]
  <2>1. p \in [1..n -> 1..n]
    BY <1>8 DEF Bijection, Injection
  <2> QED BY <2>1, <1>4
<1>11. FlattenSeq([s \in DOMAIN shards |-> shards[s].titles]) = p
  BY <1>9 DEF p
<1>12. FlattenSeq([s \in DOMAIN shards |-> shards[s].titles]) \in
         {[i \in DOMAIN q |-> output.titles[q[i]]] :
            q \in Bijection(DOMAIN output.titles, DOMAIN output.titles)}
  <2> HIDE DEF p
  <2>1. p \in Bijection(DOMAIN output.titles, DOMAIN output.titles)
    BY <1>4, <1>8
  <2> QED BY <2>1, <1>10, <1>11
<1> QED BY <1>6, <1>12 DEF ShardsHoldTheCollection

\* The pipeline is a build followed by other tools: what is proved of every build
\* holds in it, and a build is as fair in it as alone.
THEOREM PipelineBuilds == PipelineSpec => Spec
<1>1. PipelineInit => Init
  BY DEF PipelineInit
<1> QED BY <1>1, PipelineStepBuilds, PTL DEF PipelineSpec, Spec, builderVars

\* For every input, size of a batch, number of threads, of kills and of shards, random
\* or by lists of titles: in whatever order the shards are processed, each one
\* processed holds its documents in the order of the collection, with the words they
\* had under identifiers of its own, and no document is lost or in two shards.
THEOREM ShardsAreTheCollection == PipelineSpec => []ShardsHoldTheCollection
<1>1. PipelineInit => Init /\ ShardsInv
  BY DEF PipelineInit, ShardsInv
<1>2. Init => TermsInv
  BY DEF Init, TermsInv
<1> QED BY <1>1, <1>2, BuildInvariantHolds, PipelineBuilds, PipelineStepBuilds, TermsNext,
    ShardsNext, ShardsAreRight, PTL DEF PipelineSpec

-----------------------------------------------------------------------------
(* The queue with which collections of sequences are built.               *)

\* The bits of the sequences, and of a job that is not prepared.
Bits == {Prepared(kind, sequences[i]) : i \in DOMAIN sequences} \cup {NoBits}
Jobs == [seq : Seq(Nat), bits : Bits]

\* Jobs are those of the sequences of s after the first from up to the one counted to,
\* and hold the bits of their own sequence or none.
HoldTheirs(jobs, from, to, s, type) ==
  /\ Len(jobs) = to - from
  /\ \A i \in 1..Len(jobs) :
       /\ jobs[i].seq = s[from + i]
       /\ jobs[i].bits \in {NoBits, Prepared(type, s[from + i])}

QueueTypes ==
  /\ sequences \in Seq(Seq(Nat)) /\ maxThreads \in Nat
  /\ running \in Seq(Seq(Jobs)) /\ gathered \in Seq(Jobs)
  /\ committed \in Seq(Bits)

\* Never more threads than allowed, and no job waits for one where there are none;
\* a collection that was taken left nothing behind.
ThreadsInv ==
  /\ Len(running) <= maxThreads
  /\ maxThreads = 0 => gathered = <<>>
  /\ caller = "built" => running = <<>> /\ gathered = <<>> /\ left = <<>>

\* What is committed is that of the first sequences.
CommittedInv == \A i \in 1..Len(committed) : committed[i] = Prepared(kind, sequences[i])

\* The groups that run and the jobs gathered are those of the sequences that follow,
\* each up to where ends says; what is left comes after them.
GroupsEndAt(ends) ==
  /\ ends \in [0..(Len(running) + 1) -> 0..Len(sequences)]
  /\ ends[0] = Len(committed)
  /\ \A g \in 1..Len(running) : HoldTheirs(running[g], ends[g - 1], ends[g], sequences, kind)
  /\ HoldTheirs(gathered, ends[Len(running)], ends[Len(running) + 1], sequences, kind)
  /\ left = SubSeq(sequences, ends[Len(running) + 1] + 1, Len(sequences))

GroupsInv == \E ends : GroupsEndAt(ends)

\* What does not change.
Input == <<kind, sequences, maxThreads>>

\* The lengths are numbers.
LEMMA LengthsAreTyped ==
  ASSUME QueueTypes
  PROVE  /\ Len(sequences) \in Nat /\ Len(running) \in Nat /\ Len(gathered) \in Nat
         /\ Len(committed) \in Nat
         /\ \A g \in 1..Len(running) : running[g] \in Seq(Jobs) /\ Len(running[g]) \in Nat
  BY LenProperties, ElementOfSeq DEF QueueTypes

\* The bits that jobs may hold depend on the input alone.
LEMMA JobsStay == UNCHANGED Input => Bits' = Bits /\ Jobs' = Jobs
  BY DEF Input, Bits, Jobs

\* Ends are numbers.
LEMMA EndsAreTyped ==
  ASSUME QueueTypes, NEW ends, GroupsEndAt(ends)
  PROVE  /\ \A g \in 0..(Len(running) + 1) : ends[g] \in Nat /\ ends[g] <= Len(sequences)
         /\ Len(committed) <= Len(sequences)
<1>1. ends \in [0..(Len(running) + 1) -> 0..Len(sequences)] /\ ends[0] = Len(committed)
  BY DEF GroupsEndAt
<1>2. Len(running) \in Nat /\ Len(sequences) \in Nat
  BY LengthsAreTyped
<1>3. \A g \in 0..(Len(running) + 1) : ends[g] \in 0..Len(sequences)
  BY <1>1
<1>4. 0 \in 0..(Len(running) + 1)
  BY <1>2
<1> QED BY <1>1, <1>2, <1>3, <1>4

\* The next sequence to add.
LEMMA NextIsLeft ==
  ASSUME QueueTypes, NEW ends, GroupsEndAt(ends), left # <<>>
  PROVE  LET m == ends[Len(running) + 1]
         IN  /\ m \in Nat /\ m + 1 \in 1..Len(sequences)
             /\ Head(left) = sequences[m + 1] /\ Head(left) \in Seq(Nat)
             /\ Tail(left) = SubSeq(sequences, (m + 1) + 1, Len(sequences))
<1> DEFINE m == ends[Len(running) + 1]
<1>1. Len(running) + 1 \in 0..(Len(running) + 1) /\ Len(sequences) \in Nat
  BY LengthsAreTyped
<1>2. m \in Nat /\ m <= Len(sequences) /\ left = SubSeq(sequences, m + 1, Len(sequences))
  BY <1>1, EndsAreTyped DEF GroupsEndAt
<1> HIDE DEF m
<1>3. m # Len(sequences)
  BY <1>1, <1>2, SubSeqEmpty
<1>4. m + 1 \in 1..Len(sequences) /\ Len(sequences) \in (m + 1)..Len(sequences)
  BY <1>1, <1>2, <1>3
<1>5. sequences \in Seq(Seq(Nat))
  BY DEF QueueTypes
<1>6. sequences[m + 1] \in Seq(Nat)
  BY <1>4, <1>5, ElementOfSeq
<1>7. /\ Head(left) = sequences[m + 1]
      /\ Tail(left) = SubSeq(sequences, (m + 1) + 1, Len(sequences))
  BY <1>2, <1>4, <1>5, HeadTailOfSubSeq
<1> QED BY <1>2, <1>4, <1>6, <1>7 DEF m

-----------------------------------------------------------------------------

\* A job that is added is the last of those gathered.
LEMMA AddToGroup ==
  ASSUME QueueTypes, ThreadsInv, CommittedInv, GroupsInv, AddJob, maxThreads # 0
  PROVE  QueueTypes' /\ ThreadsInv' /\ CommittedInv' /\ GroupsInv'
<1>1. /\ UNCHANGED Input /\ running' = running /\ committed' = committed
      /\ gathered' = Append(gathered, [seq |-> Head(left), bits |-> NoBits])
      /\ left # <<>> /\ left' = Tail(left) /\ caller' # "built"
  BY DEF AddJob, Input
<1>2. PICK ends : GroupsEndAt(ends)
  BY DEF GroupsInv
<1> DEFINE R == Len(running)
           m == ends[R + 1]
           job == [seq |-> Head(left), bits |-> NoBits]
           after == [g \in 0..(R + 1) |-> IF g = R + 1 THEN m + 1 ELSE ends[g]]
<1>3. /\ m \in Nat /\ m + 1 \in 1..Len(sequences) /\ Head(left) = sequences[m + 1]
      /\ Head(left) \in Seq(Nat) /\ Tail(left) = SubSeq(sequences, (m + 1) + 1, Len(sequences))
  BY <1>1, <1>2, NextIsLeft
<1>4. R \in Nat /\ Len(gathered) \in Nat /\ Len(sequences) \in Nat
  BY LengthsAreTyped
<1>5. job \in Jobs
  BY <1>3 DEF Jobs, Bits
<1>6. /\ gathered' \in Seq(Jobs) /\ Len(gathered') = Len(gathered) + 1
      /\ \A i \in 1..Len(gathered) : gathered'[i] = gathered[i]
      /\ gathered'[Len(gathered) + 1] = job
  BY <1>1, <1>5, AppendProperties DEF QueueTypes
<1>7. /\ \A g \in 0..R : after[g] = ends[g]
      /\ after[R + 1] = m + 1
  BY <1>4
<1>8. after \in [0..(R + 1) -> 0..Len(sequences)]
  <2>1. \A g \in 0..(R + 1) : ends[g] \in 0..Len(sequences)
    BY <1>2 DEF GroupsEndAt
  <2>2. m + 1 \in 0..Len(sequences)
    BY <1>3, <1>4
  <2> HIDE DEF m
  <2> QED BY <2>1, <2>2
<1>9. HoldTheirs(gathered', ends[R], m + 1, sequences, kind)
  <2>1. HoldTheirs(gathered, ends[R], m, sequences, kind) /\ ends[R] \in Nat
    BY <1>2, <1>4, EndsAreTyped DEF GroupsEndAt
  <2>2. Len(gathered) = m - ends[R]
    BY <2>1 DEF HoldTheirs
  <2>3. Len(gathered') = (m + 1) - ends[R] /\ ends[R] + (Len(gathered) + 1) = m + 1
    <3> HIDE DEF m, R
    <3> QED BY <2>1, <2>2, <1>3, <1>4, <1>6
  <2>4. ASSUME NEW i \in 1..Len(gathered')
        PROVE  /\ gathered'[i].seq = sequences[ends[R] + i]
               /\ gathered'[i].bits \in {NoBits, Prepared(kind, sequences[ends[R] + i])}
    <3>1. CASE i \in 1..Len(gathered)
      BY <3>1, <2>1, <1>6 DEF HoldTheirs
    <3>2. CASE i = Len(gathered) + 1
      <4>1. gathered'[i].seq = Head(left) /\ gathered'[i].bits = NoBits
        BY <3>2, <1>6
      <4> QED BY <4>1, <3>2, <2>3, <1>3
    <3> QED BY <3>1, <3>2, <1>4, <1>6
  <2> QED BY <2>3, <2>4 DEF HoldTheirs
<1> HIDE DEF m, job, after
<1>10. PICK e : e = after
  OBVIOUS
<1>11. GroupsEndAt(e)'
  <2>1. ASSUME NEW g \in 1..R
        PROVE  HoldTheirs(running[g], after[g - 1], after[g], sequences, kind)
    <3>1. g \in 0..R /\ g - 1 \in 0..R
      BY <1>4
    <3>2. after[g] = ends[g] /\ after[g - 1] = ends[g - 1]
      BY <3>1, <1>7
    <3> QED BY <3>2, <1>2 DEF GroupsEndAt
  <2>2. after[0] = Len(committed) /\ after[R] = ends[R]
    BY <1>2, <1>4, <1>7 DEF GroupsEndAt
  <2>3. HoldTheirs(gathered', after[R], after[R + 1], sequences, kind)
    BY <2>2, <1>7, <1>9
  <2>4. sequences' = sequences /\ kind' = kind
    BY <1>1 DEF Input
  <2>5. left' = SubSeq(sequences, after[R + 1] + 1, Len(sequences))
    BY <1>1, <1>3, <1>7
  <2>6. running' = running /\ committed' = committed
    BY <1>1
  <2> QED BY <1>8, <1>10, <2>1, <2>2, <2>3, <2>4, <2>5, <2>6 DEF GroupsEndAt
<1>12. QueueTypes'
  BY <1>1, <1>6, JobsStay DEF QueueTypes, Input
<1>13. ThreadsInv' /\ CommittedInv'
  BY <1>1 DEF ThreadsInv, CommittedInv, Input
<1> QED BY <1>11, <1>12, <1>13 DEF GroupsInv

\* Where no thread may run, nothing runs and nothing is gathered.
LEMMA NothingGathered ==
  ASSUME QueueTypes, ThreadsInv, maxThreads = 0, NEW ends, GroupsEndAt(ends)
  PROVE  /\ Len(running) = 0 /\ gathered = <<>>
         /\ ends[1] = Len(committed) /\ ends[0] = Len(committed)
<1>1. Len(running) = 0 /\ gathered = <<>>
  BY LengthsAreTyped DEF ThreadsInv
<1>2. HoldTheirs(gathered, ends[0], ends[1], sequences, kind) /\ ends[0] = Len(committed)
  BY <1>1 DEF GroupsEndAt
<1>3. Len(gathered) = ends[1] - ends[0]
  BY <1>2 DEF HoldTheirs
<1>4. ends[0] \in Nat /\ ends[1] \in Nat
  <2>1. \A g \in 0..(Len(running) + 1) : ends[g] \in Nat
    BY EndsAreTyped
  <2> QED BY <2>1, <1>1
<1>5. Len(gathered) = 0
  BY <1>1
<1> QED BY <1>1, <1>2, <1>3, <1>4, <1>5

\* A job that is committed at once is the next of what is committed.
LEMMA AddCommitted ==
  ASSUME QueueTypes, ThreadsInv, CommittedInv, GroupsInv, AddJob, maxThreads = 0
  PROVE  QueueTypes' /\ ThreadsInv' /\ CommittedInv' /\ GroupsInv'
<1>1. /\ UNCHANGED Input /\ running' = running /\ gathered' = gathered /\ caller' = caller
      /\ committed' = Append(committed, Prepared(kind, Head(left)))
      /\ left # <<>> /\ left' = Tail(left) /\ caller # "built"
  BY DEF AddJob, Input
<1>2. PICK ends : GroupsEndAt(ends)
  BY DEF GroupsInv
<1> DEFINE m == Len(committed)
           bits == Prepared(kind, Head(left))
<1>3. Len(running) = 0 /\ gathered = <<>> /\ ends[1] = m /\ ends[0] = m
  BY <1>2, NothingGathered
<1>4. /\ m \in Nat /\ m + 1 \in 1..Len(sequences) /\ Head(left) = sequences[m + 1]
      /\ Tail(left) = SubSeq(sequences, (m + 1) + 1, Len(sequences))
  <2>1. ends[Len(running) + 1] = m
    BY <1>3
  <2> HIDE DEF m
  <2> QED BY <2>1, <1>1, <1>2, NextIsLeft
<1>5. bits \in Bits
  BY <1>4 DEF Bits, QueueTypes
<1>6. /\ committed' \in Seq(Bits) /\ Len(committed') = m + 1
      /\ \A i \in 1..m : committed'[i] = committed[i]
      /\ committed'[m + 1] = bits
  BY <1>1, <1>5, AppendProperties DEF QueueTypes
<1>7. PICK e : e = [g \in 0..1 |-> Len(committed')]
  OBVIOUS
<1>8. GroupsEndAt(e)'
  <2>1. e \in [0..(0 + 1) -> 0..Len(sequences)] /\ e[0] = Len(committed') /\ e[1] = m + 1
    <3>1. Len(committed') \in 0..Len(sequences)
      BY <1>4, <1>6
    <3> QED BY <3>1, <1>6, <1>7
  <2>2. HoldTheirs(<<>>, e[0], e[0 + 1], sequences, kind)
    BY <2>1, <1>6, <1>4 DEF HoldTheirs
  <2>3. /\ sequences' = sequences /\ kind' = kind /\ running' = running
        /\ Len(running) = 0 /\ gathered' = <<>>
    BY <1>1, <1>3 DEF Input
  <2>4. left' = SubSeq(sequences, e[0 + 1] + 1, Len(sequences))
    <3>1. e[0 + 1] = m + 1
      BY <2>1
    <3> HIDE DEF m
    <3> QED BY <1>1, <1>4, <3>1
  <2> HIDE DEF m, bits
  <2> QED BY <2>1, <2>2, <2>3, <2>4 DEF GroupsEndAt
<1>9. QueueTypes'
  BY <1>1, <1>6, JobsStay DEF QueueTypes, Input
<1>10. CommittedInv'
  BY <1>1, <1>4, <1>6 DEF CommittedInv, Input
<1>11. ThreadsInv'
  BY <1>1 DEF ThreadsInv, Input
<1> QED BY <1>8, <1>9, <1>10, <1>11 DEF GroupsInv

\* The jobs gathered become the last group, and none are gathered.
LEMMA SpawnKeeps ==
  ASSUME QueueTypes, ThreadsInv, CommittedInv, GroupsInv, SpawnThread
  PROVE  QueueTypes' /\ ThreadsInv' /\ CommittedInv' /\ GroupsInv'
<1>1. /\ UNCHANGED Input /\ UNCHANGED <<committed, left>> /\ caller' = "add"
      /\ Len(running) < maxThreads
      /\ running' = Append(running, gathered) /\ gathered' = <<>>
  BY DEF SpawnThread, Input
<1>2. PICK ends : GroupsEndAt(ends)
  BY DEF GroupsInv
<1> DEFINE R == Len(running)
<1>3. R \in Nat /\ Len(sequences) \in Nat /\ maxThreads \in Nat
  BY LengthsAreTyped DEF QueueTypes
<1>4. /\ running' \in Seq(Seq(Jobs)) /\ Len(running') = R + 1
      /\ \A g \in 1..R : running'[g] = running[g]
      /\ running'[R + 1] = gathered
  BY <1>1, AppendProperties DEF QueueTypes
<1>5. PICK e : e = [g \in 0..(R + 2) |-> IF g = R + 2 THEN ends[R + 1] ELSE ends[g]]
  OBVIOUS
<1>6. /\ \A g \in 0..(R + 1) : e[g] = ends[g]
      /\ e[R + 2] = ends[R + 1]
  BY <1>3, <1>5
<1>7. e \in [0..(R + 2) -> 0..Len(sequences)]
  <2>1. \A g \in 0..(R + 1) : ends[g] \in 0..Len(sequences)
    BY <1>2 DEF GroupsEndAt
  <2>2. R + 1 \in 0..(R + 1)
    BY <1>3
  <2> HIDE DEF R
  <2> QED BY <2>1, <2>2, <1>3, <1>5
<1>8. ASSUME NEW g \in 1..(R + 1)
      PROVE  HoldTheirs(running'[g], e[g - 1], e[g], sequences, kind)
  <2>1. g - 1 \in 0..(R + 1) /\ g \in 0..(R + 1)
    BY <1>3
  <2>2. e[g] = ends[g] /\ e[g - 1] = ends[g - 1]
    BY <2>1, <1>6
  <2>3. CASE g \in 1..R
    BY <2>2, <2>3, <1>2, <1>4 DEF GroupsEndAt
  <2>4. CASE g = R + 1
    <3>1. HoldTheirs(gathered, ends[R], ends[R + 1], sequences, kind)
      BY <1>2 DEF GroupsEndAt
    <3>2. g - 1 = R
      BY <2>4, <1>3
    <3> QED BY <3>1, <3>2, <2>2, <2>4, <1>4
  <2> QED BY <2>3, <2>4, <1>3
<1>9. GroupsEndAt(e)'
  <2>1. e[0] = Len(committed)
    <3>1. e[0] = ends[0]
      BY <1>3, <1>6
    <3> QED BY <3>1, <1>2 DEF GroupsEndAt
  <2>2. e[R + 1] \in Nat /\ e[R + 1] = ends[R + 1] /\ e[R + 2] = ends[R + 1]
    <3>1. R + 1 \in 0..(R + 1)
      BY <1>3
    <3> QED BY <3>1, <1>2, <1>6, EndsAreTyped
  <2>3. HoldTheirs(<<>>, e[R + 1], e[R + 2], sequences, kind)
    BY <2>2 DEF HoldTheirs
  <2>4. left = SubSeq(sequences, e[R + 2] + 1, Len(sequences))
    BY <2>2, <1>2 DEF GroupsEndAt
  <2>5. /\ sequences' = sequences /\ kind' = kind /\ gathered' = <<>>
        /\ committed' = committed /\ left' = left
    BY <1>1 DEF Input
  <2>6. Len(running') = R + 1 /\ (R + 1) + 1 = R + 2
    BY <1>3, <1>4
  <2> HIDE DEF R
  <2> QED BY <1>7, <1>8, <2>1, <2>3, <2>4, <2>5, <2>6 DEF GroupsEndAt
<1>10. QueueTypes'
  <2>1. <<>> \in Seq(Jobs)
    BY EmptySeq
  <2> QED BY <2>1, <1>1, <1>4, JobsStay DEF QueueTypes, Input
<1>11. ThreadsInv' /\ CommittedInv'
  <2>1. Len(running') <= maxThreads
    BY <1>1, <1>3, <1>4
  <2>2. /\ UNCHANGED <<kind, sequences, maxThreads, committed>>
        /\ caller' # "built" /\ gathered' = <<>>
    BY <1>1 DEF Input
  <2> QED BY <2>1, <2>2 DEF ThreadsInv, CommittedInv
<1> QED BY <1>9, <1>10, <1>11 DEF GroupsInv

\* The bits of jobs that are prepared are those of their sequences.
LEMMA BitsArePrepared ==
  ASSUME NEW jobs \in Seq(Jobs), NEW from \in Nat, NEW to \in Nat,
         HoldTheirs(jobs, from, to, sequences, kind),
         \A i \in DOMAIN jobs : ~Unprepared(jobs[i])
  PROVE  /\ BitsOfJobs(jobs) \in Seq(Bits) /\ Len(BitsOfJobs(jobs)) = to - from
         /\ \A i \in 1..(to - from) : BitsOfJobs(jobs)[i] = Prepared(kind, sequences[from + i])
<1>1. DOMAIN jobs = 1..Len(jobs) /\ Len(jobs) \in Nat /\ Len(jobs) = to - from
  BY LenProperties DEF HoldTheirs
<1>2. \A i \in 1..Len(jobs) : jobs[i].bits = Prepared(kind, sequences[from + i])
  BY <1>1 DEF HoldTheirs, Unprepared
<1>3. \A i \in 1..Len(jobs) : jobs[i].bits \in Bits
  <2> SUFFICES ASSUME NEW i \in 1..Len(jobs) PROVE jobs[i].bits \in Bits
    OBVIOUS
  <2>1. jobs[i] \in Jobs
    BY ElementOfSeq
  <2> QED BY <2>1 DEF Jobs
<1>4. BitsOfJobs(jobs) = [i \in 1..Len(jobs) |-> jobs[i].bits]
  BY <1>1 DEF BitsOfJobs
<1>5. BitsOfJobs(jobs) \in Seq(Bits)
  BY <1>1, <1>3, <1>4, IsASeq
<1>6. Len(BitsOfJobs(jobs)) = Len(jobs)
  BY <1>1, <1>4
<1> QED BY <1>1, <1>2, <1>4, <1>5, <1>6

\* The jobs of the oldest thread follow what is committed.
LEMMA CommitKeeps ==
  ASSUME QueueTypes, ThreadsInv, CommittedInv, GroupsInv, CommitThread
  PROVE  QueueTypes' /\ ThreadsInv' /\ CommittedInv' /\ GroupsInv'
<1>1. /\ UNCHANGED Input /\ UNCHANGED <<gathered, left, caller>> /\ running # <<>>
      /\ \A i \in DOMAIN Head(running) : ~Unprepared(Head(running)[i])
      /\ committed' = committed \o BitsOfJobs(Head(running))
      /\ running' = Tail(running)
  BY DEF CommitThread, Input
<1>2. PICK ends : GroupsEndAt(ends)
  BY DEF GroupsInv
<1> DEFINE R == Len(running)
           bits == BitsOfJobs(Head(running))
<1>3. /\ R \in Nat /\ Len(committed) \in Nat /\ Len(sequences) \in Nat
      /\ Len(running') = R - 1 /\ R >= 1
      /\ running' \in Seq(Seq(Jobs)) /\ Head(running) = running[1]
      /\ \A g \in 1..(R - 1) : running'[g] = running[g + 1]
  <2>1. /\ Tail(running) \in Seq(Seq(Jobs)) /\ Len(Tail(running)) = R - 1
        /\ \A g \in 1..Len(Tail(running)) : Tail(running)[g] = running[g + 1]
    BY <1>1, HeadTailProperties DEF QueueTypes
  <2>2. R \in Nat /\ Len(running') \in Nat
    BY <2>1, <1>1, LenProperties, LengthsAreTyped
  <2>3. Head(running) = running[1]
    BY DEF QueueTypes
  <2> QED BY <1>1, <2>1, <2>2, <2>3, LengthsAreTyped
<1>4. \A g \in 0..(R + 1) : ends[g] \in 0..Len(sequences)
  BY <1>2 DEF GroupsEndAt
<1>5. /\ ends[0] = Len(committed) /\ ends[1] \in Nat /\ ends[1] <= Len(sequences)
      /\ HoldTheirs(running[1], ends[0], ends[1], sequences, kind)
  <2>1. 1 \in 0..(R + 1) /\ 1 \in 1..R /\ 1 - 1 = 0
    BY <1>3
  <2>2. ends[1] \in Nat /\ ends[1] <= Len(sequences)
    BY <2>1, <1>2, EndsAreTyped
  <2> QED BY <2>1, <2>2, <1>2 DEF GroupsEndAt
<1>6. /\ bits \in Seq(Bits) /\ Len(bits) = ends[1] - Len(committed)
      /\ \A i \in 1..(ends[1] - Len(committed)) :
           bits[i] = Prepared(kind, sequences[Len(committed) + i])
  <2>1. running[1] \in Seq(Jobs)
    BY <1>3, LengthsAreTyped
  <2>2. \A i \in DOMAIN running[1] : ~Unprepared(running[1][i])
    BY <1>1, <1>3
  <2>3. HoldTheirs(running[1], Len(committed), ends[1], sequences, kind)
    BY <1>5
  <2>4. bits = BitsOfJobs(running[1])
    BY <1>3
  <2> HIDE DEF bits
  <2> QED BY SMTT(30), ZenonT(60), <2>1, <2>2, <2>3, <2>4, <1>3, <1>5, BitsArePrepared
<1> HIDE DEF bits
<1>7. /\ committed' \in Seq(Bits) /\ Len(committed') = ends[1]
      /\ \A i \in 1..ends[1] : committed'[i] = IF i <= Len(committed) THEN committed[i]
                                               ELSE bits[i - Len(committed)]
  <2>1. /\ committed \o bits \in Seq(Bits) /\ Len(committed \o bits) = Len(committed) + Len(bits)
        /\ \A i \in 1..(Len(committed) + Len(bits)) :
             (committed \o bits)[i] = IF i <= Len(committed) THEN committed[i]
                                      ELSE bits[i - Len(committed)]
    BY <1>6, ConcatProperties DEF QueueTypes
  <2>2. committed' = committed \o bits
    BY <1>1 DEF bits
  <2>3. Len(committed) + Len(bits) = ends[1]
    BY <1>3, <1>5, <1>6
  <2> QED BY <2>1, <2>2, <2>3
<1>8. CommittedInv'
  <2>1. ASSUME NEW i \in 1..ends[1] PROVE committed'[i] = Prepared(kind, sequences[i])
    <3>1. CASE i <= Len(committed)
      <4>1. i \in 1..Len(committed)
        BY <3>1, <1>3
      <4> QED BY <4>1, <3>1, <1>7 DEF CommittedInv
    <3>2. CASE ~(i <= Len(committed))
      <4>1. i - Len(committed) \in 1..(ends[1] - Len(committed))
        BY <3>2, <1>3, <1>5
      <4>2. Len(committed) + (i - Len(committed)) = i
        BY <1>3
      <4>3. committed'[i] = bits[i - Len(committed)]
        BY <3>2, <1>7
      <4>4. bits[i - Len(committed)]
              = Prepared(kind, sequences[Len(committed) + (i - Len(committed))])
        BY <4>1, <1>6
      <4> QED BY <4>2, <4>3, <4>4
    <3> QED BY <3>1, <3>2
  <2>2. kind' = kind /\ sequences' = sequences
    BY <1>1 DEF Input
  <2> QED BY <2>1, <2>2, <1>7 DEF CommittedInv
<1>9. PICK e : e = [g \in 0..R |-> ends[g + 1]]
  OBVIOUS
<1>10. \A g \in 0..R : e[g] = ends[g + 1]
  BY <1>9
<1>11. GroupsEndAt(e)'
  <2>1. e \in [0..R -> 0..Len(sequences)]
    <3>1. \A g \in 0..R : g + 1 \in 0..(R + 1)
      BY <1>3
    <3>2. \A g \in 0..R : ends[g + 1] \in 0..Len(sequences)
      BY <1>3, <1>4, <3>1
    <3> QED BY <1>9, <3>2
  <2>2. e[0] = ends[1] /\ e[R - 1] = ends[R] /\ e[R] = ends[R + 1]
    <3>1. 0 \in 0..R /\ R - 1 \in 0..R /\ R \in 0..R /\ (R - 1) + 1 = R /\ 0 + 1 = 1
      BY <1>3
    <3> QED BY <3>1, <1>10
  <2>3. ASSUME NEW g \in 1..(R - 1)
        PROVE  HoldTheirs(running'[g], e[g - 1], e[g], sequences, kind)
    <3>1. g + 1 \in 1..R /\ (g + 1) - 1 = g /\ g - 1 \in 0..R /\ g \in 0..R /\ (g - 1) + 1 = g
      BY SMTT(30), ZenonT(60), <1>3
    <3>2. e[g - 1] = ends[g] /\ e[g] = ends[g + 1] /\ running'[g] = running[g + 1]
      BY <3>1, <1>10, <1>3
    <3>3. HoldTheirs(running[g + 1], ends[(g + 1) - 1], ends[g + 1], sequences, kind)
      BY <3>1, <1>2 DEF GroupsEndAt
    <3> QED BY <3>1, <3>2, <3>3
  <2>4. HoldTheirs(gathered, e[R - 1], e[R], sequences, kind)
    BY <2>2, <1>2 DEF GroupsEndAt
  <2>5. left = SubSeq(sequences, e[R] + 1, Len(sequences))
    BY <2>2, <1>2 DEF GroupsEndAt
  <2>6. /\ sequences' = sequences /\ kind' = kind /\ gathered' = gathered /\ left' = left
        /\ Len(running') = R - 1 /\ (R - 1) + 1 = R /\ Len(committed') = e[0]
    BY <1>1, <1>3, <1>7, <2>2 DEF Input
  <2> HIDE DEF R
  <2> QED BY <2>1, <2>3, <2>4, <2>5, <2>6 DEF GroupsEndAt
<1>12. QueueTypes'
  BY <1>1, <1>3, <1>7, JobsStay DEF QueueTypes, Input
<1>13. ThreadsInv'
  <2>1. Len(running') <= maxThreads
    BY <1>3 DEF ThreadsInv, QueueTypes
  <2>2. caller # "built"
    BY DEF CommitThread, MustCommit
  <2> QED BY <2>1, <2>2, <1>1 DEF ThreadsInv, Input
<1> QED BY <1>8, <1>11, <1>12, <1>13 DEF GroupsInv

\* A thread writes the bits of one of its jobs.
LEMMA PrepareKeeps ==
  ASSUME QueueTypes, ThreadsInv, CommittedInv, GroupsInv, Prepare
  PROVE  QueueTypes' /\ ThreadsInv' /\ CommittedInv' /\ GroupsInv'
<1>1. /\ UNCHANGED Input /\ UNCHANGED <<gathered, left, caller, committed>>
  BY DEF Prepare, Input
<1>0. PICK h \in DOMAIN running : \E k \in DOMAIN running[h] :
        LET done == [seq |-> running[h][k].seq, bits |-> Prepared(kind, running[h][k].seq)]
        IN  running' = [running EXCEPT ![h] = [@ EXCEPT ![k] = done]]
  BY DEF Prepare
<1>2. PICK k \in DOMAIN running[h] :
        LET done == [seq |-> running[h][k].seq, bits |-> Prepared(kind, running[h][k].seq)]
        IN  running' = [running EXCEPT ![h] = [@ EXCEPT ![k] = done]]
  BY <1>0
<1>3. PICK ends : GroupsEndAt(ends)
  BY DEF GroupsInv
<1> DEFINE R == Len(running)
           job == running[h][k]
           done == [seq |-> job.seq, bits |-> Prepared(kind, job.seq)]
           group == [running[h] EXCEPT ![k] = done]
<1>4. /\ R \in Nat /\ h \in 1..R /\ running[h] \in Seq(Jobs) /\ Len(running[h]) \in Nat
      /\ k \in 1..Len(running[h]) /\ job \in Jobs
  <2>1. h \in 1..R /\ R \in Nat
    BY LenProperties, LengthsAreTyped DEF QueueTypes
  <2>2. running[h] \in Seq(Jobs) /\ Len(running[h]) \in Nat
    BY <2>1, LengthsAreTyped
  <2>3. k \in 1..Len(running[h])
    BY <2>2, LenProperties
  <2> QED BY <2>1, <2>2, <2>3, ElementOfSeq
<1>5. HoldTheirs(running[h], ends[h - 1], ends[h], sequences, kind)
  BY <1>3, <1>4 DEF GroupsEndAt
<1>6. /\ ends[h - 1] \in Nat /\ ends[h] \in Nat /\ ends[h] <= Len(sequences)
      /\ Len(sequences) \in Nat
  <2>1. h - 1 \in 0..(R + 1) /\ h \in 0..(R + 1)
    BY <1>4
  <2> QED BY <2>1, <1>3, EndsAreTyped, LengthsAreTyped
<1>7. /\ ends[h - 1] + k \in 1..Len(sequences) /\ job.seq = sequences[ends[h - 1] + k]
  BY <1>4, <1>5, <1>6 DEF HoldTheirs
<1>8. done \in Jobs /\ done.seq = job.seq /\ done.bits = Prepared(kind, job.seq)
  <2>1. job.seq \in Seq(Nat)
    BY <1>4 DEF Jobs
  <2>2. Prepared(kind, job.seq) \in Bits
    BY <1>7 DEF Bits, QueueTypes
  <2> QED BY <2>1, <2>2 DEF Jobs
<1> HIDE DEF job, done
<1>9. /\ group \in Seq(Jobs) /\ Len(group) = Len(running[h])
      /\ \A i \in 1..Len(running[h]) : group[i] = IF i = k THEN done ELSE running[h][i]
  BY <1>4, <1>8, ExceptSeq
<1> HIDE DEF group
<1>10. running' = [running EXCEPT ![h] = group]
  BY <1>2 DEF group, done, job
<1>11. /\ running' \in Seq(Seq(Jobs)) /\ Len(running') = R
       /\ \A g \in 1..R : running'[g] = IF g = h THEN group ELSE running[g]
  BY <1>4, <1>9, <1>10, ExceptSeq DEF QueueTypes
<1>12. HoldTheirs(group, ends[h - 1], ends[h], sequences, kind)
  <2>1. ASSUME NEW i \in 1..Len(group)
        PROVE  /\ group[i].seq = sequences[ends[h - 1] + i]
               /\ group[i].bits \in {NoBits, Prepared(kind, sequences[ends[h - 1] + i])}
    <3>1. CASE i = k
      BY <3>1, <1>7, <1>8, <1>9
    <3>2. CASE i # k
      BY <3>2, <1>5, <1>9 DEF HoldTheirs
    <3> QED BY <3>1, <3>2
  <2> QED BY <2>1, <1>5, <1>9 DEF HoldTheirs
<1>13. GroupsEndAt(ends)'
  <2>1. ASSUME NEW g \in 1..R
        PROVE  HoldTheirs(running'[g], ends[g - 1], ends[g], sequences, kind)
    <3>1. CASE g = h
      BY <3>1, <1>11, <1>12
    <3>2. CASE g # h
      BY <3>2, <1>3, <1>11 DEF GroupsEndAt
    <3> QED BY <3>1, <3>2
  <2>2. /\ sequences' = sequences /\ kind' = kind /\ gathered' = gathered /\ left' = left
        /\ committed' = committed
    BY <1>1 DEF Input
  <2>3. /\ ends \in [0..(R + 1) -> 0..Len(sequences)] /\ ends[0] = Len(committed)
        /\ HoldTheirs(gathered, ends[R], ends[R + 1], sequences, kind)
        /\ left = SubSeq(sequences, ends[R + 1] + 1, Len(sequences))
    BY <1>3 DEF GroupsEndAt
  <2> QED BY <1>11, <2>1, <2>2, <2>3 DEF GroupsEndAt
<1>14. QueueTypes'
  BY <1>1, <1>11, JobsStay DEF QueueTypes, Input
<1>15. ThreadsInv'
  <2>1. caller = "built" => running' = <<>>
    <3>1. running # <<>>
      BY <1>4
    <3> QED BY <3>1 DEF ThreadsInv
  <2> QED BY <2>1, <1>1, <1>11 DEF ThreadsInv, Input
<1>16. CommittedInv'
  BY <1>1 DEF CommittedInv, Input
<1> QED BY <1>13, <1>14, <1>15, <1>16 DEF GroupsInv

\* At first nothing is committed and all sequences are left.
LEMMA QueueInitInv ==
  QueueInit \/ QueueUnused => QueueTypes /\ ThreadsInv /\ CommittedInv /\ GroupsInv
<1> SUFFICES ASSUME QueueInit \/ QueueUnused
             PROVE  QueueTypes /\ ThreadsInv /\ CommittedInv /\ GroupsInv
  OBVIOUS
<1>1. /\ left = sequences /\ gathered = <<>> /\ running = <<>> /\ committed = <<>>
      /\ sequences \in Seq(Seq(Nat)) /\ maxThreads \in Nat
      /\ caller = "built" => left = <<>>
  <2>1. CASE QueueInit
    <3>1. sequences \in Seq(Seq(Nat)) /\ maxThreads \in Nat
      BY <2>1, QueueAssumption DEF QueueInit
    <3> QED BY <2>1, <3>1 DEF QueueInit
  <2>2. CASE QueueUnused
    <3>1. <<>> \in Seq(Seq(Nat))
      BY EmptySeq
    <3> QED BY <2>2, <3>1 DEF QueueUnused
  <2> QED BY <2>1, <2>2
<1>2. Len(gathered) = 0 /\ Len(running) = 0 /\ Len(committed) = 0 /\ Len(sequences) \in Nat
  BY <1>1, LenProperties
<1>3. QueueTypes
  BY <1>1, EmptySeq DEF QueueTypes
<1>4. ThreadsInv /\ CommittedInv
  BY <1>1, <1>2 DEF ThreadsInv, CommittedInv
<1>5. GroupsInv
  <2>1. PICK e : e = [g \in 0..1 |-> 0]
    OBVIOUS
  <2>2. e \in [0..(0 + 1) -> 0..Len(sequences)] /\ e[0] = 0 /\ e[0 + 1] = 0
    BY <2>1, <1>2
  <2>3. HoldTheirs(gathered, e[0], e[0 + 1], sequences, kind)
    BY <2>2, <1>2 DEF HoldTheirs
  <2>4. left = SubSeq(sequences, e[0 + 1] + 1, Len(sequences))
    <3>1. e[0 + 1] + 1 = 1
      BY <2>2
    <3> QED BY <3>1, <1>1, SubSeqFull
  <2>5. GroupsEndAt(e)
    BY <2>2, <2>3, <2>4, <1>2 DEF GroupsEndAt
  <2> QED BY <2>5 DEF GroupsInv
<1> QED BY <1>3, <1>4, <1>5

\* The invariant of the queue.
QueueInv == QueueTypes /\ ThreadsInv /\ CommittedInv /\ GroupsInv

\* Only the place of the caller changes.
LEMMA CallerMoves ==
  ASSUME QueueInv,
         UNCHANGED <<kind, sequences, maxThreads, left, gathered, running, committed>>,
         caller' = "built" => running = <<>> /\ gathered = <<>> /\ left = <<>>
  PROVE  QueueInv'
<1>1. PICK ends : GroupsEndAt(ends)
  BY DEF QueueInv, GroupsInv
<1>2. GroupsEndAt(ends)'
  BY <1>1 DEF GroupsEndAt
<1>3. GroupsInv'
  BY <1>2 DEF GroupsInv
<1>4. Bits' = Bits /\ Jobs' = Jobs
  BY JobsStay DEF Input
<1>5. QueueTypes'
  BY <1>4 DEF QueueTypes, QueueInv
<1>6. ThreadsInv' /\ CommittedInv'
  BY DEF ThreadsInv, CommittedInv, QueueInv
<1> QED BY <1>3, <1>5, <1>6 DEF QueueInv

\* Every step keeps the invariant.
LEMMA QueueNextInv == QueueInv /\ [QueueStep \/ Close]_queueVars => QueueInv'
<1> SUFFICES ASSUME QueueInv, [QueueStep \/ Close]_queueVars PROVE QueueInv'
  OBVIOUS
<1>1. QueueTypes /\ ThreadsInv /\ CommittedInv /\ GroupsInv
  BY DEF QueueInv
<1>2. CASE AddJob
  <2>1. CASE maxThreads # 0
    BY <1>1, <1>2, <2>1, AddToGroup DEF QueueInv
  <2>2. CASE maxThreads = 0
    BY <1>1, <1>2, <2>2, AddCommitted DEF QueueInv
  <2> QED BY <2>1, <2>2
<1>3. CASE SpawnThread
  BY <1>1, <1>3, SpawnKeeps DEF QueueInv
<1>4. CASE CommitThread
  BY <1>1, <1>4, CommitKeeps DEF QueueInv
<1>5. CASE Prepare
  BY <1>1, <1>5, PrepareKeeps DEF QueueInv
<1>6. CASE StartLast
  <2>1. /\ UNCHANGED <<kind, sequences, maxThreads, left, gathered, running, committed>>
        /\ caller' # "built"
    BY <1>6 DEF StartLast
  <2> QED BY <2>1, CallerMoves
<1>7. CASE Close
  <2>1. /\ UNCHANGED <<kind, sequences, maxThreads, left, gathered, running, committed>>
        /\ running = <<>> /\ gathered = <<>> /\ left = <<>>
    BY <1>7 DEF Close, Completed
  <2> QED BY <2>1, CallerMoves
<1>8. CASE UNCHANGED queueVars
  <2>1. /\ UNCHANGED <<kind, sequences, maxThreads, left, gathered, running, committed>>
        /\ caller' = caller
    BY <1>8 DEF queueVars
  <2>2. caller' = "built" => running = <<>> /\ gathered = <<>> /\ left = <<>>
    BY <2>1, <1>1 DEF ThreadsInv
  <2> QED BY <2>1, <2>2, CallerMoves
<1> QED BY <1>2, <1>3, <1>4, <1>5, <1>6, <1>7, <1>8 DEF QueueStep

\* A collection that was taken has the bits of every sequence.
LEMMA BuiltIsComplete ==
  ASSUME QueueInv, caller = "built"
  PROVE  Len(committed) = Len(sequences)
<1>1. PICK ends : GroupsEndAt(ends)
  BY DEF QueueInv, GroupsInv
<1>2. running = <<>> /\ gathered = <<>> /\ left = <<>> /\ QueueTypes
  BY DEF QueueInv, ThreadsInv
<1>3. Len(running) = 0 /\ Len(gathered) = 0 /\ Len(left) = 0
  BY <1>2
<1>4. /\ ends[0] = Len(committed) /\ HoldTheirs(gathered, ends[0], ends[1], sequences, kind)
      /\ left = SubSeq(sequences, ends[1] + 1, Len(sequences))
  <2>1. Len(running) + 1 = 1
    BY <1>3
  <2>2. GroupsEndAt(ends)
    BY <1>1
  <2> QED BY <2>1, <2>2, <1>3 DEF GroupsEndAt
<1>5. \A g \in 0..1 : ends[g] \in Nat /\ ends[g] <= Len(sequences)
  <2>1. \A g \in 0..(Len(running) + 1) : ends[g] \in Nat /\ ends[g] <= Len(sequences)
    BY <1>1, <1>2, EndsAreTyped
  <2> QED BY <2>1, <1>3
<1>6. ends[1] = Len(committed)
  <2>1. Len(gathered) = ends[1] - ends[0]
    BY <1>4 DEF HoldTheirs
  <2> QED BY <2>1, <1>3, <1>4, <1>5
<1>7. Len(sequences) \in Nat /\ Len(committed) \in Nat
  BY <1>2, LengthsAreTyped
<1>8. Len(committed) <= Len(sequences)
  BY <1>5, <1>6
<1>9. CASE Len(committed) < Len(sequences)
  <2>1. left = SubSeq(sequences, Len(committed) + 1, Len(sequences))
    BY <1>4, <1>6
  <2>2. Len(SubSeq(sequences, Len(committed) + 1, Len(sequences)))
          = Len(sequences) - (Len(committed) + 1) + 1
    BY <1>7, <1>9
  <2> QED BY <2>1, <2>2, <1>3, <1>7, <1>9
<1> QED BY <1>7, <1>8, <1>9

\* The invariant gives the property that the runs check.
LEMMA QueueInvInOrder == QueueInv => SequencesInOrder
<1> SUFFICES ASSUME QueueInv PROVE SequencesInOrder
  OBVIOUS
<1> DEFINE groups == Append(running, gathered)
<1>1. PICK ends : GroupsEndAt(ends)
  BY DEF QueueInv, GroupsInv
<1>2. QueueTypes /\ ThreadsInv /\ CommittedInv
  BY DEF QueueInv
<1>3. /\ Len(running) \in Nat /\ DOMAIN groups = 1..(Len(running) + 1)
      /\ Len(groups) = Len(running) + 1
      /\ \A g \in 1..Len(running) : groups[g] = running[g]
      /\ groups[Len(running) + 1] = gathered
  <2>1. /\ groups \in Seq(Seq(Jobs)) /\ Len(groups) = Len(running) + 1
        /\ \A g \in 1..Len(running) : groups[g] = running[g]
        /\ groups[Len(running) + 1] = gathered
    BY <1>2, AppendProperties DEF QueueTypes
  <2>2. DOMAIN groups = 1..Len(groups)
    BY <2>1, LenProperties
  <2> QED BY <2>1, <2>2, <1>2, LengthsAreTyped
<1>4. \A g \in 0..(Len(running) + 1) : ends[g] \in Nat
  BY <1>1, <1>2, EndsAreTyped
<1>5. ASSUME NEW g \in 1..(Len(running) + 1)
      PROVE  AreJobsOf(groups[g], ends[g - 1], ends[g])
  <2>1. groups[g] \in Seq(Jobs) /\ HoldTheirs(groups[g], ends[g - 1], ends[g], sequences, kind)
    <3>1. CASE g \in 1..Len(running)
      BY <3>1, <1>1, <1>2, <1>3, LengthsAreTyped DEF GroupsEndAt
    <3>2. CASE g = Len(running) + 1
      <4>1. g - 1 = Len(running)
        BY <3>2, <1>3
      <4> QED BY <3>2, <4>1, <1>1, <1>2, <1>3 DEF GroupsEndAt, QueueTypes
    <3> QED BY <3>1, <3>2, <1>3
  <2>2. DOMAIN groups[g] = 1..Len(groups[g])
    BY <2>1, LenProperties
  <2> HIDE DEF groups
  <2> QED BY <2>1, <2>2 DEF AreJobsOf, HoldTheirs
<1>6. committed = [i \in DOMAIN committed |-> Prepared(kind, sequences[i])]
  <2>1. committed \in Seq(Bits)
    BY <1>2 DEF QueueTypes
  <2>2. /\ DOMAIN committed = 1..Len(committed)
        /\ committed = [i \in DOMAIN committed |-> committed[i]]
    BY <2>1, LenProperties
  <2> QED BY <2>2, <1>2 DEF CommittedInv
<1>7. Len(running) <= maxThreads
  BY <1>2 DEF ThreadsInv
<1>8. caller = "built" => Len(committed) = Len(sequences)
  BY BuiltIsComplete
<1>9. /\ ends \in [0..Len(groups) -> 0..Len(sequences)]
      /\ ends[0] = Len(committed)
      /\ \A g \in DOMAIN groups : AreJobsOf(groups[g], ends[g - 1], ends[g])
      /\ left = SubSeq(sequences, ends[Len(groups)] + 1, Len(sequences))
  <2>1. /\ ends \in [0..(Len(running) + 1) -> 0..Len(sequences)]
        /\ ends[0] = Len(committed)
        /\ left = SubSeq(sequences, ends[Len(running) + 1] + 1, Len(sequences))
    BY <1>1 DEF GroupsEndAt
  <2> HIDE DEF groups
  <2> QED BY <2>1, <1>3, <1>5
<1> QED BY <1>6, <1>7, <1>8, <1>9 DEF SequencesInOrder

\* For every collection, every number of threads and every share of work: the queue
\* keeps its invariant, whatever the order in which the threads prepare their jobs.
THEOREM QueueInvariantHolds == QueueSpec => []QueueInv
<1>1. QueueInit \/ QueueUnused => QueueInv
  BY QueueInitInv DEF QueueInv
<1> QED BY <1>1, QueueNextInv, PTL DEF QueueSpec

\* A collection gets its sequences in the order they were added, none before its bits
\* are written and none lost, by never more threads than allowed.
THEOREM CollectionIsInOrder == QueueSpec => []SequencesInOrder
BY QueueInvariantHolds, QueueInvInOrder, PTL
=============================================================================
