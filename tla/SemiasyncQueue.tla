---------------------------- MODULE SemiasyncQueue ----------------------------
(***************************************************************************)
(* The queue of util/semiasync_queue.hpp, with which a collection of       *)
(* sequences is built (sequence_collection.hpp): the caller gathers jobs   *)
(* until they are work enough for a thread, which prepares them (writes    *)
(* the bits of each sequence); the caller waits for the thread of the      *)
(* oldest group when there are too many, and commits its jobs (appends     *)
(* their bits).                                                            *)
(***************************************************************************)
EXTENDS Integers, Sequences

CONSTANTS
  SequenceKinds,     \* the types of sequence a collection may be of
  Collections,       \* the sequences that collections are made of
  HardwareThreads,   \* what hardware_concurrency may return; 0 when it cannot tell
  WorkPerThread,     \* expected work for which a thread is started
  Prepared(_, _),    \* the bits of a sequence of a type
  NoBits             \* those of a job that is not prepared

ASSUME QueueAssumption ==
  /\ HardwareThreads \subseteq Nat /\ WorkPerThread \in Nat
  /\ \A c \in Collections : c \in Seq(Seq(Nat))

VARIABLES
  kind,         \* the type of the sequences
  sequences,    \* the sequences of the collection, in their order
  maxThreads,   \* m_max_threads
  left,         \* the sequences that have not been added
  gathered,     \* the jobs of m_next_thread: [seq, bits], no bits before they are prepared
  work,         \* m_expected_work
  running,      \* m_running_threads, each its jobs, the oldest first
  committed,    \* the bit vectors of the collection
  caller        \* "add", "spawn" (a group must be started) or "built"

queueVars == <<kind, sequences, maxThreads, left, gathered, work, running, committed, caller>>

Unprepared(job) == job.bits = NoBits
BitsOfJobs(jobs) == [i \in DOMAIN jobs |-> jobs[i].bits]

QueueInit ==
  /\ kind \in SequenceKinds /\ sequences \in Collections
  /\ maxThreads \in HardwareThreads
  /\ left = sequences
  /\ gathered = <<>> /\ work = 0 /\ running = <<>> /\ committed = <<>>
  /\ caller = "add"

\* Where nothing is built with the queue.
QueueUnused ==
  /\ kind = "none" /\ sequences = <<>>
  /\ maxThreads = 0 /\ left = <<>> /\ gathered = <<>> /\ work = 0
  /\ running = <<>> /\ committed = <<>> /\ caller = "built"

\* add_job; with no thread to start the job is prepared and committed at once.
AddJob ==
  /\ caller = "add" /\ left # <<>>
  /\ left' = Tail(left)
  /\ \/ /\ maxThreads # 0
        /\ gathered' = Append(gathered, [seq |-> Head(left), bits |-> NoBits])
        /\ work' = work + Len(Head(left))
        /\ caller' = IF work' >= WorkPerThread THEN "spawn" ELSE "add"
        /\ UNCHANGED committed
     \/ /\ maxThreads = 0
        /\ committed' = Append(committed, Prepared(kind, Head(left)))
        /\ UNCHANGED <<gathered, work, caller>>
  /\ UNCHANGED <<kind, sequences, maxThreads, running>>

\* complete: the last group is started however little work it is.
StartLast ==
  /\ caller = "add" /\ left = <<>> /\ gathered # <<>>
  /\ caller' = "spawn"
  /\ UNCHANGED <<kind, sequences, maxThreads, left, gathered, work, running, committed>>

\* spawn_next_thread, once there is room
SpawnThread ==
  /\ caller = "spawn"
  /\ Len(running) < maxThreads
  /\ running' = Append(running, gathered)
  /\ gathered' = <<>> /\ work' = 0
  /\ caller' = "add"
  /\ UNCHANGED <<kind, sequences, maxThreads, left, committed>>

\* The caller needs room for a thread, or has started all.
MustCommit ==
  \/ caller = "spawn" /\ Len(running) = maxThreads
  \/ caller = "add" /\ left = <<>> /\ gathered = <<>>

\* Mutant of CommitThread: the thread is not waited for.
CommitThreadEarly ==
  /\ MustCommit
  /\ running # <<>>
  /\ committed' = committed \o BitsOfJobs(Head(running))
  /\ running' = Tail(running)
  /\ UNCHANGED <<kind, sequences, maxThreads, left, gathered, work, caller>>

\* commit_thread: the oldest thread is joined and its jobs are committed in order.
CommitThread ==
  /\ MustCommit
  /\ running # <<>>
  /\ \A i \in DOMAIN Head(running) : ~Unprepared(Head(running)[i])
  /\ committed' = committed \o BitsOfJobs(Head(running))
  /\ running' = Tail(running)
  /\ UNCHANGED <<kind, sequences, maxThreads, left, gathered, work, caller>>

\* A thread prepares its next job.
Prepare ==
  /\ \E g \in DOMAIN running : \E i \in DOMAIN running[g] :
       /\ Unprepared(running[g][i])
       /\ \A j \in 1..(i - 1) : ~Unprepared(running[g][j])
       /\ LET job == running[g][i]
              done == [seq |-> job.seq, bits |-> Prepared(kind, job.seq)]
          IN  running' = [running EXCEPT ![g] = [@ EXCEPT ![i] = done]]
  /\ UNCHANGED <<kind, sequences, maxThreads, left, gathered, work, committed, caller>>

\* complete returns when every group is committed.
Completed == caller = "add" /\ left = <<>> /\ gathered = <<>> /\ running = <<>>

\* The collection is taken from the builder.
Close ==
  /\ Completed
  /\ caller' = "built"
  /\ UNCHANGED <<kind, sequences, maxThreads, left, gathered, work, running, committed>>

QueueStep == AddJob \/ StartLast \/ SpawnThread \/ CommitThread \/ Prepare

\* A collection is built, or none.
QueueSpec == (QueueInit \/ QueueUnused) /\ [][QueueStep \/ Close]_queueVars

-----------------------------------------------------------------------------

\* Jobs of the sequences after the first from, up to the one counted to.
AreJobsOf(jobs, from, to) ==
  /\ Len(jobs) = to - from
  /\ \A i \in DOMAIN jobs : jobs[i].seq = sequences[from + i]

\* Whatever the order in which threads prepare their jobs, a collection gets the
\* sequences in the order they were added, none before its bits are written and
\* none lost; and there are never more threads than allowed (semiasync_queue.hpp).
SequencesInOrder ==
  LET groups == Append(running, gathered)
  IN  /\ Len(running) <= maxThreads
      /\ committed = [i \in DOMAIN committed |-> Prepared(kind, sequences[i])]
      /\ \E ends \in [0..Len(groups) -> 0..Len(sequences)] :
           /\ ends[0] = Len(committed)
           /\ \A g \in DOMAIN groups : AreJobsOf(groups[g], ends[g - 1], ends[g])
           /\ left = SubSeq(sequences, ends[Len(groups)] + 1, Len(sequences))
      /\ caller = "built" => Len(committed) = Len(sequences)
=============================================================================
