---------------------------- MODULE PlainQueries -----------------------------
(***************************************************************************)
(* The queries that use no bound on a list.  Disjunctive ones look at      *)
(* every posting: or_query and ranked_or_query, a document at a time;      *)
(* ranked_or_taat_query, a term at a time; and the first phase of          *)
(* high_then_low (maxscore_query.hpp).  Conjunctive ones are and_query,    *)
(* scored_and_query, ranked_and_query and block_max_ranked_and_query.      *)
(***************************************************************************)
EXTENDS QueryRun

DocumentAtATime == {"or", "ranked_or"}

\* The cursors a wave takes its documents from are those on HIGH lists.
Leading == IF Alg({"wave"}) THEN 1..call.high ELSE 1..n

BeginDisjunction ==
  /\ pc = "begin"
  /\ Alg(DocumentAtATime \cup {"wave"})
  /\ candidate' = LeastOf(pos, Leading)
  /\ pc' = "scan"
  /\ UNCHANGED <<queueVars, call, served, pos, block, order, limit, list, results, acc, floor>>

\* The least document of all cursors is counted or scored.
NextDocument ==
  LET here == {c \in 1..n : pos[c] = candidate}
  IN  /\ pc = "scan"
      /\ Alg(DocumentAtATime)
      /\ candidate < limit
      /\ IF Alg({"or"}) THEN results' = Append(results, candidate) /\ UNCHANGED queueVars
         ELSE Insert(SumOver(Contribution(cursors, candidate), here, n), candidate)
              /\ UNCHANGED results
      /\ pos' = [c \in 1..n |-> IF c \in here THEN NextFrom(cursors[c], pos[c]) ELSE pos[c]]
      /\ candidate' = Earliest({limit, LeastOf(pos', 1..n)})
      /\ UNCHANGED <<call, served, block, order, limit, list, acc, pc, floor>>

EndDisjunction ==
  /\ pc = "scan"
  /\ Alg(DocumentAtATime)
  /\ candidate >= limit
  /\ EndRange
  /\ UNCHANGED <<queueVars, call, served, pos, block, order, candidate, list, results, acc, floor>>

-----------------------------------------------------------------------------
(* The wave: documents of HIGH lists, looked up in the LOW ones. *)

Low == (call.high + 1)..n

NextHighDocument ==
  LET at   == [c \in 1..n |-> IF c \in Low THEN NextGeq(cursors[c], pos[c], candidate) ELSE pos[c]]
      here == {c \in 1..n : at[c] = candidate}
  IN  /\ pc = "scan"
      /\ Alg({"wave"})
      /\ candidate < NumDocs
      /\ Insert(SumOver(Contribution(cursors, candidate), here, n), candidate)
      /\ pos' = [c \in 1..n |-> IF c \in here \ Low THEN NextFrom(cursors[c], at[c]) ELSE at[c]]
      /\ results' = Append(results, candidate)
      /\ candidate' = LeastOf(pos', 1..call.high)
      /\ UNCHANGED <<call, served, block, order, limit, list, acc, pc, floor>>

\* The LOW lists are reset and moved to documents not scored.  Their bounds are 0,
\* because get_low_query leaves the pairs out that bounds are found by: no list is
\* essential, and the second phase ends before it begins.
GiveUpLow ==
  /\ pc = "scan"
  /\ Alg({"wave"})
  /\ candidate >= NumDocs
  /\ pos' = [c \in 1..n |-> IF c \in Low
                            THEN Earliest({NumDocs} \cup {d \in Posted(cursors[c]) :
                                                            ~\E i \in DOMAIN results : results[i] = d})
                            ELSE pos[c]]
  /\ pc' = "answered"
  /\ UNCHANGED <<queueVars, call, served, block, order, limit, candidate, list, results, acc, floor>>

-----------------------------------------------------------------------------
(* Term at a time. *)

BeginAccumulating ==
  /\ pc = "begin"
  /\ Alg(TermAtATime)
  /\ acc' = InitAccumulator(acc)
  /\ list' = 1
  /\ pc' = "scan"
  /\ UNCHANGED <<queueVars, call, served, pos, block, order, limit, candidate, results, floor>>

\* The next posting of a list that is not at its end.
AccumulatePosting ==
  /\ pc = "scan"
  /\ Alg(TermAtATime)
  /\ list <= n
  /\ IF pos[list] < limit
     THEN /\ acc' = Accumulate(acc, pos[list], cursors[list].post[pos[list]])
          /\ pos' = [pos EXCEPT ![list] = NextFrom(cursors[list], @)]
          /\ UNCHANGED list
     ELSE list' = list + 1 /\ UNCHANGED <<acc, pos>>
  /\ UNCHANGED <<queueVars, call, served, block, order, limit, candidate, results, pc, floor>>

BeginAggregating ==
  /\ pc = "scan"
  /\ Alg(TermAtATime)
  /\ list > n
  /\ candidate' = 0
  /\ pc' = "aggregate"
  /\ UNCHANGED <<queueVars, call, served, pos, block, order, limit, list, results, acc, floor>>

Aggregate ==
  /\ pc = "aggregate"
  /\ candidate \in DOMAIN acc.sums
  /\ Insert(AccumulatedScore(acc, candidate), candidate)
  /\ candidate' = candidate + 1
  /\ UNCHANGED <<call, served, pos, block, order, limit, list, results, acc, pc, floor>>

EndAggregating ==
  /\ pc = "aggregate"
  /\ candidate \notin DOMAIN acc.sums
  /\ acc' = NextCounter(acc)
  /\ EndRange
  /\ UNCHANGED <<queueVars, call, served, pos, block, order, candidate, list, results, floor>>

ExhaustiveNext ==
  \/ BeginDisjunction \/ NextDocument \/ EndDisjunction
  \/ NextHighDocument \/ GiveUpLow
  \/ BeginAccumulating \/ AccumulatePosting \/ BeginAggregating \/ Aggregate \/ EndAggregating

-----------------------------------------------------------------------------
(***************************************************************************)
(* Conjunctions: lists are taken by increasing length, and each is moved   *)
(* to the candidate until one is not on it, whose document is the next     *)
(* candidate.  A step is one turn of the main loop.                        *)
(***************************************************************************)

WithBlocks == {"block_max_ranked_and"}
Conjunctions == {"and", "scored_and", "ranked_and"} \cup WithBlocks

Length(c) == Cardinality(Posted(cursors[c]))

\* By increasing length; std::sort leaves ties anyhow.
BySize ==
  {o \in [1..n -> 1..n] :
     /\ \A i, j \in 1..n : i # j => o[i] # o[j]
     /\ \A i, j \in 1..n : i < j => Length(o[i]) <= Length(o[j])}

BeginConjunction ==
  /\ pc = "begin"
  /\ Alg(Conjunctions)
  /\ order' \in BySize
  /\ candidate' = pos[order'[1]]
  /\ list' = 2
  /\ pc' = "scan"
  /\ UNCHANGED <<queueVars, call, served, pos, block, limit, results, acc, floor>>

-----------------------------------------------------------------------------
(* The blocks at the candidate. *)

BlocksAtCandidate ==
  IF Alg(WithBlocks)
  THEN [c \in 1..n |-> LET blocks == call.blocks[c] IN
          Earliest({b \in block[c]..Len(blocks) : b = Len(blocks) \/ blocks[b].last >= candidate})]
  ELSE block

BlockBound(b) == SumTo([c \in 1..n |-> call.blocks[c][b[c]].max], n)

Looking(enters) ==
  /\ pc = "scan"
  /\ Alg(Conjunctions)
  /\ candidate < limit
  /\ block' = BlocksAtCandidate
  /\ (Alg(WithBlocks) => WouldEnter(BlockBound(block'))) <=> enters
  /\ UNCHANGED <<call, served, limit, acc, pc, floor>>

\* No document can enter before the first of these blocks ends.
Jump ==
  LET target == Earliest({limit} \cup {call.blocks[c][block'[c]].last : c \in 1..n}) + 1
  IN  /\ Looking(FALSE)
      /\ candidate' = IF candidate = target THEN limit ELSE target
      /\ list' = 1
      /\ UNCHANGED <<queueVars, pos, order, results>>

-----------------------------------------------------------------------------
(* The lists from the place `list` on, moved to the candidate. *)

MovedTo(p, last) ==
  [c \in 1..n |-> IF \E i \in list..last : order[i] = c
                  THEN NextGeq(cursors[c], p[c], candidate) ELSE p[c]]

Differs(p) == {i \in list..n : MovedTo(p, n)[order[i]] # candidate}

\* A list is not on the candidate: its document is the next.
Disagree ==
  LET i == Earliest(Differs(pos))
  IN  /\ Looking(TRUE)
      /\ Differs(pos) # {}
      /\ pos' = MovedTo(pos, i)
      /\ candidate' = pos'[order[i]]
      /\ list' = 1
      /\ UNCHANGED <<queueVars, order, results>>

\* Mutant of AfterMatch: the first list is not moved on.
AfterMatchStay(p) == p

AfterMatch(p) == [p EXCEPT ![order[1]] = NextFrom(cursors[order[1]], @)]

\* All lists agree on the candidate, and the first one moves on.
Agree ==
  LET at == MovedTo(pos, n)
      score == SumTo([c \in 1..n |-> cursors[c].post[at[c]]], n)
  IN  /\ Looking(TRUE)
      /\ Differs(pos) = {}
      /\ \/ /\ Alg({"and", "scored_and"})
            /\ results' = Append(results, IF Alg({"and"}) THEN candidate ELSE <<candidate, score>>)
            /\ UNCHANGED queueVars
         \/ /\ ~Alg({"and", "scored_and"})
            /\ Insert(score, at[order[1]])
            /\ UNCHANGED results
      /\ pos' = AfterMatch(at)
      /\ candidate' = pos'[order[1]]
      /\ list' = 2
      /\ UNCHANGED order

EndConjunction ==
  /\ pc = "scan"
  /\ Alg(Conjunctions)
  /\ candidate >= limit
  /\ EndRange
  /\ UNCHANGED <<queueVars, call, served, pos, block, order, candidate, list, results, acc, floor>>

ConjunctiveNext == BeginConjunction \/ Disagree \/ Agree \/ Jump \/ EndConjunction

-----------------------------------------------------------------------------
(* A session of queries that use no bound on a list, and what it promises. *)

\* What the thread does, and what others do to its accumulator.
Step == ExhaustiveNext \/ ConjunctiveNext \/ NextQuery
Next == Step \/ Interfere

\* The thread never waits, and nothing is asked of the others.
Spec == Init /\ [][Next]_vars /\ WF_vars(Step)

-----------------------------------------------------------------------------

\* The documents a query is about: those of all its lists, or of any list.  Of a wave,
\* those it finds: of its HIGH lists.
Matches ==
  IF n = 0 THEN {}
  ELSE IF Alg(Conjunctions) THEN {d \in Docs : \A c \in 1..n : d \in Posted(cursors[c])}
  ELSE {d \in Docs : \E c \in Leading : d \in Posted(cursors[c])}

Worth == [d \in Docs |-> IF d \in Matches THEN FullScore(cursors, d) ELSE 0]

Ranking == INSTANCE RankedRetrieval WITH
  Scores <- Nat, relevance <- Worth, settled <- IF pc = "answered" THEN Docs ELSE {}

InTurn(value(_)) == [i \in 1..Cardinality(Matches) |->
  value(CHOOSE d \in Matches : Cardinality({e \in Matches : e < d}) = i - 1)]

GivesMatches ==
  CASE Alg({"or", "and"})   -> results = InTurn(LAMBDA d : d)
    [] Alg({"scored_and"})  -> results = InTurn(LAMBDA d : <<d, FullScore(cursors, d)>>)
    [] OTHER                -> Ranking!BestAbove(floor)

\* No other thread writes to the accumulator of the query.
Alone == Alg(TermAtATime) => call.workers = 1

\* A Boolean query gives the documents it is about, each once and in order, and a
\* ranked one the best of them above its threshold: also in ranges, where the cursors
\* are left standing at the end of one for the next, with ties in the order of the
\* lists, with blocks that lag behind the candidate, and with an accumulator that
\* holds the sums of earlier queries.  Of a term-at-a-time query this is so only with
\* one thread: evaluate_queries.cpp lets all of its threads write to one accumulator,
\* and then an answer can be anything.  It is not so of a wave, which never searches
\* the LOW lists for documents of their own (GiveUpLow).
AnswersAreExact == pc = "answered" /\ Alone /\ ~ Alg({"wave"}) => GivesMatches

\* Every query is answered: the candidate, which may go back when blocks are left,
\* always comes to the end, and the session stops, whatever other threads do to its
\* accumulator.
SessionEnds == <>[](pc = "answered")
=============================================================================
