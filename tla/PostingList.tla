---------------------------- MODULE PostingList ------------------------------
(***************************************************************************)
(* What a cursor on a posting list promises its queries, whatever the list *)
(* is encoded with: it stands at a posting or at the end, it moves where   *)
(* it is told to, and a frequency is that of the posting it stands at.     *)
(***************************************************************************)
EXTENDS Integers, Sequences, FiniteSets, FiniteSetsExt

CONSTANT NumDocs             \* the documents are 0 .. NumDocs-1

VARIABLES list,              \* [docs, freqs], the postings; freqs may be left out
          at,                \* the index of the posting, Len(list.docs) at the end
          answer             \* the frequency asked for since the cursor moved, 0 if none

vars == <<list, at, answer>>

Size        == Len(list.docs)
DocAt(i)    == IF i = Size THEN NumDocs ELSE list.docs[i + 1]
FirstGeq(b) == Min({i \in 0..Size : DocAt(i) >= b})

To(i)      == at' = i /\ answer' = 0 /\ UNCHANGED list
Reset      == To(0)
Next_      == at < Size /\ To(at + 1)
NextGeq(b) == To(FirstGeq(b))
Move(i)    == To(i)
Freq       == at < Size /\ list.freqs # <<>> /\ answer' = list.freqs[at + 1] /\ UNCHANGED <<list, at>>

Init == at = 0 /\ answer = 0
Next == \/ Reset \/ Next_ \/ Freq
        \/ \E b \in 0..NumDocs : NextGeq(b)
        \/ \E i \in 0..Size : Move(i)

Spec == Init /\ [][Next]_vars
=============================================================================
