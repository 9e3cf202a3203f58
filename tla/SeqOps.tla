------------------------------ MODULE SeqOps -------------------------------
(***************************************************************************)
(* The operators on sequences that the models with proofs use, under the   *)
(* names they have in SequencesExt.  That module also brings in bags and   *)
(* the theory of finite sets, which makes every proof obligation about a   *)
(* model that extends it several times as large.                           *)
(***************************************************************************)
EXTENDS Integers, FiniteSets, Sequences, FiniteSetsExt, Functions

Cons(e, s) == <<e>> \o s
Front(s) == SubSeq(s, 1, Len(s) - 1)
Last(s) == s[Len(s)]
Contains(s, e) == \E i \in 1..Len(s) : s[i] = e
Reverse(s) == [i \in 1..Len(s) |-> s[(Len(s) - i) + 1]]
InsertAt(s, i, e) == SubSeq(s, 1, i - 1) \o <<e>> \o SubSeq(s, i, Len(s))
RemoveAt(s, i) == SubSeq(s, 1, i - 1) \o SubSeq(s, i + 1, Len(s))

=============================================================================
