----------------------------- MODULE Subsequences -----------------------------
(***************************************************************************)
(* What a list keeps of its elements, position by position rather than by  *)
(* recursion, so that it can be reasoned about.                            *)
(***************************************************************************)
EXTENDS Integers, Sequences, FiniteSets

\* Which of the positions in a set comes n-th.
Nth(positions, n) ==
  CHOOSE i \in positions : Cardinality({k \in positions : k <= i}) = n

\* [x for x in s if x in S]
Kept(s, S) ==
  LET positions == {i \in 1..Len(s) : s[i] \in S}
  IN [n \in 1..Cardinality(positions) |-> s[Nth(positions, n)]]
=============================================================================
