------------------------------ MODULE Listings ------------------------------
(***************************************************************************)
(* What the comprehensions and the sorts of the source leave of a sequence *)
(* and of a set.                                                           *)
(***************************************************************************)
EXTENDS Naturals, Sequences, FiniteSets

\* What is left of a sequence once only the elements of keep stay.
Filtered(s, keep) ==
  LET upTo[n \in 0..Len(s)] ==
        IF n = 0 THEN <<>>
        ELSE IF s[n] \in keep THEN Append(upTo[n - 1], s[n]) ELSE upTo[n - 1]
  IN upTo[Len(s)]

\* The members of S in id order: the i-th is the one with i members up to it.
InIdOrder(S) ==
  [i \in 1..Cardinality(S) |-> CHOOSE e \in S : Cardinality({f \in S : f <= e}) = i]
=============================================================================
