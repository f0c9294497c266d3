------------------------------- MODULE Lists -------------------------------
(***************************************************************************)
(* Lists, in forms that a proof can reason about.                          *)
(***************************************************************************)
EXTENDS Integers, FiniteSets, Sequences, Functions

\* What `retain`, or a loop that skips elements, leaves of a list.  The elements that
\* stay are given by their places, not by a test.
Keeping(s, places) ==
    LET kept[i \in 0..Len(s)] ==
            IF i = 0 THEN <<>>
            ELSE IF i \in places THEN Append(kept[i - 1], s[i]) ELSE kept[i - 1]
    IN  kept[Len(s)]

\* What a loop over a list makes of the value it starts with.
Folding(op(_, _), base, s) ==
    LET after[i \in 0..Len(s)] == IF i = 0 THEN base ELSE op(after[i - 1], s[i])
    IN  after[Len(s)]

\* What a loop that extends one list by others makes of them.
Joined(lists) == Folding(LAMBDA all, list : all \o list, <<>>, lists)

\* The lists of all of a set, as iterating over a map or a sort by anything may give it,
\* and the lists of any part of it.
Listings(S) == {s \in [1..Cardinality(S) -> S] : IsInjective(s)}
Orders(S) == UNION {Listings(T) : T \in SUBSET S}
=============================================================================
