------------------------------- MODULE Positions -------------------------------
(***************************************************************************)
(* Sets of positions in a list that the API server keeps in key order:     *)
(* how it shows them (ascending) and how it cuts them into pages (the      *)
(* first so many).  Defined by what they are, so that proofs need no       *)
(* recursion.                                                              *)
(***************************************************************************)
EXTENDS Integers, Sequences, FiniteSets

\* The members of a finite set of numbers in ascending order.
InOrder(S) ==
    CHOOSE s \in [1..Cardinality(S) -> S] : \A i, j \in DOMAIN s : i < j => s[i] < s[j]

\* The n least members of a set.
FirstOf(S, n) == {k \in S : Cardinality({j \in S : j < k}) < n}

\* What a list has at some positions, in its order.
Pick(list, S) == LET at == InOrder(S) IN [k \in DOMAIN at |-> list[at[k]]]
================================================================================
