------------------------------- MODULE Lists -------------------------------
(***************************************************************************)
(* Linked lists in memory: the pools of critnib.c and the deleted leaves   *)
(* of critbit.c.                                                           *)
(***************************************************************************)
EXTENDS Integers, FiniteSets

\* The blocks of S are the list that starts with head; q has them from the
\* last to the first.
IsList(S, next, head, q, null) ==
    /\ \A x \in S : \E i \in 1 .. Cardinality(S) : q[i] = x
    /\ \A i, j \in 1 .. Cardinality(S) : q[i] = q[j] => i = j
    /\ \A i \in 1 .. Cardinality(S) :
          next[q[i]] = IF i = 1 THEN null ELSE q[i-1]
    /\ head = IF S = {} THEN null ELSE q[Cardinality(S)]

ListOf(S, next, head, null) ==
    \E q \in [1 .. Cardinality(S) -> S] : IsList(S, next, head, q, null)
=============================================================================
