-------------------------------- MODULE Sums --------------------------------
(***************************************************************************)
(* Sums of payload lengths, as a recursive function so that they can be    *)
(* proved about.                                                           *)
(***************************************************************************)
EXTENDS Integers, Sequences, FiniteSets

\* The first n of the numbers s[1], s[2], ... added up.
SumFirst(s, n) ==
  LET sum[i \in 0 .. n] == IF i = 0 THEN 0 ELSE sum[i - 1] + s[i]
  IN  sum[n]

\* The elements of a finite set, in some order.
Enumeration(S) ==
  CHOOSE q \in [1 .. Cardinality(S) -> S] :
    /\ \A x \in S : \E i \in 1 .. Cardinality(S) : q[i] = x
    /\ \A i, j \in 1 .. Cardinality(S) : q[i] = q[j] => i = j

\* The sum of f over a finite set.
SumOver(f, S) ==
  SumFirst([i \in 1 .. Cardinality(S) |-> f[Enumeration(S)[i]]], Cardinality(S))
=============================================================================
