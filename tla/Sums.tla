---------------------------------- MODULE Sums ----------------------------------
(***************************************************************************)
(* The sum of a sequence of numbers, and the members of a set of indices in *)
(* their order: each as a running value along the indices, so that it can   *)
(* be reasoned about (SumsProofs).                                         *)
(***************************************************************************)
EXTENDS Integers, Sequences

SumOf(w) ==
    LET upTo[i \in 0 .. Len(w)] == IF i = 0 THEN 0 ELSE upTo[i - 1] + w[i]
    IN  upTo[Len(w)]

Ascending(S, n) ==
    LET upTo[i \in 0 .. n] ==
            IF i = 0 THEN <<>> ELSE IF i \in S THEN Append(upTo[i - 1], i) ELSE upTo[i - 1]
    IN  upTo[n]
=============================================================================
